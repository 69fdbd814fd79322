----------------------------- MODULE AOTIRProofs -----------------------------
(***************************************************************************)
(* Theorems about AOTIR, for any number of threads, any limit, any entry   *)
(* points and any sequence of processes: one thread at a time runs the     *)
(* entries of the queue, nothing that was captured is lost, what is        *)
(* published is complete and found by the binary search, and IR is used    *)
(* for the code it was made from.                                          *)
(***************************************************************************)
EXTENDS AOTIR, NaturalsInduction, WellFoundedInduction, SequenceTheorems, FiniteSetTheorems, TLAPS

-----------------------------------------------------------------------------
(* The write-out queue *)

Labels == {"idle", "compiled", "cas", "flush", "pop", "write", "writelast",
           "recheck", "map", "index", "rename", "ended"}

\* The queue is a sequence, of whatever was compiled.
IsQueue == \E S : Queue \in Seq(S)

\* Each actor does its own work, and Main only once the threads have left.
Placed ==
    /\ pc \in [Actors -> Labels]
    /\ \A t \in Threads : pc[t] \notin {"index", "rename", "ended"}
    /\ pc[Main] \notin {"compiled", "cas", "map"}
    /\ pc[Main] # "idle" => \A t \in Threads : pc[t] = "idle"

\* Whoever goes round the loop again has left an entry in the queue, which
\* nobody else takes.
FrontKept == \A a \in Actors : pc[a] \in {"pop", "write"} => Queue # <<>>

FlushInv == IsQueue /\ Placed /\ FrontKept /\ OneFlusher /\ LongQueueFlushed

LEMMA MainActor == Main \in Actors /\ Threads \subseteq Actors /\ Main \notin Threads
  BY ActorAssumption DEF Actors

\* Nothing is lost when the queue is empty.
LEMMA EmptyQueue == <<>> \in Seq({}) /\ Len(<<>>) = 0 /\ ~(Len(<<>>) > Limit)
  BY BoundAssumption

LEMMA FlushInit == Init => FlushInv
  <1> SUFFICES ASSUME Init PROVE FlushInv
    OBVIOUS
  <1>1. pc = [a \in Actors |-> "idle"] /\ Queue = <<>> /\ Flusing = FALSE
    BY DEF Init
  <1>2. IsQueue /\ LongQueueFlushed
    BY <1>1, EmptyQueue DEF IsQueue, LongQueueFlushed
  <1>3. Placed /\ FrontKept /\ OneFlusher
    BY <1>1, MainActor DEF Placed, FrontKept, OneFlusher, InFlush, Labels
  <1> QED BY <1>2, <1>3 DEF FlushInv

\* A new process starts with an empty queue and nobody at work.
LEMMA FlushNewProcess ==
    ASSUME FlushInv, NewProcess
    PROVE  FlushInv'
  <1>1. pc' = [a \in Actors |-> "idle"] /\ Queue' = <<>> /\ Flusing' = FALSE
    BY DEF NewProcess, Volatile
  <1>2. IsQueue' /\ LongQueueFlushed'
    BY <1>1, EmptyQueue DEF IsQueue, LongQueueFlushed
  <1>3. Placed' /\ FrontKept' /\ OneFlusher'
    BY <1>1, MainActor DEF Placed, FrontKept, OneFlusher, InFlush, Labels
  <1> QED BY <1>2, <1>3 DEF FlushInv

\* A step of a thread outside of the flush that leaves the queue alone.
LEMMA FlushElsewhere ==
    ASSUME FlushInv, NEW t \in Threads, NEW l \in {"idle", "compiled", "map"},
           pc[t] \in {"idle", "compiled", "map"}, pc[Main] = "idle", Goto(t, l),
           UNCHANGED <<Queue, Flusing>>
    PROVE  FlushInv'
  <1>1. pc' = [pc EXCEPT ![t] = l]
    BY DEF Goto
  <1> QED BY <1>1, MainActor
          DEF FlushInv, IsQueue, Placed, FrontKept, OneFlusher, LongQueueFlushed, InFlush, Labels

LEMMA FlushAppend ==
    ASSUME FlushInv, NEW t \in Threads, PostCompileCode(t)
    PROVE  FlushInv'
  <1>0. pc[t] = "compiled" /\ pc[Main] = "idle"
    BY MainActor DEF FlushInv, Placed, PostCompileCode
  <1>1. CASE ~Captures
    BY <1>0, <1>1, FlushElsewhere DEF PostCompileCode
  <1>2. CASE Captures
    <2> DEFINE e == [rip |-> block[t].rip, hash |-> code[block[t].rip], ir |-> block[t].ir]
               l == IF Len(Queue') > Limit THEN "cas" ELSE "map"
    <2>1. Queue' = Append(Queue, e) /\ pc' = [pc EXCEPT ![t] = l] /\ UNCHANGED Flusing
      BY <1>2 DEF PostCompileCode, Goto
    <2>2. l \in {"cas", "map"} /\ (Len(Queue') > Limit => l = "cas")
      OBVIOUS
    <2> HIDE DEF e, l
    <2>3. PICK S : Queue \in Seq(S)
      BY DEF FlushInv, IsQueue
    <2>4. Queue \in Seq(S \cup {e})
      BY <2>3
    <2>5. Queue' \in Seq(S \cup {e}) /\ Queue' # <<>>
      BY <2>1, <2>4, AppendProperties
    <2>6. IsQueue'
      BY <2>5 DEF IsQueue
    <2>7. Placed' /\ FrontKept' /\ OneFlusher'
      BY <1>0, <2>1, <2>2, <2>5, MainActor
         DEF FlushInv, Placed, FrontKept, OneFlusher, InFlush, Labels
    <2>8. LongQueueFlushed'
      <3> SUFFICES ASSUME Len(Queue') > Limit PROVE pc'[t] = "cas"
        BY MainActor DEF LongQueueFlushed
      <3> QED BY <2>1, <2>2, MainActor DEF FlushInv, Placed
    <2> QED BY <2>6, <2>7, <2>8 DEF FlushInv
  <1> QED BY <1>1, <1>2

\* The compare-exchange: a thread that loses it leaves the queue to the one
\* that flushes.
LEMMA FlushElection ==
    ASSUME FlushInv, NEW t \in Threads, TryFlush(t)
    PROVE  FlushInv'
  <1>0. pc[t] = "cas" /\ pc[Main] = "idle" /\ UNCHANGED Queue
    BY MainActor DEF FlushInv, Placed, TryFlush
  <1>1. CASE Flusing
    <2>1. pc' = [pc EXCEPT ![t] = "map"] /\ UNCHANGED Flusing
      BY <1>1 DEF TryFlush, Goto
    <2>2. PICK u \in Threads : InFlush(u)
      BY <1>1 DEF FlushInv, OneFlusher
    <2>3. u # t /\ pc'[u] = pc[u]
      BY <1>0, <2>1, <2>2, MainActor DEF FlushInv, Placed, InFlush
    <2>4. LongQueueFlushed'
      BY <2>2, <2>3, MainActor DEF LongQueueFlushed, InFlush
    <2> QED BY <1>0, <2>1, <2>4, MainActor
            DEF FlushInv, IsQueue, Placed, FrontKept, OneFlusher, InFlush, Labels
  <1>2. CASE ~Flusing
    <2>1. pc' = [pc EXCEPT ![t] = "flush"] /\ Flusing' = TRUE
      BY <1>2 DEF TryFlush, Goto
    <2>2. \A a \in Actors : ~InFlush(a)
      BY <1>0, <1>2 DEF FlushInv, OneFlusher, InFlush, Actors
    <2> QED BY <1>0, <2>1, <2>2, MainActor
            DEF FlushInv, IsQueue, Placed, FrontKept, OneFlusher, LongQueueFlushed, InFlush, Labels
  <1> QED BY <1>1, <1>2

\* The flusher stays in the flush, or leaves an empty queue behind.
LEMMA FlushLoop ==
    ASSUME FlushInv, NEW a \in Actors, FlushStep(a)
    PROVE  FlushInv'
  <1>0. /\ InFlush(a) /\ \A b \in Actors : InFlush(b) => b = a
        /\ Flusing <=> a \in Threads
    BY MainActor DEF FlushInv, OneFlusher, FlushStep, FlushStart, Pop, WriteEntry, Recheck, InFlush,
       Actors
  <1>1. ASSUME NEW l \in {"pop", "recheck"}, Goto(a, l), UNCHANGED <<Queue, Flusing>>,
               l = "pop" => Queue # <<>>
        PROVE  FlushInv'
    <2>1. pc' = [pc EXCEPT ![a] = l]
      BY <1>1 DEF Goto
    <2> QED BY <1>0, <1>1, <2>1, MainActor
            DEF FlushInv, IsQueue, Placed, FrontKept, OneFlusher, LongQueueFlushed, InFlush, Labels
  <1>2. ASSUME Queue = <<>>, Goto(a, AfterFlush(a)), UNCHANGED Queue, Flusing' = FALSE
        PROVE  FlushInv'
    <2>1. pc' = [pc EXCEPT ![a] = AfterFlush(a)]
      BY <1>2 DEF Goto
    <2>2. LongQueueFlushed' /\ IsQueue'
      BY <1>2, EmptyQueue DEF LongQueueFlushed, IsQueue
    <2>3. Placed' /\ FrontKept' /\ OneFlusher'
      BY <1>0, <1>2, <2>1, MainActor
         DEF FlushInv, Placed, FrontKept, OneFlusher, InFlush, Labels, AfterFlush
    <2> QED BY <2>2, <2>3 DEF FlushInv
  <1>3. CASE FlushStart(a) \/ Recheck(a)
    BY <1>1, <1>2, <1>3 DEF FlushStart, Recheck
  <1>4. CASE WriteEntry(a)
    BY <1>1, <1>4 DEF WriteEntry, queue, FlushInv, FrontKept
  <1>5. CASE Pop(a)
    <2>1. PICK S : Queue \in Seq(S) /\ Queue # <<>>
      BY <1>5 DEF FlushInv, IsQueue, Pop
    <2>2. Queue' \in Seq(S)
      BY <1>5, <2>1 DEF Pop
    <2> DEFINE l == IF Queue' = <<>> THEN "writelast" ELSE "write"
    <2>3. pc' = [pc EXCEPT ![a] = l] /\ UNCHANGED Flusing
      BY <1>5 DEF Pop, Goto
    <2>4. l \in {"write", "writelast"} /\ (l = "write" => Queue' # <<>>)
      OBVIOUS
    <2> HIDE DEF l
    <2>5. IsQueue'
      BY <2>2 DEF IsQueue
    <2>6. Placed'
      BY <1>0, <2>3, <2>4, MainActor DEF FlushInv, Placed, InFlush, Labels
    <2>7. OneFlusher' /\ FrontKept' /\ LongQueueFlushed'
      BY <1>0, <2>3, <2>4, MainActor
         DEF FlushInv, Placed, FrontKept, OneFlusher, LongQueueFlushed, InFlush
    <2> QED BY <2>5, <2>6, <2>7 DEF FlushInv
  <1> QED BY <1>3, <1>4, <1>5 DEF FlushStep

\* Main starts its flush when no thread is in one.
LEMMA FlushMain ==
    ASSUME FlushInv, MainStep
    PROVE  FlushInv'
  <1>1. CASE Exit
    <2> DEFINE l == IF Captures THEN "flush" ELSE "ended"
    <2>1. /\ pc[Main] = "idle" /\ \A t \in Threads : pc[t] \in {"idle", "compiled", "map"}
          /\ UNCHANGED <<Queue, Flusing>>
      BY <1>1 DEF Exit, queue
    <2>2. pc' = [a \in Actors |-> IF a # Main THEN "idle" ELSE l]
      BY <1>1 DEF Exit
    <2>3. l \in {"flush", "ended"}
      OBVIOUS
    <2> HIDE DEF l
    <2>4. \A a \in Actors : ~InFlush(a) /\ pc[a] # "cas"
      BY <2>1 DEF InFlush, Actors
    <2>5. ~Flusing /\ ~(Len(Queue) > Limit)
      BY <2>4, MainActor DEF FlushInv, OneFlusher, LongQueueFlushed
    <2> QED BY <2>1, <2>2, <2>3, <2>5, MainActor
            DEF FlushInv, IsQueue, Placed, FrontKept, OneFlusher, LongQueueFlushed, InFlush, Labels
  <1>2. CASE WriteIndex \/ Rename
    <2>1. \E l \in {"rename", "ended"} : pc' = [pc EXCEPT ![Main] = l]
      BY <1>2 DEF WriteIndex, Rename, Goto
    <2>2. pc[Main] \in {"index", "rename"} /\ UNCHANGED <<Queue, Flusing>>
      BY <1>2 DEF WriteIndex, Rename, queue
    <2> QED BY <2>1, <2>2, MainActor
            DEF FlushInv, IsQueue, Placed, FrontKept, OneFlusher, LongQueueFlushed, InFlush, Labels
  <1> QED BY <1>1, <1>2 DEF MainStep

\* What changes the code at an entry point, or drops its blocks.
CodeStep(r) == (\E v \in Versions : GuestWrite(r, v) \/ GuestRemap(r, v)) \/ TrackRemap(r)

LEMMA FlushNext == FlushInv /\ [Next]_vars => FlushInv'
  <1> SUFFICES ASSUME FlushInv, [Next]_vars PROVE FlushInv'
    OBVIOUS
  <1>1. ASSUME NEW t \in Threads, NEW r \in RIPs, PreGenerateIRFetch(t, r) \/ GenerateIR(t, r)
        PROVE  FlushInv'
    <2>1. PICK l \in {"compiled", "map"} : Goto(t, l)
      BY <1>1 DEF PreGenerateIRFetch, GenerateIR
    <2>2. pc[t] = "idle" /\ pc[Main] = "idle" /\ UNCHANGED <<Queue, Flusing>>
      BY <1>1 DEF PreGenerateIRFetch, GenerateIR, Wanted, queue
    <2> QED BY <2>1, <2>2, FlushElsewhere
  <1>2. ASSUME NEW t \in Threads, PostCompileCode(t) PROVE FlushInv'
    BY <1>2, FlushAppend
  <1>3. ASSUME NEW t \in Threads, TryFlush(t) PROVE FlushInv'
    BY <1>3, FlushElection
  <1>4. ASSUME NEW t \in Threads, AddBlockMapping(t) \/ AddTargets(t) PROVE FlushInv'
    <2>1. pc[t] = "map" /\ Goto(t, "idle") /\ UNCHANGED <<Queue, Flusing>>
      BY <1>4 DEF AddBlockMapping, AddTargets, Leave, queue
    <2>2. pc[Main] = "idle"
      BY <2>1 DEF FlushInv, Placed
    <2> QED BY <2>1, <2>2, FlushElsewhere
  <1>5. ASSUME NEW a \in Actors, FlushStep(a) PROVE FlushInv'
    BY <1>5, FlushLoop
  <1>6. ASSUME UNCHANGED <<pc, Queue, Flusing>> PROVE FlushInv'
    BY <1>6 DEF FlushInv, IsQueue, Placed, FrontKept, OneFlusher, LongQueueFlushed, InFlush
  <1>7. ASSUME NEW r \in RIPs, CodeStep(r) PROVE FlushInv'
    BY <1>6, <1>7 DEF CodeStep, GuestWrite, GuestRemap, TrackRemap, control, queue
  <1>8. CASE MainStep
    BY <1>8, FlushMain
  <1>9. CASE NewProcess
    BY <1>9, FlushNewProcess
  <1>10. CASE UNCHANGED vars
    BY <1>6, <1>10 DEF vars, control, queue
  <1> QED BY <1>1, <1>2, <1>3, <1>4, <1>5, <1>7, <1>8, <1>9, <1>10 DEF Next, ThreadStep, CodeStep

\* At most one thread at a time runs the entries of the queue, and it never
\* takes the front of an empty one.
THEOREM OneFlusherAlways == Spec => []OneFlusher
  <1>1. FlushInv => OneFlusher
    BY DEF FlushInv
  <1> QED BY <1>1, FlushInit, FlushNext, PTL DEF Spec

\* No append that counted on the flusher is left behind in a queue that is
\* too long.
THEOREM LongQueueFlushedAlways == Spec => []LongQueueFlushed
  <1>1. FlushInv => LongQueueFlushed
    BY DEF FlushInv
  <1> QED BY <1>1, FlushInit, FlushNext, PTL DEF Spec

-----------------------------------------------------------------------------
(* The binary search *)

LEMMA LeastNatural ==
    ASSUME NEW T, T \subseteq Nat, T # {}
    PROVE  \E x \in T : \A y \in T : x =< y
  <1>1. IsWellFoundedOn(OpToRel(<, Nat), Nat)
    BY NatLessThanWellFounded
  <1>2. PICK x \in T : \A y \in T : ~(<<y, x>> \in OpToRel(<, Nat))
    BY <1>1, WFMin
  <1>3. \A y \in T : <<y, x>> \in Nat \X Nat /\ (y < x => <<y, x>> \in OpToRel(<, Nat))
    BY DEF OpToRel
  <1>4. \A y \in T : ~(y < x)
    BY <1>2, <1>3
  <1> QED BY <1>4

\* One round of the search of Find on the window w, with f for what the later
\* rounds return.
Windows(file) == (0 .. Len(file.index)) \X (-1 .. Len(file.index) - 1)
Middle(w) == w[1] + (w[2] - w[1]) \div 2
At(file, m) == file.index[m + 1]
Halve(f, file, g, w) ==
    IF w[1] > w[2] THEN None
    ELSE IF At(file, Middle(w)).GuestStart = g THEN file.recs[At(file, Middle(w)).DataOffset]
    ELSE IF At(file, Middle(w)).GuestStart < g THEN f[<<Middle(w) + 1, w[2]>>]
    ELSE f[<<w[1], Middle(w) - 1>>]

\* The entries of the window that the search is for, and its answer.
Hits(file, g, w) == {m \in w[1] .. w[2] : At(file, m).GuestStart = g}
Answer(file, g) ==
    [w \in Windows(file) |->
        IF Hits(file, g, w) = {} THEN None
        ELSE file.recs[At(file, CHOOSE m \in Hits(file, g, w) : TRUE).DataOffset]]

\* A file with a sorted index.
Ordered(file) ==
    /\ Len(file.index) \in Nat
    /\ \A m \in 0 .. Len(file.index) - 1 : At(file, m).GuestStart \in Nat
    /\ \A m, n \in 0 .. Len(file.index) - 1 : m < n => At(file, m).GuestStart < At(file, n).GuestStart

LEMMA MiddleIn ==
    ASSUME NEW file, Len(file.index) \in Nat, NEW w \in Windows(file), w[1] =< w[2]
    PROVE  /\ w[1] \in 0 .. Len(file.index) - 1 /\ w[2] \in 0 .. Len(file.index) - 1
           /\ w = <<w[1], w[2]>>
           /\ Middle(w) \in 0 .. Len(file.index) - 1 /\ Middle(w) \in w[1] .. w[2]
           /\ <<Middle(w) + 1, w[2]>> \in Windows(file) /\ <<w[1], Middle(w) - 1>> \in Windows(file)
  <1>1. w[1] \in 0 .. Len(file.index) /\ w[2] \in -1 .. Len(file.index) - 1 /\ w = <<w[1], w[2]>>
    BY DEF Windows
  <1>2. w[1] \in Int /\ w[2] \in Int /\ w[2] - w[1] \in Nat
    BY <1>1
  <1>3. (w[2] - w[1]) \div 2 \in 0 .. (w[2] - w[1])
    BY <1>2
  <1>4. Middle(w) \in Int /\ w[1] =< Middle(w) /\ Middle(w) =< w[2]
    BY <1>2, <1>3 DEF Middle
  <1>5. Middle(w) + 1 \in 0 .. Len(file.index) /\ Middle(w) - 1 \in -1 .. Len(file.index) - 1
    BY <1>1, <1>4
  <1>6. <<Middle(w) + 1, w[2]>> \in Windows(file) /\ <<w[1], Middle(w) - 1>> \in Windows(file)
    BY <1>1, <1>5 DEF Windows
  <1>7. /\ w[1] \in 0 .. Len(file.index) - 1 /\ w[2] \in 0 .. Len(file.index) - 1
        /\ Middle(w) \in 0 .. Len(file.index) - 1 /\ Middle(w) \in w[1] .. w[2]
    BY <1>1, <1>2, <1>4
  <1> QED BY <1>1, <1>6, <1>7

\* The answer satisfies the equation that defines the search: on a sorted
\* index everything the search is for is on one side of the middle.
LEMMA AnswerIsSearch ==
    ASSUME NEW file, Ordered(file), NEW g \in Nat
    PROVE  Answer(file, g) = [w \in Windows(file) |-> Halve(Answer(file, g), file, g, w)]
  <1> SUFFICES ASSUME NEW w \in Windows(file)
               PROVE  Answer(file, g)[w] = Halve(Answer(file, g), file, g, w)
    BY DEF Answer
  <1> DEFINE m == Middle(w)
  <1>0. w[1] \in Int /\ w[2] \in Int
    BY DEF Windows, Ordered
  <1>1. CASE w[1] > w[2]
    <2>1. Hits(file, g, w) = {}
      BY <1>0, <1>1 DEF Hits
    <2> QED BY <1>1, <2>1 DEF Answer, Halve
  <1>2. CASE ~(w[1] > w[2])
    <2>0. w[1] =< w[2]
      BY <1>0, <1>2
    <2>1. /\ m \in 0 .. Len(file.index) - 1 /\ m \in w[1] .. w[2] /\ m \in Int
          /\ <<m + 1, w[2]>> \in Windows(file) /\ <<w[1], m - 1>> \in Windows(file)
      BY <2>0, MiddleIn DEF Ordered
    <2>2. \A x \in w[1] .. w[2] : x \in 0 .. Len(file.index) - 1 /\ x \in Int
      <3>1. w[1] \in 0 .. Len(file.index) - 1 /\ w[2] \in 0 .. Len(file.index) - 1 /\ Len(file.index) \in Nat
        BY <2>0, MiddleIn DEF Ordered
      <3> QED BY <3>1
    <2>3. \A x \in w[1] .. w[2] : /\ At(file, x).GuestStart \in Nat
                                  /\ x < m => At(file, x).GuestStart < At(file, m).GuestStart
                                  /\ x > m => At(file, x).GuestStart > At(file, m).GuestStart
      BY <2>1, <2>2 DEF Ordered
    <2>4. At(file, m).GuestStart \in Nat
      BY <2>1, <2>3
    <2>5. Halve(Answer(file, g), file, g, w) =
             IF At(file, m).GuestStart = g THEN file.recs[At(file, m).DataOffset]
             ELSE IF At(file, m).GuestStart < g THEN Answer(file, g)[<<m + 1, w[2]>>]
             ELSE Answer(file, g)[<<w[1], m - 1>>]
      BY <1>2 DEF Halve
    <2> HIDE DEF m
    <2>6. CASE At(file, m).GuestStart = g
      <3>1. m \in Hits(file, g, w)
        BY <2>1, <2>6 DEF Hits
      <3>2. \A x \in Hits(file, g, w) : x = m
        BY <2>1, <2>2, <2>3, <2>6 DEF Hits
      <3>3. (CHOOSE x \in Hits(file, g, w) : TRUE) = m
        BY <3>1, <3>2
      <3> QED BY <2>5, <2>6, <3>1, <3>3 DEF Answer
    <2>7. CASE At(file, m).GuestStart < g
      <3>1. \A x \in w[1] .. w[2] : At(file, x).GuestStart = g => x >= m + 1
        BY <2>1, <2>2, <2>3, <2>4, <2>7
      <3>2. Hits(file, g, <<m + 1, w[2]>>) = Hits(file, g, w)
        BY <1>0, <2>1, <3>1 DEF Hits
      <3> QED BY <2>1, <2>4, <2>5, <2>7, <3>2 DEF Answer
    <2>8. CASE At(file, m).GuestStart > g
      <3>1. \A x \in w[1] .. w[2] : At(file, x).GuestStart = g => x =< m - 1
        BY <2>1, <2>2, <2>3, <2>4, <2>8
      <3>2. Hits(file, g, <<w[1], m - 1>>) = Hits(file, g, w)
        BY <1>0, <2>1, <3>1 DEF Hits
      <3> QED BY <2>1, <2>4, <2>5, <2>8, <3>2 DEF Answer
    <2> QED BY <2>4, <2>6, <2>7, <2>8
  <1> QED BY <1>1, <1>2

\* ... and nothing else does: the shortest window on which another solution
\* differed would have to hold one that is shorter.
LEMMA SearchIsAnswer ==
    ASSUME NEW file, Ordered(file), NEW g \in Nat, NEW f,
           f = [w \in Windows(file) |-> Halve(f, file, g, w)], NEW v \in Windows(file)
    PROVE  f[v] = Answer(file, g)[v]
  <1> DEFINE A == Answer(file, g)
             Differs == {n \in Nat : \E w \in Windows(file) : n = w[2] - w[1] /\ f[w] # A[w]}
  <1>0. \A w \in Windows(file) : f[w] = Halve(f, file, g, w) /\ A[w] = Halve(A, file, g, w)
    BY AnswerIsSearch
  <1> HIDE DEF A
  <1>1. \A w \in Windows(file) : w[1] \in Int /\ w[2] \in Int
    BY DEF Windows, Ordered
  <1>2. ASSUME NEW w \in Windows(file), f[w] # A[w] PROVE w[1] =< w[2]
    <2> SUFFICES ASSUME w[1] > w[2] PROVE FALSE
      BY <1>1
    <2>1. Halve(f, file, g, w) = None /\ Halve(A, file, g, w) = None
      BY DEF Halve
    <2> QED BY <1>0, <1>2, <2>1
  <1>3. Differs = {}
    <2> SUFFICES ASSUME Differs # {} PROVE FALSE
      OBVIOUS
    <2>1. PICK n \in Differs : \A k \in Differs : n =< k
      BY LeastNatural
    <2>2. PICK w \in Windows(file) : n = w[2] - w[1] /\ f[w] # A[w]
      BY <2>1
    <2> DEFINE m == Middle(w)
               up == <<m + 1, w[2]>>
               down == <<w[1], m - 1>>
    <2>3. w[1] =< w[2] /\ w[1] \in Int /\ w[2] \in Int
      BY <1>1, <1>2, <2>2
    <2>4. m \in Int /\ w[1] =< m /\ m =< w[2] /\ up \in Windows(file) /\ down \in Windows(file)
      BY <2>3, MiddleIn DEF Ordered
    <2>5. (f[up] # A[up]) \/ (f[down] # A[down])
      <3> HIDE DEF m
      <3> QED BY <1>0, <2>2, <2>3 DEF Halve, m
    <2> HIDE DEF m
    <2>6. up[1] = m + 1 /\ up[2] = w[2] /\ down[1] = w[1] /\ down[2] = m - 1
      OBVIOUS
    <2> HIDE DEF up, down
    <2>7. PICK x \in {up, down} : x \in Windows(file) /\ f[x] # A[x]
      BY <2>4, <2>5
    <2>8. x[1] =< x[2] /\ x[1] \in Int /\ x[2] \in Int
      BY <1>1, <1>2, <2>7
    <2>9. x[2] - x[1] \in Nat /\ x[2] - x[1] < n
      BY <2>2, <2>3, <2>4, <2>6, <2>7, <2>8
    <2>10. x[2] - x[1] \in Differs
      BY <2>7, <2>9
    <2>11. n \in Nat
      BY <2>1
    <2> QED BY <2>1, <2>9, <2>10, <2>11
  <1>4. f[v] = A[v]
    <2> SUFFICES ASSUME f[v] # A[v] PROVE FALSE
      OBVIOUS
    <2>1. v[2] - v[1] \in Nat
      BY <1>1, <1>2
    <2>2. v[2] - v[1] \in Differs
      BY <2>1
    <2> QED BY <1>3, <2>2
  <1> QED BY <1>4 DEF A

LEMMA FindIsAnswer ==
    ASSUME NEW file, Ordered(file), NEW g \in Nat
    PROVE  Find(file, g) = Answer(file, g)[<<0, Len(file.index) - 1>>]
  <1> DEFINE all == <<0, Len(file.index) - 1>>
             A == Answer(file, g)
  <1>1. all \in Windows(file)
    BY DEF Ordered, Windows
  <1>2. A = [w \in Windows(file) |-> Halve(A, file, g, w)]
    BY AnswerIsSearch
  <1>3. \A f : f = [w \in Windows(file) |-> Halve(f, file, g, w)] => f[all] = A[all]
    BY <1>1, SearchIsAnswer
  <1> HIDE DEF A
  <1>4. Find(file, g) = A[all]
    BY <1>2, <1>3 DEF Find, Halve, Windows, Middle, At
  <1> QED BY <1>4 DEF A

-----------------------------------------------------------------------------
(* The index *)

\* What a file may hold.
Entries == [GuestStart : RIPs, DataOffset : Nat]
Files == [recs : Seq(Records), index : Seq(Entries), trailer : BOOLEAN, torn : BOOLEAN]

\* The index of the stream names each record of the file.
Stores(recs, idx) ==
    /\ \A r \in DOMAIN idx : idx[r] \in DOMAIN recs /\ recs[idx[r]].rip = r
    /\ \A j \in DOMAIN recs : recs[j].rip \in DOMAIN idx /\ idx[recs[j].rip] = j

\* The index of the file is sorted and names each of its records.
Indexed(file) ==
    /\ \A i, j \in DOMAIN file.index : i < j => file.index[i].GuestStart < file.index[j].GuestStart
    /\ \A i \in DOMAIN file.index :
          /\ file.index[i].DataOffset \in DOMAIN file.recs
          /\ file.recs[file.index[i].DataOffset].rip = file.index[i].GuestStart
    /\ \A j \in DOMAIN file.recs : \E i \in DOMAIN file.index : file.index[i].DataOffset = j

LEMMA NoFileIndexed == NoFile \in Files /\ Indexed(NoFile) /\ NoFile.recs = <<>> /\ ~NoFile.trailer /\ ~NoFile.torn
  <1>1. <<>> \in Seq(Records) /\ <<>> \in Seq(Entries) /\ DOMAIN <<>> = {}
    OBVIOUS
  <1>2. NoFile.recs = <<>> /\ NoFile.index = <<>> /\ NoFile.trailer = FALSE /\ NoFile.torn = FALSE
    BY DEF NoFile
  <1>3. NoFile \in Files
    BY <1>1 DEF NoFile, Files
  <1> QED BY <1>1, <1>2, <1>3 DEF Indexed

LEMMA FileType ==
    ASSUME NEW file \in Files
    PROVE  /\ file.recs \in Seq(Records) /\ Len(file.recs) \in Nat
           /\ DOMAIN file.recs = 1 .. Len(file.recs)
           /\ Len(file.index) \in Nat /\ DOMAIN file.index = 1 .. Len(file.index)
           /\ \A i \in DOMAIN file.index : file.index[i].GuestStart \in RIPs
           /\ \A i \in DOMAIN file.recs : file.recs[i] \in Records
  <1>1. file.recs \in Seq(Records) /\ file.index \in Seq(Entries)
    BY DEF Files
  <1>2. \A i \in DOMAIN file.index : file.index[i] \in Entries
    BY <1>1
  <1>3. \A i \in DOMAIN file.recs : file.recs[i] \in Records
    BY <1>1
  <1>4. \A i \in DOMAIN file.index : file.index[i].GuestStart \in RIPs
    BY <1>2 DEF Entries
  <1> QED BY <1>1, <1>3, <1>4

LEMMA IndexedOrdered ==
    ASSUME NEW file \in Files, Indexed(file)
    PROVE  /\ Ordered(file)
           /\ \A m \in 0 .. Len(file.index) - 1 : m + 1 \in DOMAIN file.index
  <1> DEFINE N == Len(file.index)
  <1>1. N \in Nat /\ DOMAIN file.index = 1 .. N
    BY FileType
  <1>2. \A m \in 0 .. N - 1 : m + 1 \in DOMAIN file.index /\ m \in Int
    BY <1>1
  <1>3. \A m \in 0 .. N - 1 : At(file, m).GuestStart \in Nat
    BY <1>2, FileType, RIPAssumption DEF At
  <1>4. ASSUME NEW m \in 0 .. N - 1, NEW n \in 0 .. N - 1, m < n
        PROVE  At(file, m).GuestStart < At(file, n).GuestStart
    <2>1. m + 1 < n + 1 /\ m + 1 \in DOMAIN file.index /\ n + 1 \in DOMAIN file.index
      BY <1>2, <1>4
    <2> QED BY <2>1 DEF Indexed, At
  <1> QED BY <1>1, <1>2, <1>3, <1>4 DEF Ordered

\* Two entries of the index are for different entry points.
LEMMA EntryOnce ==
    ASSUME NEW file \in Files, Indexed(file), NEW i \in DOMAIN file.index, NEW k \in DOMAIN file.index,
           file.index[i].GuestStart = file.index[k].GuestStart
    PROVE  i = k
  <1>1. Len(file.index) \in Nat /\ i \in 1 .. Len(file.index) /\ k \in 1 .. Len(file.index)
    BY FileType
  <1>2. i \in Int /\ k \in Int
    BY <1>1
  <1>3. file.index[i].GuestStart \in RIPs
    BY FileType
  <1>4. file.index[i].GuestStart \in Nat
    BY <1>3, RIPAssumption
  <1>5. /\ i < k => file.index[i].GuestStart < file.index[k].GuestStart
        /\ k < i => file.index[k].GuestStart < file.index[i].GuestStart
    BY DEF Indexed
  <1>6. ~(i < k) /\ ~(k < i)
    BY <1>4, <1>5
  <1> QED BY <1>2, <1>6

\* What Find finds in a file with its index: the record of the entry point,
\* of which there is one.
LEMMA FindStored ==
    ASSUME NEW file \in Files, Indexed(file), NEW j \in DOMAIN file.recs
    PROVE  /\ Find(file, file.recs[j].rip) = file.recs[j]
           /\ \A k \in DOMAIN file.recs : file.recs[k].rip = file.recs[j].rip => k = j
  <1> DEFINE g == file.recs[j].rip
             all == <<0, Len(file.index) - 1>>
  <1>0. g \in Nat
    BY FileType, RIPAssumption DEF Records
  <1>1. PICK i \in DOMAIN file.index : file.index[i].DataOffset = j
    BY DEF Indexed
  <1>2. file.index[i].GuestStart = g
    BY <1>1 DEF Indexed
  <1>3. ASSUME NEW k \in DOMAIN file.recs, file.recs[k].rip = g PROVE k = j
    <2>1. PICK l \in DOMAIN file.index : file.index[l].DataOffset = k
      BY DEF Indexed
    <2>2. file.index[l].GuestStart = g
      BY <1>3, <2>1 DEF Indexed
    <2> QED BY <1>1, <1>2, <2>1, <2>2, EntryOnce
  <1> HIDE DEF g
  <1>4. all \in Windows(file) /\ all[1] = 0 /\ all[2] = Len(file.index) - 1
    BY FileType DEF Windows
  <1> HIDE DEF all
  <1>5. i - 1 \in 0 .. Len(file.index) - 1 /\ i - 1 + 1 = i
    BY FileType
  <1>6. i - 1 \in Hits(file, g, all)
    BY <1>2, <1>4, <1>5 DEF Hits, At
  <1> DEFINE m == CHOOSE m \in Hits(file, g, all) : TRUE
  <1>7. m \in Hits(file, g, all)
    BY <1>6
  <1> HIDE DEF m
  <1>8. m + 1 \in DOMAIN file.index /\ file.index[m + 1].GuestStart = g
    BY <1>4, <1>7, IndexedOrdered DEF Hits, At
  <1>9. m + 1 = i
    BY <1>2, <1>8, EntryOnce
  <1>10. Answer(file, g)[all] = file.recs[file.index[m + 1].DataOffset]
    BY <1>4, <1>6 DEF Answer, At, m
  <1>11. Find(file, g) = file.recs[j]
    BY <1>0, <1>1, <1>9, <1>10, IndexedOrdered, FindIsAnswer DEF all
  <1> QED BY <1>3, <1>11 DEF g

LEMMA FindNothing ==
    ASSUME NEW file \in Files, Indexed(file), NEW g \in RIPs,
           \A j \in DOMAIN file.recs : file.recs[j].rip # g
    PROVE  Find(file, g) = None
  <1> DEFINE all == <<0, Len(file.index) - 1>>
  <1>1. all \in Windows(file) /\ all[1] = 0 /\ all[2] = Len(file.index) - 1
    BY FileType DEF Windows
  <1>2. g \in Nat
    BY RIPAssumption
  <1> HIDE DEF all
  <1>3. ASSUME NEW m \in Hits(file, g, all) PROVE FALSE
    <2>1. m + 1 \in DOMAIN file.index /\ file.index[m + 1].GuestStart = g
      BY <1>1, IndexedOrdered DEF Hits, At
    <2> QED BY <2>1 DEF Indexed
  <1>4. Answer(file, g)[all] = None
    BY <1>1, <1>3 DEF Answer
  <1> QED BY <1>2, <1>4, IndexedOrdered, FindIsAnswer DEF all

\* A set of numbers can be put in order, by putting one more in its place.
Increasing(s) == \A i, j \in DOMAIN s : i < j => s[i] < s[j]
Orders(S) == {s \in [1 .. Cardinality(S) -> S] : Increasing(s)}

LEMMA OrderedInsert ==
    ASSUME NEW n \in Nat, NEW S, S \subseteq Nat, NEW s \in [1 .. n -> S], Increasing(s),
           NEW x \in Nat, x \notin S
    PROVE  \E z \in [1 .. n + 1 -> S \cup {x}] : Increasing(z)
  <1> DEFINE Above == {k \in 1 .. n + 1 : k = n + 1 \/ s[k] > x}
  <1>1. Above \subseteq Nat /\ n + 1 \in Above
    OBVIOUS
  <1>2. PICK k \in Above : \A i \in Above : k =< i
    BY <1>1, LeastNatural
  <1>3. k \in 1 .. n + 1 /\ k \in Int
    BY <1>2
  <1>4. \A i \in 1 .. n : s[i] \in Nat /\ s[i] # x
    OBVIOUS
  <1>5. ASSUME NEW i \in 1 .. n, i < k PROVE s[i] < x
    <2>1. i \notin Above
      BY <1>2, <1>3, <1>5
    <2>2. ~(s[i] > x)
      BY <2>1
    <2> QED BY <1>4, <2>2
  <1>6. ASSUME NEW i \in 1 .. n, i >= k PROVE s[i] > x
    <2>1. k # n + 1
      BY <1>3, <1>6
    <2>2. k \in 1 .. n /\ s[k] > x
      BY <1>2, <1>3, <2>1
    <2>3. i = k \/ s[k] < s[i]
      BY <1>3, <1>6, <2>2 DEF Increasing
    <2> QED BY <1>4, <2>2, <2>3
  <1> HIDE DEF Above
  <1> DEFINE z == [i \in 1 .. n + 1 |-> IF i < k THEN s[i] ELSE IF i = k THEN x ELSE s[i - 1]]
  <1>7. ASSUME NEW i \in 1 .. n + 1
        PROVE  /\ i < k => i \in 1 .. n /\ z[i] = s[i]
               /\ i = k => z[i] = x
               /\ i > k => i - 1 \in 1 .. n /\ i - 1 >= k /\ z[i] = s[i - 1]
    BY <1>3
  <1>8. z \in [1 .. n + 1 -> S \cup {x}]
    <2> SUFFICES ASSUME NEW i \in 1 .. n + 1 PROVE z[i] \in S \cup {x}
      OBVIOUS
    <2> HIDE DEF z
    <2>1. i < k \/ i = k \/ i > k
      BY <1>3
    <2> QED BY <1>7, <2>1
  <1>9. DOMAIN z = 1 .. n + 1
    OBVIOUS
  <1> HIDE DEF z
  <1>10. ASSUME NEW i \in 1 .. n + 1, NEW j \in 1 .. n + 1, i < j PROVE z[i] < z[j]
    <2>1. CASE j < k
      <3>1. i \in 1 .. n /\ j \in 1 .. n /\ z[i] = s[i] /\ z[j] = s[j]
        BY <1>3, <1>7, <1>10, <2>1
      <3> QED BY <1>10, <3>1 DEF Increasing
    <2>2. CASE j = k
      BY <1>3, <1>5, <1>7, <1>10, <2>2
    <2>3. CASE j > k /\ i < k
      <3>1. z[i] < x /\ z[j] > x /\ z[i] \in Nat /\ z[j] \in Nat
        BY <1>4, <1>5, <1>6, <1>7, <2>3
      <3> QED BY <3>1
    <2>4. CASE j > k /\ i = k
      BY <1>4, <1>6, <1>7, <2>4
    <2>5. CASE j > k /\ i > k
      <3>1. i - 1 \in 1 .. n /\ j - 1 \in 1 .. n /\ z[i] = s[i - 1] /\ z[j] = s[j - 1] /\ i - 1 < j - 1
        BY <1>7, <1>10, <2>5
      <3> QED BY <3>1 DEF Increasing
    <2> QED BY <1>3, <1>10, <2>1, <2>2, <2>3, <2>4, <2>5
  <1> QED BY <1>8, <1>9, <1>10 DEF Increasing

LEMMA OrderExists ==
    ASSUME NEW U, U \subseteq Nat, IsFiniteSet(U)
    PROVE  Orders(U) # {}
  <1> DEFINE Fails == {n \in Nat : \E S \in SUBSET U : Cardinality(S) = n /\ Orders(S) = {}}
  <1>1. ASSUME NEW S \in SUBSET U PROVE IsFiniteSet(S) /\ Cardinality(S) \in Nat /\ S \subseteq Nat
    BY FS_Subset, FS_CardinalityType
  <1>2. Fails = {}
    <2> SUFFICES ASSUME Fails # {} PROVE FALSE
      OBVIOUS
    <2>1. PICK n \in Fails : \A k \in Fails : n =< k
      BY LeastNatural
    <2>2. PICK S \in SUBSET U : Cardinality(S) = n /\ Orders(S) = {}
      BY <2>1
    <2>3. CASE S = {}
      <3> DEFINE s == [i \in 1 .. 0 |-> 0]
      <3>1. Cardinality(S) = 0
        BY <2>3, FS_EmptySet
      <3>2. s \in [1 .. 0 -> S] /\ Increasing(s)
        BY DEF Increasing
      <3>3. s \in Orders(S)
        BY <3>1, <3>2 DEF Orders
      <3> QED BY <2>2, <3>3
    <2>4. CASE S # {}
      <3>1. PICK x \in S : TRUE
        BY <2>4
      <3> DEFINE R == S \ {x}
      <3>2. Cardinality(R) = n - 1 /\ R \in SUBSET U /\ n \in Nat
        BY <1>1, <2>2, FS_RemoveElement
      <3>3. n - 1 \in Nat
        BY <1>1, <3>2
      <3>4. n - 1 \notin Fails
        BY <2>1, <3>3
      <3>5. Orders(R) # {}
        BY <3>2, <3>3, <3>4
      <3>6. PICK s \in [1 .. n - 1 -> R] : Increasing(s)
        BY <3>2, <3>5 DEF Orders
      <3>7. x \in Nat /\ x \notin R /\ R \subseteq Nat /\ R \cup {x} = S
        BY <1>1
      <3> HIDE DEF R
      <3>8. \E z \in [1 .. (n - 1) + 1 -> R \cup {x}] : Increasing(z)
        BY <3>3, <3>6, <3>7, OrderedInsert
      <3>9. (n - 1) + 1 = Cardinality(S)
        BY <2>2, <3>2
      <3>10. Orders(S) # {}
        BY <3>7, <3>8, <3>9 DEF Orders
      <3> QED BY <2>2, <3>10
    <2> QED BY <2>3, <2>4
  <1>3. Cardinality(U) \in Nat /\ U \in SUBSET U
    BY <1>1
  <1> QED BY <1>2, <1>3

\* ... and an order of a set has all of it.
LEMMA OrderOnto ==
    ASSUME NEW U, U \subseteq Nat, IsFiniteSet(U), NEW s \in Orders(U), NEW x \in U
    PROVE  \E i \in 1 .. Cardinality(U) : s[i] = x
  <1> DEFINE n == Cardinality(U)
  <1>1. n \in Nat
    BY FS_CardinalityType
  <1>2. s \in [1 .. n -> U] /\ Increasing(s)
    BY DEF Orders
  <1> HIDE DEF n
  <1>3. ASSUME NEW i \in 1 .. n, NEW j \in 1 .. n, s[i] = s[j] PROVE i = j
    <2>1. s[i] \in U /\ s[j] \in U
      BY <1>2
    <2>2. s[i] \in Nat /\ s[j] \in Nat
      BY <2>1
    <2>3. i \in Int /\ j \in Int
      BY <1>1
    <2>4. (i < j => s[i] < s[j]) /\ (j < i => s[j] < s[i])
      BY <1>2 DEF Increasing
    <2>5. ~(i < j) /\ ~(j < i)
      BY <1>3, <2>2, <2>4
    <2> QED BY <2>3, <2>5
  <1>4. s \in Injection(1 .. n, U)
    BY <1>2, <1>3 DEF Injection, IsInjective
  <1>5. Cardinality(1 .. n) = n
    BY <1>1, FS_Interval
  <1>6. s \in Surjection(1 .. n, U)
    BY <1>4, <1>5, FS_Injection DEF n
  <1>7. \E i \in 1 .. n : s[i] = x
    BY <1>6 DEF Surjection
  <1> QED BY <1>7 DEF n

\* The index that is written to the file is that of the stream, sorted.
LEMMA SortedIndexed ==
    ASSUME NEW file \in Files, NEW idx, DOMAIN idx \subseteq RIPs, Stores(file.recs, idx),
           NEW new, new = [file EXCEPT !.index = Sorted(idx), !.trailer = TRUE]
    PROVE  new \in Files /\ new.recs = file.recs /\ new.trailer /\ new.torn = file.torn /\ Indexed(new)
  <1> DEFINE S == DOMAIN idx
             n == Cardinality(S)
             order == CHOOSE s \in [1 .. Cardinality(S) -> S] :
                          \A i, j \in DOMAIN s : i < j => s[i] < s[j]
  <1>1. S \subseteq Nat /\ IsFiniteSet(S)
    BY RIPAssumption, FS_Subset
  <1>2. order \in Orders(S)
    BY <1>1, OrderExists DEF Orders, Increasing
  <1>3. Sorted(idx) = [i \in DOMAIN order |-> [GuestStart |-> order[i], DataOffset |-> idx[order[i]]]]
    BY DEF Sorted
  <1> HIDE DEF order
  <1>4. n \in Nat
    BY <1>1, FS_CardinalityType
  <1>5. order \in [1 .. n -> S] /\ \A i, j \in 1 .. n : i < j => order[i] < order[j]
    BY <1>2 DEF Orders, Increasing
  <1>6. \A x \in S : \E i \in 1 .. n : order[i] = x
    BY <1>1, <1>2, OrderOnto
  <1>7. /\ new.recs = file.recs /\ new.trailer = TRUE /\ new.index = Sorted(idx) /\ new.torn = file.torn
        /\ new = [recs |-> file.recs, index |-> Sorted(idx), trailer |-> TRUE, torn |-> file.torn]
        /\ file.torn \in BOOLEAN
    BY DEF Files
  <1> HIDE DEF n, S
  <1> DEFINE index == Sorted(idx)
  <1>8. /\ DOMAIN index = 1 .. n
        /\ \A i \in 1 .. n : index[i] = [GuestStart |-> order[i], DataOffset |-> idx[order[i]]]
    BY <1>3, <1>5
  <1>9. \A x \in S : idx[x] \in DOMAIN file.recs /\ idx[x] \in Nat /\ file.recs[idx[x]].rip = x
    BY FileType DEF Stores, S
  <1> HIDE DEF index
  <1>10. \A i \in 1 .. n : order[i] \in S /\ order[i] \in RIPs
    BY <1>5 DEF S
  <1>11. \A i \in 1 .. n : index[i] \in Entries
    BY <1>8, <1>9, <1>10 DEF Entries
  <1>12. index \in Seq(Entries)
    <2>1. index \in [1 .. n -> Entries]
      BY <1>3, <1>8, <1>11 DEF index
    <2> QED BY <1>4, <2>1
  <1>13. new \in Files
    BY <1>7, <1>12 DEF Files, index
  <1>14. \A i \in 1 .. n : index[i].GuestStart = order[i] /\ index[i].DataOffset = idx[order[i]]
    BY <1>8
  <1>15. \A i, j \in DOMAIN index : i < j => index[i].GuestStart < index[j].GuestStart
    BY <1>5, <1>8, <1>14
  <1>16. \A i \in DOMAIN index : /\ index[i].DataOffset \in DOMAIN file.recs
                                 /\ file.recs[index[i].DataOffset].rip = index[i].GuestStart
    BY <1>8, <1>9, <1>10, <1>14
  <1>17. ASSUME NEW j \in DOMAIN file.recs PROVE \E i \in DOMAIN index : index[i].DataOffset = j
    <2>1. file.recs[j].rip \in S /\ idx[file.recs[j].rip] = j
      BY DEF Stores, S
    <2>2. PICK i \in 1 .. n : order[i] = file.recs[j].rip
      BY <1>6, <2>1
    <2> QED BY <1>8, <1>14, <2>1, <2>2
  <1>18. Indexed(new)
    BY <1>7, <1>15, <1>16, <1>17 DEF Indexed, index
  <1> QED BY <1>7, <1>13, <1>18

Faithful(recs) == \A i \in DOMAIN recs : recs[i].hash = recs[i].ir

\* A record is appended unless its entry point has one.
LEMMA AppendStores ==
    ASSUME NEW file \in Files, NEW idx, DOMAIN idx \subseteq RIPs, Stores(file.recs, idx),
           NEW rec \in Records, AppendAOTIRCaptureCache(file, idx, rec)
    PROVE  /\ tmp' \in Files /\ DOMAIN Index' = DOMAIN idx \cup {rec.rip} /\ DOMAIN Index' \subseteq RIPs
           /\ Stores(tmp'.recs, Index')
           /\ tmp'.trailer = file.trailer /\ tmp'.torn = file.torn
           /\ Faithful(file.recs) /\ rec.hash = rec.ir => Faithful(tmp'.recs)
  <1>0. rec.rip \in RIPs
    BY DEF Records
  <1>1. CASE rec.rip \in DOMAIN idx
    BY <1>0, <1>1 DEF AppendAOTIRCaptureCache
  <1>2. CASE rec.rip \notin DOMAIN idx
    <2> DEFINE old == file.recs
               N == Len(old)
    <2>1. /\ tmp' = [file EXCEPT !.recs = Append(@, rec)]
          /\ Index' = [r \in DOMAIN idx \cup {rec.rip} |-> IF r = rec.rip THEN N + 1 ELSE idx[r]]
      BY <1>2 DEF AppendAOTIRCaptureCache
    <2>2. /\ tmp'.recs = Append(old, rec) /\ tmp'.trailer = file.trailer /\ tmp'.torn = file.torn
          /\ tmp' = [recs |-> Append(old, rec), index |-> file.index, trailer |-> file.trailer,
                      torn |-> file.torn]
      BY <2>1 DEF Files
    <2>3. old \in Seq(Records) /\ N \in Nat /\ DOMAIN old = 1 .. N
      BY FileType
    <2> HIDE DEF old, N
    <2> DEFINE recs == Append(old, rec)
    <2>4. /\ recs \in Seq(Records) /\ DOMAIN recs = 1 .. N + 1 /\ recs[N + 1] = rec
          /\ \A j \in 1 .. N : recs[j] = old[j]
      BY <2>3 DEF N
    <2> HIDE DEF recs
    <2>5. tmp' \in Files
      BY <2>2, <2>4 DEF Files, recs
    <2>6. DOMAIN Index' = DOMAIN idx \cup {rec.rip}
      BY <2>1
    <2>7. Index'[rec.rip] = N + 1 /\ \A r \in DOMAIN idx : Index'[r] = idx[r]
      BY <1>2, <2>1
    <2>8. \A r \in DOMAIN idx : idx[r] \in 1 .. N /\ old[idx[r]].rip = r
      BY <2>3 DEF Stores, old
    <2>9. \A j \in 1 .. N : old[j].rip \in DOMAIN idx /\ idx[old[j].rip] = j
      BY <2>3 DEF Stores, old
    <2>10. \A k \in 1 .. N + 1 : k = N + 1 \/ k \in 1 .. N
      BY <2>3
    <2>11. N + 1 \in 1 .. N + 1 /\ \A k \in 1 .. N : k \in 1 .. N + 1
      BY <2>3
    <2>12. \A r \in DOMAIN Index' : Index'[r] \in DOMAIN recs /\ recs[Index'[r]].rip = r
      BY <2>4, <2>6, <2>7, <2>8, <2>11
    <2>13. \A j \in DOMAIN recs : recs[j].rip \in DOMAIN Index' /\ Index'[recs[j].rip] = j
      BY <2>4, <2>6, <2>7, <2>9, <2>10
    <2>14. Stores(tmp'.recs, Index')
      BY <2>2, <2>12, <2>13 DEF Stores, recs
    <2>15. Faithful(old) /\ rec.hash = rec.ir => Faithful(recs)
      BY <2>3, <2>4, <2>10 DEF Faithful
    <2> QED BY <1>0, <2>2, <2>5, <2>6, <2>14, <2>15 DEF recs, old
  <1> QED BY <1>1, <1>2

-----------------------------------------------------------------------------
(* The inductive invariant of the files *)

Work == [rip : RIPs, ir : Versions]
Writes(a) == pc[a] \in {"write", "writelast"}

MemoryOK ==
    /\ mode \in Modes
    /\ code \in [RIPs -> Versions] /\ registered \subseteq RIPs
    /\ blocks \in [Threads -> [RIPs -> Versions \cup {None}]]
    /\ BranchTargets \subseteq Compiled /\ Compiled \subseteq RIPs /\ remapped \subseteq RIPs

\* A thread that compiles has a block, and one that writes has an entry.
WorkOK ==
    /\ block \in [Threads -> Work \cup {None}] /\ job \in [Actors -> Records \cup {None}]
    /\ \A t \in Threads : pc[t] # "idle" => block[t] \in Work
    /\ \A a \in Actors : Writes(a) => job[a] \in Records

QueueOK == Queue \in Seq(Records) /\ Flusing \in BOOLEAN /\ captured \subseteq RIPs

\* The end of a file: a trailer after an index, unless that could not be
\* written.
Whole(file) == file.trailer # file.torn /\ (file.trailer => Indexed(file))

\* The stream is what this process has written, until it is renamed.
StreamOK ==
    /\ open \in BOOLEAN /\ failed \in BOOLEAN /\ tmp \in Files /\ DOMAIN Index \subseteq RIPs
    /\ \A r \in DOMAIN Index : Index[r] \in Nat
    /\ ~open => Index = <<>>
    /\ open /\ ~failed /\ pc[Main] # "ended" => Stores(tmp.recs, Index)
    /\ open /\ ~failed /\ pc[Main] \notin {"rename", "ended"} => ~tmp.trailer /\ ~tmp.torn
    /\ pc[Main] = "rename" => open /\ Whole(tmp) /\ (~failed => tmp.trailer)

PublishedOK ==
    /\ published \in Files /\ loaded \in Files /\ Indexed(loaded)
    /\ published # NoFile => Whole(published)

\* What was captured is in the queue, in the hands of the one that flushes or
\* in the file, and in the published one when the process has ended.
CapturedOK ==
    /\ \A r \in captured : \/ \E i \in DOMAIN Queue : Queue[i].rip = r
                           \/ \E a \in Actors : Writes(a) /\ job[a].rip = r
                           \/ r \in DOMAIN Index
    /\ ~Captures => Queue = <<>> /\ captured = {}
    /\ pc[Main] \in {"index", "rename", "ended"} => Queue = <<>>
    /\ pc[Main] = "ended" /\ ~failed => \A r \in captured :
          Indexed(published) /\ \E j \in DOMAIN published.recs : published.recs[j].rip = r

FileInv == MemoryOK /\ WorkOK /\ QueueOK /\ StreamOK /\ PublishedOK /\ CapturedOK

LEMMA StreamKept ==
    ASSUME StreamOK, UNCHANGED <<Index, open, failed, tmp>>,
           pc'[Main] = pc[Main] \/ (pc[Main] \notin {"rename", "ended"} /\ pc'[Main] # "rename")
    PROVE  StreamOK'
  BY DEF StreamOK

LEMMA PublishedKept ==
    ASSUME PublishedOK, UNCHANGED <<published, loaded>>
    PROVE  PublishedOK'
  BY DEF PublishedOK

LEMMA CapturedKept ==
    ASSUME CapturedOK, UNCHANGED <<Queue, captured, Index, failed, job, published, mode>>,
           \A a \in Actors : Writes(a) => Writes(a)',
           pc'[Main] = pc[Main] \/ (/\ pc'[Main] \in {"index", "rename", "ended"} => Queue = <<>>
                                    /\ pc'[Main] = "ended" => captured = {})
    PROVE  CapturedOK'
  BY DEF CapturedOK, Captures, Writes

\* A step of a thread that compiles and does not flush.
LEMMA FilesElsewhere ==
    ASSUME FlushInv, StreamOK, PublishedOK, CapturedOK, NEW t \in Threads, ~Writes(t), NEW l, Goto(t, l),
           UNCHANGED <<Queue, captured, job, files, loaded, mode>>
    PROVE  StreamOK' /\ PublishedOK' /\ CapturedOK'
  <1>1. \A a \in Actors : a # t => pc'[a] = pc[a]
    BY DEF Goto, FlushInv, Placed
  <1>2. pc'[Main] = pc[Main]
    BY <1>1, MainActor
  <1>3. \A a \in Actors : Writes(a) => Writes(a)'
    BY <1>1 DEF Writes
  <1>4. UNCHANGED <<Index, open, failed, tmp, published>>
    BY DEF files
  <1> QED BY <1>2, <1>3, <1>4, StreamKept, PublishedKept, CapturedKept

LEMMA FindRecord ==
    ASSUME NEW file \in Files, Indexed(file), NEW g \in RIPs, Find(file, g) # None
    PROVE  \E j \in DOMAIN file.recs : file.recs[j].rip = g /\ Find(file, g) = file.recs[j]
  <1>1. PICK j \in DOMAIN file.recs : file.recs[j].rip = g
    BY FindNothing
  <1> QED BY <1>1, FindStored

LEMMA FilesInit == Init => FileInv
  <1> SUFFICES ASSUME Init PROVE FileInv
    OBVIOUS
  <1>1. MemoryOK
    BY VersionAssumption DEF Init, MemoryOK, Seeds
  <1>2. WorkOK
    BY MainActor DEF Init, WorkOK, Writes
  <1>3. QueueOK
    <2>1. Queue = <<>> /\ captured = {} /\ Flusing = FALSE
      BY DEF Init
    <2>2. Queue \in Seq(Records) /\ captured \subseteq RIPs
      BY <2>1
    <2>3. Flusing \in BOOLEAN
      BY <2>1
    <2> QED BY <2>2, <2>3 DEF QueueOK
  <1>4. StreamOK
    <2>1. DOMAIN <<>> = {}
      OBVIOUS
    <2>2. open = FALSE /\ failed = FALSE /\ tmp = NoFile /\ Index = <<>> /\ pc[Main] = "idle"
      BY MainActor DEF Init
    <2> QED BY <2>1, <2>2, NoFileIndexed DEF StreamOK
  <1>5. PublishedOK
    BY NoFileIndexed DEF Init, PublishedOK
  <1>6. CapturedOK
    <2>1. captured = {} /\ Queue = <<>> /\ pc[Main] = "idle"
      BY MainActor DEF Init
    <2> QED BY <2>1 DEF CapturedOK
  <1> QED BY <1>1, <1>2, <1>3, <1>4, <1>5, <1>6 DEF FileInv

\* Either way a thread has IR: from the code, or from a record of the file.
LEMMA FilesCompile ==
    ASSUME FlushInv, FileInv, NEW t \in Threads, NEW r \in RIPs,
           PreGenerateIRFetch(t, r) \/ GenerateIR(t, r)
    PROVE  FileInv'
  <1>1. /\ pc[t] = "idle" /\ BranchTargets' \subseteq BranchTargets
        /\ UNCHANGED <<Compiled, job, queue, files, process>>
    BY DEF PreGenerateIRFetch, GenerateIR, Wanted
  <1>2. PICK l \in {"compiled", "map"} : Goto(t, l)
    BY DEF PreGenerateIRFetch, GenerateIR
  <1>3. UNCHANGED <<Queue, Flusing, captured, loaded, mode>>
    BY <1>1 DEF queue, process
  <1>4. \E v \in Versions : block' = [block EXCEPT ![t] = [rip |-> r, ir |-> v]]
    <2>1. CASE GenerateIR(t, r)
      <3>1. code[r] \in Versions
        BY DEF FileInv, MemoryOK
      <3> QED BY <2>1, <3>1 DEF GenerateIR
    <2>2. CASE PreGenerateIRFetch(t, r)
      <3>1. Find(loaded, r) # None /\ block' = [block EXCEPT ![t] = [rip |-> r, ir |-> Find(loaded, r).ir]]
        BY <2>2 DEF PreGenerateIRFetch, Hit
      <3>2. PICK j \in DOMAIN loaded.recs : Find(loaded, r) = loaded.recs[j]
        BY <3>1, FindRecord DEF FileInv, PublishedOK
      <3>3. Find(loaded, r) \in Records
        BY <3>2, FileType DEF FileInv, PublishedOK
      <3>4. Find(loaded, r).ir \in Versions
        BY <3>3 DEF Records
      <3> QED BY <3>1, <3>4
    <2> QED BY <2>1, <2>2
  <1>5. PICK v \in Versions : block' = [block EXCEPT ![t] = [rip |-> r, ir |-> v]]
    BY <1>4
  <1>6. [rip |-> r, ir |-> v] \in Work
    BY DEF Work
  <1>7. WorkOK'
    <2>1. block' \in [Threads -> Work \cup {None}] /\ block'[t] \in Work
      BY <1>5, <1>6 DEF FileInv, WorkOK
    <2>2. \A u \in Threads : u # t => block'[u] = block[u]
      BY <1>5 DEF FileInv, WorkOK
    <2>3. \A a \in Actors : a # t => pc'[a] = pc[a]
      BY <1>2 DEF Goto, FlushInv, Placed
    <2>4. pc'[t] = l
      BY <1>2, MainActor DEF Goto, FlushInv, Placed
    <2>5. \A a \in Actors : Writes(a)' => Writes(a)
      BY <2>3, <2>4 DEF Writes
    <2> QED BY <1>1, <2>1, <2>2, <2>3, <2>5, MainActor DEF FileInv, WorkOK
  <1>8. MemoryOK'
    <2>1. UNCHANGED <<code, blocks, remapped>> /\ registered' \subseteq RIPs
      BY DEF PreGenerateIRFetch, GenerateIR, memory, FileInv, MemoryOK
    <2> QED BY <1>1, <1>3, <2>1 DEF FileInv, MemoryOK
  <1>9. QueueOK'
    BY <1>3 DEF FileInv, QueueOK
  <1>10. StreamOK' /\ PublishedOK' /\ CapturedOK'
    BY <1>1, <1>2, <1>3, FilesElsewhere DEF FileInv, Writes
  <1> QED BY <1>7, <1>8, <1>9, <1>10 DEF FileInv

\* A step of thread t that changes neither its block nor a job.
LEMMA WorkKept ==
    ASSUME FlushInv, WorkOK, NEW a \in Actors, NEW l, Goto(a, l), pc[a] # "idle",
           l \notin {"write", "writelast"}, UNCHANGED <<block, job>>
    PROVE  WorkOK'
  <1>1. pc'[a] = l /\ \A b \in Actors : b # a => pc'[b] = pc[b]
    BY DEF Goto, FlushInv, Placed
  <1> QED BY <1>1, MainActor DEF WorkOK, Writes

LEMMA FilesAppend ==
    ASSUME FlushInv, FileInv, NEW t \in Threads, PostCompileCode(t)
    PROVE  FileInv'
  <1>1. pc[t] = "compiled" /\ UNCHANGED <<memory, generator, block, job, Flusing, files, process>>
    BY DEF PostCompileCode
  <1>2. UNCHANGED <<mode, code, registered, blocks, remapped, BranchTargets, Compiled, Index, open, failed, tmp, published,
                    loaded>>
    BY <1>1 DEF memory, generator, files, process
  <1>3. PICK l \in {"cas", "map"} : Goto(t, l)
    BY DEF PostCompileCode
  <1>4. MemoryOK' /\ WorkOK' /\ PublishedOK'
    BY <1>1, <1>2, <1>3, WorkKept, PublishedKept, MainActor DEF FileInv, MemoryOK
  <1>5. \A a \in Actors : a # t => pc'[a] = pc[a]
    BY <1>3 DEF Goto, FlushInv, Placed
  <1>6. pc'[Main] = pc[Main] /\ pc[Main] = "idle"
    BY <1>1, <1>5, MainActor DEF FlushInv, Placed
  <1>7. StreamOK'
    BY <1>2, <1>6, StreamKept DEF FileInv
  <1>8. CASE ~Captures
    <2>1. UNCHANGED <<Queue, captured>>
      BY <1>8 DEF PostCompileCode
    <2>2. QueueOK'
      BY <1>1, <2>1 DEF FileInv, QueueOK
    <2>3. CapturedOK'
      BY <1>1, <1>2, <1>3, <2>1, FilesElsewhere DEF FileInv, Writes
    <2> QED BY <1>4, <1>7, <2>2, <2>3 DEF FileInv
  <1>9. CASE Captures
    <2> DEFINE rec == [rip |-> block[t].rip, hash |-> code[block[t].rip], ir |-> block[t].ir]
    <2>1. Queue' = Append(Queue, rec) /\ captured' = captured \cup {block[t].rip}
      BY <1>9 DEF PostCompileCode
    <2>2. block[t].rip \in RIPs /\ block[t].ir \in Versions /\ code[block[t].rip] \in Versions
      BY <1>1 DEF FileInv, WorkOK, Work, MemoryOK
    <2>3. rec \in Records /\ rec.rip = block[t].rip
      BY <2>2 DEF Records
    <2> HIDE DEF rec
    <2>4. Queue \in Seq(Records) /\ Len(Queue) \in Nat /\ DOMAIN Queue = 1 .. Len(Queue)
      BY DEF FileInv, QueueOK
    <2>5. /\ Queue' \in Seq(Records) /\ DOMAIN Queue' = 1 .. Len(Queue) + 1
          /\ Queue'[Len(Queue) + 1] = rec /\ \A i \in 1 .. Len(Queue) : Queue'[i] = Queue[i]
      BY <2>1, <2>3, <2>4
    <2>6. QueueOK'
      BY <1>1, <2>1, <2>2, <2>5 DEF FileInv, QueueOK
    <2>7. ASSUME NEW i \in DOMAIN Queue PROVE i \in DOMAIN Queue' /\ Queue'[i] = Queue[i]
      BY <2>4, <2>5
    <2>8. Len(Queue) + 1 \in DOMAIN Queue'
      BY <2>4, <2>5
    <2>9. \A a \in Actors : Writes(a) => Writes(a)'
      BY <1>1, <1>5 DEF Writes
    <2>10. ASSUME NEW r \in captured'
           PROVE  \/ \E i \in DOMAIN Queue' : Queue'[i].rip = r
                  \/ \E a \in Actors : Writes(a)' /\ job'[a].rip = r
                  \/ r \in DOMAIN Index'
      <3>1. CASE r \in captured
        BY <1>1, <1>2, <2>7, <2>9, <3>1 DEF FileInv, CapturedOK
      <3>2. CASE r = block[t].rip
        BY <2>3, <2>5, <2>8, <3>2
      <3> QED BY <2>1, <3>1, <3>2
    <2>11. CapturedOK'
      BY <1>2, <1>6, <1>9, <2>10 DEF CapturedOK, Captures
    <2> QED BY <1>4, <1>7, <2>6, <2>11 DEF FileInv
  <1> QED BY <1>8, <1>9

LEMMA FilesTryFlush ==
    ASSUME FlushInv, FileInv, NEW t \in Threads, TryFlush(t)
    PROVE  FileInv'
  <1>1. PICK l \in {"map", "flush"} : Goto(t, l)
    BY DEF TryFlush
  <1>2. /\ pc[t] = "cas" /\ Flusing' \in BOOLEAN
        /\ UNCHANGED <<memory, generator, block, job, Queue, captured, files, process>>
    BY DEF TryFlush, FileInv, QueueOK
  <1>3. UNCHANGED <<mode, code, registered, blocks, remapped, BranchTargets, Compiled, loaded>>
    BY <1>2 DEF memory, generator, process
  <1>4. MemoryOK' /\ WorkOK' /\ QueueOK'
    BY <1>1, <1>2, <1>3, WorkKept, MainActor DEF FileInv, MemoryOK, QueueOK
  <1>5. StreamOK' /\ PublishedOK' /\ CapturedOK'
    BY <1>1, <1>2, <1>3, FilesElsewhere DEF FileInv, Writes
  <1> QED BY <1>4, <1>5 DEF FileInv

\* The thread has its block, or the targets of it.
LEMMA FilesMap ==
    ASSUME FlushInv, FileInv, NEW t \in Threads, AddBlockMapping(t) \/ AddTargets(t)
    PROVE  FileInv'
  <1>1. pc[t] = "map" /\ Goto(t, "idle") /\ block' = [block EXCEPT ![t] = None]
    BY DEF AddBlockMapping, AddTargets, Leave
  <1>2. UNCHANGED <<code, registered, remapped, job, queue, files, process>>
    BY DEF AddBlockMapping, AddTargets, memory
  <1>3. UNCHANGED <<Queue, Flusing, captured, mode, loaded>>
    BY <1>2 DEF queue, process
  <1>4. WorkOK'
    <2>1. pc'[t] = "idle" /\ \A a \in Actors : a # t => pc'[a] = pc[a]
      BY <1>1, MainActor DEF Goto, FlushInv, Placed
    <2>2. block' \in [Threads -> Work \cup {None}] /\ \A u \in Threads : u # t => block'[u] = block[u]
      BY <1>1 DEF FileInv, WorkOK
    <2>3. \A a \in Actors : Writes(a)' => Writes(a)
      BY <2>1 DEF Writes
    <2> QED BY <1>2, <2>1, <2>2, <2>3, MainActor DEF FileInv, WorkOK
  <1>5. blocks' \in [Threads -> [RIPs -> Versions \cup {None}]]
    <2>1. CASE AddBlockMapping(t)
      <3>1. block[t].ir \in Versions
        BY <1>1 DEF FileInv, WorkOK, Work
      <3>2. blocks' = [blocks EXCEPT ![t] = [blocks[t] EXCEPT ![block[t].rip] = block[t].ir]]
        BY <2>1 DEF AddBlockMapping
      <3>3. blocks[t] \in [RIPs -> Versions \cup {None}]
        BY DEF FileInv, MemoryOK
      <3>4. [blocks[t] EXCEPT ![block[t].rip] = block[t].ir] \in [RIPs -> Versions \cup {None}]
        BY <3>1, <3>3
      <3> QED BY <3>2, <3>4 DEF FileInv, MemoryOK
    <2>2. CASE AddTargets(t)
      BY <2>2 DEF AddTargets, memory, FileInv, MemoryOK
    <2> QED BY <2>1, <2>2
  <1>6. BranchTargets' \subseteq Compiled' /\ Compiled' \subseteq RIPs
    <2>1. CASE AddBlockMapping(t)
      BY <2>1 DEF AddBlockMapping, generator, FileInv, MemoryOK
    <2>2. CASE AddTargets(t)
      <3>1. PICK E \in SUBSET RIPs :
              BranchTargets' = BranchTargets \cup (E \ Compiled) /\ Compiled' = Compiled \cup E
        BY <2>2 DEF AddTargets
      <3> QED BY <3>1 DEF FileInv, MemoryOK
    <2> QED BY <2>1, <2>2
  <1>7. MemoryOK' /\ QueueOK'
    BY <1>2, <1>3, <1>5, <1>6 DEF FileInv, MemoryOK, QueueOK
  <1>8. StreamOK' /\ PublishedOK' /\ CapturedOK'
    BY <1>1, <1>2, <1>3, FilesElsewhere DEF FileInv, Writes
  <1> QED BY <1>4, <1>7, <1>8 DEF FileInv

LEMMA FilesWritten ==
    ASSUME FileInv, NEW r \in RIPs, CodeStep(r)
    PROVE  FileInv'
  <1>1. UNCHANGED <<generator, control, queue, files, process>>
    BY DEF CodeStep, GuestWrite, GuestRemap, TrackRemap
  <1>2. UNCHANGED <<BranchTargets, Compiled, pc, block, job, Queue, Flusing, captured, Index, open, failed, tmp,
                    published, mode, loaded>>
    BY <1>1 DEF generator, control, queue, files, process
  <1>3. code' \in [RIPs -> Versions] /\ remapped' \subseteq RIPs
    BY DEF CodeStep, GuestWrite, GuestRemap, TrackRemap, FileInv, MemoryOK
  <1>4. registered' \subseteq RIPs /\ blocks' \in [Threads -> [RIPs -> Versions \cup {None}]]
    <2>1. CASE Invalidate(r)
      <3>1. /\ registered' = registered \ {r}
            /\ blocks' = [t \in Threads |-> [blocks[t] EXCEPT ![r] = None]]
        BY <2>1 DEF Invalidate
      <3>2. \A t \in Threads : [blocks[t] EXCEPT ![r] = None] \in [RIPs -> Versions \cup {None}]
        BY DEF FileInv, MemoryOK
      <3> QED BY <3>1, <3>2 DEF FileInv, MemoryOK
    <2>2. CASE UNCHANGED <<registered, blocks>>
      BY <2>2 DEF FileInv, MemoryOK
    <2>3. Invalidate(r) \/ UNCHANGED <<registered, blocks>>
      BY DEF CodeStep, GuestWrite, GuestRemap, TrackRemap
    <2> QED BY <2>1, <2>2, <2>3
  <1>5. MemoryOK'
    BY <1>2, <1>3, <1>4 DEF FileInv, MemoryOK
  <1>6. WorkOK' /\ QueueOK'
    BY <1>2 DEF FileInv, WorkOK, QueueOK, Writes
  <1>7. StreamOK' /\ PublishedOK' /\ CapturedOK'
    BY <1>2, StreamKept, PublishedKept, CapturedKept DEF FileInv, Writes
  <1> QED BY <1>5, <1>6, <1>7 DEF FileInv

\* The one that flushes goes on or leaves: what it has taken is in the file.
LEMMA FilesRound ==
    ASSUME FlushInv, FileInv, NEW a \in Actors, FlushStart(a) \/ Recheck(a)
    PROVE  FileInv'
  <1>1. PICK l \in {"pop", AfterFlush(a)} : Goto(a, l) /\ (l # "pop" => Queue = <<>>)
    BY DEF FlushStart, Recheck
  <1>2. l \in {"pop", "index", "map"} /\ (l = "map" => a # Main)
    BY <1>1 DEF AfterFlush
  <1>3. /\ pc[a] \in {"flush", "recheck"} /\ Flusing' \in BOOLEAN
        /\ UNCHANGED <<memory, generator, block, job, Queue, captured, files, process>>
    BY DEF FlushStart, Recheck, FileInv, QueueOK
  <1>4. UNCHANGED <<mode, code, registered, blocks, remapped, BranchTargets, Compiled, loaded, Index, open, failed, tmp,
                    published>>
    BY <1>3 DEF memory, generator, files, process
  <1>5. pc'[a] = l /\ \A b \in Actors : b # a => pc'[b] = pc[b]
    BY <1>1 DEF Goto, FlushInv, Placed
  <1>6. MemoryOK' /\ WorkOK' /\ QueueOK' /\ PublishedOK'
    BY <1>1, <1>2, <1>3, <1>4, WorkKept, PublishedKept DEF FileInv, MemoryOK, QueueOK
  <1>7. pc'[Main] = pc[Main] \/ (a = Main /\ pc'[Main] = l)
    BY <1>5, MainActor
  <1>8. StreamOK'
    BY <1>2, <1>3, <1>4, <1>7, StreamKept DEF FileInv
  <1>9. \A b \in Actors : Writes(b) => Writes(b)'
    BY <1>3, <1>5 DEF Writes
  <1>10. pc'[Main] = pc[Main] \/ (/\ pc'[Main] \in {"index", "rename", "ended"} => Queue = <<>>
                                  /\ pc'[Main] = "ended" => captured = {})
    BY <1>1, <1>2, <1>7
  <1>11. CapturedOK'
    BY <1>3, <1>4, <1>9, <1>10, CapturedKept DEF FileInv
  <1> QED BY <1>6, <1>8, <1>11 DEF FileInv

\* Main has not finished while somebody flushes.
LEMMA FlushingMain ==
    ASSUME FlushInv, NEW a \in Actors, InFlush(a)
    PROVE  pc[Main] \notin {"index", "rename", "ended"}
  BY MainActor DEF FlushInv, Placed, InFlush, Actors

LEMMA FilesPop ==
    ASSUME FlushInv, FileInv, NEW a \in Actors, Pop(a)
    PROVE  FileInv'
  <1>1. PICK l \in {"write", "writelast"} : Goto(a, l)
    BY DEF Pop
  <1>2. /\ pc[a] = "pop" /\ Queue # <<>> /\ job' = [job EXCEPT ![a] = Head(Queue)] /\ Queue' = Tail(Queue)
        /\ UNCHANGED <<memory, generator, block, Flusing, captured, files, process>>
    BY DEF Pop
  <1>3. UNCHANGED <<mode, code, registered, blocks, remapped, BranchTargets, Compiled, loaded, Index, open, failed, tmp,
                    published>>
    BY <1>2 DEF memory, generator, files, process
  <1>4. pc'[a] = l /\ \A b \in Actors : b # a => pc'[b] = pc[b]
    BY <1>1 DEF Goto, FlushInv, Placed
  <1>5. pc[Main] \notin {"index", "rename", "ended"} /\ pc'[Main] \notin {"index", "rename", "ended"}
    BY <1>2, <1>4, FlushingMain, MainActor DEF InFlush
  <1>6. Queue \in Seq(Records) /\ Len(Queue) \in Nat /\ DOMAIN Queue = 1 .. Len(Queue)
    BY DEF FileInv, QueueOK
  <1>7. Len(Queue) # 0 /\ Head(Queue) = Queue[1] /\ 1 \in DOMAIN Queue
    BY <1>2, <1>6
  <1>8. Head(Queue) \in Records
    BY <1>6, <1>7
  <1>9. /\ Queue' \in Seq(Records) /\ DOMAIN Queue' = 1 .. Len(Queue) - 1
        /\ \A i \in 1 .. Len(Queue) - 1 : Queue'[i] = Queue[i + 1]
    BY <1>2, <1>6, <1>7
  <1>10. /\ job' \in [Actors -> Records \cup {None}] /\ job'[a] = Head(Queue)
         /\ \A b \in Actors : b # a => job'[b] = job[b]
    BY <1>2, <1>8 DEF FileInv, WorkOK
  <1>11. WorkOK'
    <2>1. \A t \in Threads : pc'[t] # "idle" => block'[t] \in Work
      BY <1>2, <1>4, MainActor DEF FileInv, WorkOK
    <2>2. \A b \in Actors : Writes(b)' => job'[b] \in Records
      BY <1>4, <1>8, <1>10 DEF FileInv, WorkOK, Writes
    <2> QED BY <1>2, <1>10, <2>1, <2>2 DEF FileInv, WorkOK
  <1>12. MemoryOK' /\ QueueOK' /\ PublishedOK'
    BY <1>2, <1>3, <1>9, PublishedKept DEF FileInv, MemoryOK, QueueOK
  <1>13. StreamOK'
    BY <1>3, <1>5, StreamKept DEF FileInv
  <1>14. ASSUME NEW r \in captured
         PROVE  \/ \E i \in DOMAIN Queue' : Queue'[i].rip = r
                \/ \E b \in Actors : Writes(b)' /\ job'[b].rip = r
                \/ r \in DOMAIN Index'
    <2>1. CASE \E i \in DOMAIN Queue : Queue[i].rip = r
      <3>1. PICK i \in DOMAIN Queue : Queue[i].rip = r
        BY <2>1
      <3>2. CASE i = 1
        BY <1>4, <1>7, <1>10, <3>1, <3>2 DEF Writes
      <3>3. CASE i # 1
        <4>1. i - 1 \in 1 .. Len(Queue) - 1 /\ (i - 1) + 1 = i
          BY <1>6, <3>3
        <4>2. i - 1 \in DOMAIN Queue' /\ Queue'[i - 1] = Queue[i]
          BY <1>9, <4>1
        <4> QED BY <3>1, <4>2
      <3> QED BY <3>2, <3>3
    <2>2. CASE \E b \in Actors : Writes(b) /\ job[b].rip = r
      BY <1>2, <1>4, <1>10, <2>2 DEF Writes
    <2>3. CASE r \in DOMAIN Index
      BY <1>3, <2>3
    <2> QED BY <2>1, <2>2, <2>3 DEF FileInv, CapturedOK
  <1>15. Captures'
    BY <1>2, <1>3 DEF FileInv, CapturedOK, Captures
  <1>16. CapturedOK'
    BY <1>2, <1>5, <1>14, <1>15 DEF CapturedOK
  <1> QED BY <1>11, <1>12, <1>13, <1>16 DEF FileInv

\* What WriteEntry appends to: the stream, or a file that is truncated.
LEMMA StreamStores ==
    ASSUME StreamOK, pc[Main] \notin {"rename", "ended"}
    PROVE  Stream \in Files /\ (~failed => Stores(Stream.recs, Index) /\ ~Stream.trailer /\ ~Stream.torn)
  <1>1. CASE open
    BY <1>1 DEF Stream, StreamOK
  <1>2. CASE ~open
    <2>1. Stream = NoFile /\ Index = <<>>
      BY <1>2 DEF Stream, StreamOK
    <2>2. DOMAIN <<>> = {}
      OBVIOUS
    <2> QED BY <2>1, <2>2, NoFileIndexed DEF Stores
  <1> QED BY <1>1, <1>2

LEMMA FilesWriteEntry ==
    ASSUME FlushInv, FileInv, NEW a \in Actors, WriteEntry(a)
    PROVE  FileInv'
  <1>1. PICK l \in {"pop", "recheck"} : Goto(a, l)
    BY DEF WriteEntry
  <1>2. /\ Writes(a) /\ open' = TRUE /\ job' = [job EXCEPT ![a] = None]
        /\ UNCHANGED <<memory, generator, block, queue, published, process>>
    BY DEF WriteEntry, Writes
  <1>3. UNCHANGED <<mode, code, registered, blocks, remapped, BranchTargets, Compiled, loaded, Queue, Flusing, captured>>
    BY <1>2 DEF memory, generator, queue, process
  <1>4. pc'[a] = l /\ \A b \in Actors : b # a => pc'[b] = pc[b]
    BY <1>1 DEF Goto, FlushInv, Placed
  <1>5. pc[Main] \notin {"index", "rename", "ended"} /\ pc'[Main] \notin {"index", "rename", "ended"}
    BY <1>2, <1>4, FlushingMain, MainActor DEF InFlush, Writes
  <1>6. job[a] \in Records
    BY <1>2 DEF FileInv, WorkOK
  <1>7. /\ Stream \in Files /\ tmp \in Files /\ DOMAIN Index \subseteq RIPs
        /\ ~failed => Stores(Stream.recs, Index) /\ ~Stream.trailer /\ ~Stream.torn
    BY <1>5, StreamStores DEF FileInv, StreamOK
  <1>8. /\ tmp' \in Files /\ DOMAIN Index' = DOMAIN Index \cup {job[a].rip} /\ DOMAIN Index' \subseteq RIPs
        /\ \A r \in DOMAIN Index' : Index'[r] \in Nat
        /\ failed' \in BOOLEAN
        /\ ~failed' => Stores(tmp'.recs, Index') /\ ~tmp'.trailer /\ ~tmp'.torn
    <2>1. CASE ~failed /\ AppendAOTIRCaptureCache(Stream, Index, job[a]) /\ UNCHANGED failed
      <3>1. /\ tmp' \in Files /\ DOMAIN Index' = DOMAIN Index \cup {job[a].rip}
            /\ DOMAIN Index' \subseteq RIPs /\ Stores(tmp'.recs, Index')
            /\ tmp'.trailer = Stream.trailer /\ tmp'.torn = Stream.torn
        BY <1>6, <1>7, <2>1, AppendStores
      <3>2. \A r \in DOMAIN Index' : Index'[r] \in Nat
        BY <3>1, FileType DEF Stores
      <3>3. failed' \in BOOLEAN
        BY <2>1 DEF FileInv, StreamOK
      <3> QED BY <1>7, <2>1, <3>1, <3>2, <3>3
    <2>2. CASE AppendFails(job[a])
      <3>1. /\ failed' = TRUE /\ tmp' \in {tmp, Stream}
            /\ Index' = [r \in DOMAIN Index \cup {job[a].rip} |-> IF r \in DOMAIN Index THEN Index[r] ELSE 0]
        BY <2>2 DEF AppendFails
      <3>2. job[a].rip \in RIPs
        BY <1>6 DEF Records
      <3>3. \A r \in DOMAIN Index' : Index'[r] \in Nat
        BY <3>1 DEF FileInv, StreamOK
      <3> QED BY <1>7, <3>1, <3>2, <3>3
    <2> QED BY <2>1, <2>2 DEF WriteEntry
  <1>10. StreamOK'
    BY <1>2, <1>5, <1>8 DEF StreamOK
  <1>11. job' \in [Actors -> Records \cup {None}] /\ \A b \in Actors : b # a => job'[b] = job[b]
    BY <1>2 DEF FileInv, WorkOK
  <1>12. WorkOK'
    <2>1. \A t \in Threads : pc'[t] # "idle" => block'[t] \in Work
      BY <1>2, <1>4, MainActor DEF FileInv, WorkOK, Writes
    <2>2. \A b \in Actors : Writes(b)' => job'[b] \in Records
      BY <1>4, <1>11 DEF FileInv, WorkOK, Writes
    <2> QED BY <1>2, <1>11, <2>1, <2>2 DEF FileInv, WorkOK
  <1>13. MemoryOK' /\ QueueOK' /\ PublishedOK'
    BY <1>2, <1>3, PublishedKept DEF FileInv, MemoryOK, QueueOK
  <1>14. ASSUME NEW r \in captured
         PROVE  \/ \E i \in DOMAIN Queue' : Queue'[i].rip = r
                \/ \E b \in Actors : Writes(b)' /\ job'[b].rip = r
                \/ r \in DOMAIN Index'
    <2>1. CASE \E b \in Actors : Writes(b) /\ job[b].rip = r
      <3>1. PICK b \in Actors : Writes(b) /\ job[b].rip = r
        BY <2>1
      <3>2. b = a
        BY <1>2, <3>1 DEF FlushInv, OneFlusher, InFlush, Writes
      <3> QED BY <1>8, <3>1, <3>2
    <2>2. CASE r \in DOMAIN Index
      BY <1>8, <2>2
    <2>3. CASE \E i \in DOMAIN Queue : Queue[i].rip = r
      BY <1>3, <2>3
    <2> QED BY <2>1, <2>2, <2>3 DEF FileInv, CapturedOK
  <1>15. CapturedOK'
    BY <1>3, <1>5, <1>14 DEF FileInv, CapturedOK, Captures
  <1> QED BY <1>10, <1>12, <1>13, <1>15 DEF FileInv

\* When Main has flushed, all that was captured is in the index.
LEMMA AllIndexed ==
    ASSUME FlushInv, CapturedOK, pc[Main] \in {"index", "rename"}
    PROVE  \A r \in captured : r \in DOMAIN Index
  <1>1. \A a \in Actors : ~Writes(a)
    BY MainActor DEF FlushInv, Placed, Writes, Actors
  <1>2. Queue = <<>> /\ DOMAIN <<>> = {}
    BY DEF CapturedOK
  <1> QED BY <1>1, <1>2 DEF CapturedOK

LEMMA FilesExit ==
    ASSUME FlushInv, FileInv, Exit
    PROVE  FileInv'
  <1>1. /\ pc[Main] = "idle" /\ \A t \in Threads : pc[t] \in {"idle", "compiled", "map"}
        /\ block' = [t \in Threads |-> None]
        /\ UNCHANGED <<memory, generator, job, queue, files, process>>
    BY DEF Exit
  <1>2. UNCHANGED <<mode, code, registered, blocks, remapped, BranchTargets, Compiled, Index, open, failed, tmp, published,
                    loaded, Queue, Flusing, captured>>
    BY <1>1 DEF memory, generator, queue, files, process
  <1>3. /\ \A t \in Threads : pc'[t] = "idle"
        /\ pc'[Main] = IF Captures THEN "flush" ELSE "ended"
    BY MainActor DEF Exit
  <1>4. \A a \in Actors : ~Writes(a) /\ ~Writes(a)'
    BY <1>1, <1>3 DEF Writes, Actors
  <1>5. WorkOK'
    BY <1>1, <1>3, <1>4 DEF FileInv, WorkOK
  <1>6. MemoryOK' /\ QueueOK' /\ PublishedOK'
    BY <1>2, PublishedKept DEF FileInv, MemoryOK, QueueOK
  <1>7. StreamOK'
    BY <1>1, <1>2, <1>3, StreamKept DEF FileInv
  <1>8. CapturedOK'
    BY <1>1, <1>2, <1>3, <1>4, CapturedKept DEF FileInv, CapturedOK
  <1> QED BY <1>5, <1>6, <1>7, <1>8 DEF FileInv

LEMMA FilesWriteIndex ==
    ASSUME FlushInv, FileInv, WriteIndex
    PROVE  FileInv'
  <1>1. /\ pc[Main] = "index"
        /\ UNCHANGED <<memory, generator, block, job, queue, Index, open, published, process>>
    BY DEF WriteIndex
  <1>2. UNCHANGED <<mode, code, registered, blocks, remapped, BranchTargets, Compiled, loaded, Queue, Flusing, captured>>
    BY <1>1 DEF memory, generator, queue, process
  <1>3. PICK l \in {"rename", "ended"} : Goto(Main, l) /\ (l = "rename" <=> open)
    BY DEF WriteIndex, FileInv, StreamOK
  <1>4. pc'[Main] = l /\ \A t \in Threads : pc'[t] = pc[t]
    BY <1>3, MainActor DEF Goto, FlushInv, Placed
  <1>5. \A a \in Actors : ~Writes(a) /\ ~Writes(a)'
    BY <1>1, <1>4, MainActor DEF FlushInv, Placed, Writes, Actors
  <1>6. WorkOK'
    BY <1>1, <1>3, WorkKept, MainActor DEF FileInv
  <1>7. MemoryOK' /\ QueueOK' /\ PublishedOK'
    BY <1>1, <1>2, PublishedKept DEF FileInv, MemoryOK, QueueOK
  <1>8. \A r \in captured : r \in DOMAIN Index
    BY <1>1, AllIndexed DEF FileInv
  <1>9. CASE open
    <2>1. \/ tmp' = [tmp EXCEPT !.index = Sorted(Index), !.trailer = TRUE] /\ UNCHANGED failed
          \/ tmp' = [tmp EXCEPT !.torn = TRUE] /\ failed' = TRUE
      BY <1>9 DEF WriteIndex
    <2>2. /\ tmp \in Files /\ DOMAIN Index \subseteq RIPs /\ Stores(tmp.recs, Index)
          /\ ~tmp.trailer /\ ~tmp.torn
      BY <1>1, <1>9 DEF FileInv, StreamOK, WriteIndex
    <2>3. /\ tmp' \in Files /\ tmp'.recs = tmp.recs /\ Whole(tmp')
          /\ failed' \in BOOLEAN /\ (~failed' => tmp'.trailer)
      <3>1. CASE tmp' = [tmp EXCEPT !.index = Sorted(Index), !.trailer = TRUE] /\ UNCHANGED failed
        <4>0. /\ tmp' = [tmp EXCEPT !.index = Sorted(Index), !.trailer = TRUE]
              /\ tmp \in Files /\ DOMAIN Index \subseteq RIPs /\ Stores(tmp.recs, Index)
          BY <2>2, <3>1
        <4>1. tmp' \in Files /\ tmp'.recs = tmp.recs /\ tmp'.trailer /\ tmp'.torn = tmp.torn /\ Indexed(tmp')
          BY <4>0, SortedIndexed
        <4>2. tmp'.trailer = TRUE /\ tmp'.torn = FALSE
          BY <2>2, <3>1, <4>1 DEF Files
        <4>3. Whole(tmp')
          BY <4>1, <4>2 DEF Whole
        <4>4. failed' \in BOOLEAN
          BY <3>1 DEF FileInv, StreamOK
        <4> QED BY <4>1, <4>3, <4>4
      <3>2. CASE tmp' = [tmp EXCEPT !.torn = TRUE] /\ failed' = TRUE
        <4>1. tmp' \in Files /\ tmp'.recs = tmp.recs /\ tmp'.trailer = tmp.trailer /\ tmp'.torn = TRUE
          BY <2>2, <3>2 DEF Files
        <4> QED BY <2>2, <3>2, <4>1 DEF Whole
      <3> QED BY <2>1, <3>1, <3>2
    <2>4. StreamOK'
      BY <1>1, <1>3, <1>4, <1>9, <2>2, <2>3 DEF FileInv, StreamOK
    <2>5. CapturedOK'
      BY <1>1, <1>2, <1>3, <1>4, <1>9, <1>8 DEF FileInv, CapturedOK, Captures
    <2> QED BY <1>6, <1>7, <2>4, <2>5 DEF FileInv
  <1>10. CASE ~open
    <2>1. UNCHANGED <<tmp, failed>>
      BY <1>10 DEF WriteIndex
    <2>2. captured = {}
      <3>1. DOMAIN <<>> = {}
        OBVIOUS
      <3> QED BY <1>8, <1>10, <3>1 DEF FileInv, StreamOK
    <2>3. StreamOK'
      BY <1>1, <1>3, <1>4, <1>10, <2>1, StreamKept DEF FileInv
    <2>4. CapturedOK'
      BY <1>1, <1>2, <2>2 DEF FileInv, CapturedOK, Captures
    <2> QED BY <1>6, <1>7, <2>3, <2>4 DEF FileInv
  <1> QED BY <1>9, <1>10

LEMMA FilesRename ==
    ASSUME FlushInv, FileInv, Rename
    PROVE  FileInv'
  <1>1. /\ pc[Main] = "rename" /\ published' = tmp /\ tmp' = NoFile /\ Goto(Main, "ended")
        /\ UNCHANGED <<memory, generator, block, job, queue, Index, open, failed, process>>
    BY DEF Rename
  <1>2. UNCHANGED <<mode, code, registered, blocks, remapped, BranchTargets, Compiled, loaded, Queue, Flusing, captured>>
    BY <1>1 DEF memory, generator, queue, process
  <1>3. pc'[Main] = "ended"
    BY <1>1, MainActor DEF Goto, FlushInv, Placed
  <1>4. WorkOK'
    BY <1>1, WorkKept, MainActor DEF FileInv
  <1>5. MemoryOK' /\ QueueOK'
    BY <1>2 DEF FileInv, MemoryOK, QueueOK
  <1>6. /\ open /\ tmp \in Files /\ Whole(tmp)
        /\ ~failed => tmp.trailer /\ Stores(tmp.recs, Index)
    BY <1>1 DEF FileInv, StreamOK
  <1>7. PublishedOK'
    BY <1>1, <1>2, <1>6 DEF FileInv, PublishedOK
  <1>8. StreamOK'
    BY <1>1, <1>3, NoFileIndexed DEF FileInv, StreamOK
  <1>9. \A r \in captured : r \in DOMAIN Index
    BY <1>1, AllIndexed DEF FileInv
  <1>10. ~failed => Indexed(tmp) /\ \A r \in captured : \E j \in DOMAIN tmp.recs : tmp.recs[j].rip = r
    BY <1>6, <1>9 DEF Stores, Whole
  <1>11. CapturedOK'
    BY <1>1, <1>2, <1>9, <1>10 DEF FileInv, CapturedOK, Captures
  <1> QED BY <1>4, <1>5, <1>7, <1>8, <1>11 DEF FileInv

LEMMA FilesNewProcess ==
    ASSUME FileInv, NewProcess
    PROVE  FileInv'
  <1>1. MemoryOK'
    BY DEF NewProcess, Volatile, Seeds, MemoryOK
  <1>2. WorkOK'
    BY MainActor DEF NewProcess, Volatile, WorkOK, Writes
  <1>3. Queue' = <<>> /\ captured' = {} /\ Flusing' = FALSE
    BY DEF NewProcess, Volatile
  <1>4. QueueOK'
    <2>1. Queue' \in Seq(Records) /\ captured' \subseteq RIPs
      BY <1>3
    <2>2. Flusing' \in BOOLEAN
      BY <1>3
    <2> QED BY <2>1, <2>2 DEF QueueOK
  <1>5. open' = FALSE /\ failed' = FALSE /\ UNCHANGED <<tmp, published>> /\ Index' = <<>> /\ pc'[Main] = "idle"
    BY MainActor DEF NewProcess, Volatile
  <1>6. StreamOK'
    <2>1. DOMAIN <<>> = {}
      OBVIOUS
    <2> QED BY <1>5, <2>1 DEF FileInv, StreamOK
  <1>7. loaded' = NoFile \/ (loaded' = published /\ published.trailer)
    BY DEF NewProcess, Load
  <1>8. PublishedOK'
    BY <1>5, <1>7, NoFileIndexed DEF FileInv, PublishedOK, Whole
  <1>9. CapturedOK'
    BY <1>3, <1>5 DEF CapturedOK
  <1> QED BY <1>1, <1>2, <1>4, <1>6, <1>8, <1>9 DEF FileInv

LEMMA FilesNext == FlushInv /\ FileInv /\ [Next]_vars => FileInv'
  <1> SUFFICES ASSUME FlushInv, FileInv, [Next]_vars PROVE FileInv'
    OBVIOUS
  <1>1. ASSUME NEW t \in Threads, ThreadStep(t) PROVE FileInv'
    BY <1>1, FilesCompile, FilesAppend, FilesTryFlush, FilesMap DEF ThreadStep
  <1>2. ASSUME NEW a \in Actors, FlushStep(a) PROVE FileInv'
    BY <1>2, FilesRound, FilesPop, FilesWriteEntry DEF FlushStep
  <1>3. ASSUME NEW r \in RIPs, CodeStep(r) PROVE FileInv'
    BY <1>3, FilesWritten
  <1>4. CASE MainStep
    BY <1>4, FilesExit, FilesWriteIndex, FilesRename DEF MainStep
  <1>5. CASE NewProcess
    BY <1>5, FilesNewProcess
  <1>6. CASE UNCHANGED vars
    <2>1. UNCHANGED <<code, registered, blocks, remapped, BranchTargets, Compiled, pc, block, job, Queue, Flusing,
                      captured, Index, open, failed, tmp, published, mode, loaded>>
      BY <1>6 DEF vars, memory, generator, control, queue, files, process
    <2>2. MemoryOK' /\ WorkOK' /\ QueueOK'
      BY <2>1 DEF FileInv, MemoryOK, WorkOK, QueueOK, Writes
    <2>3. StreamOK' /\ PublishedOK' /\ CapturedOK'
      BY <2>1, StreamKept, PublishedKept, CapturedKept DEF FileInv, Writes
    <2> QED BY <2>2, <2>3 DEF FileInv
  <1> QED BY <1>1, <1>2, <1>3, <1>4, <1>5, <1>6 DEF Next, CodeStep

LEMMA FilesAlways == Spec => [](FlushInv /\ FileInv)
  BY FlushInit, FlushNext, FilesInit, FilesNext, PTL DEF Spec

\* Type correctness, through any flushes, deaths and restarts.
THEOREM TypeOKAlways == Spec => []TypeOK
  <1>1. FlushInv /\ FileInv => TypeOK
    BY DEF FlushInv, Placed, Labels, FileInv, MemoryOK, WorkOK, QueueOK, StreamOK, TypeOK, Work
  <1> QED BY <1>1, FilesAlways, PTL

\* Whenever the process dies the published file is complete, unless its index
\* could not be written, and the binary search finds the one record of each
\* entry point that has one, whatever the order and the number of the records.
THEOREM PublishedWholeAlways == Spec => []PublishedWhole
  <1>1. FileInv => PublishedWhole
    <2> SUFFICES ASSUME FileInv, published # NoFile, NEW r \in RIPs,
                        NEW stored, stored = {i \in DOMAIN published.recs : published.recs[i].rip = r},
                        published.trailer
                 PROVE  IF stored = {} THEN Find(published, r) = None
                        ELSE \E i \in stored : stored = {i} /\ Find(published, r) = published.recs[i]
      BY DEF PublishedWhole, FileInv, PublishedOK, Whole
    <2>1. published \in Files /\ Indexed(published)
      BY DEF FileInv, PublishedOK, Whole
    <2>2. CASE stored = {}
      BY <2>1, <2>2, FindNothing
    <2>3. CASE stored # {}
      <3>1. PICK i \in stored : TRUE
        BY <2>3
      <3>2. i \in DOMAIN published.recs /\ published.recs[i].rip = r
        OBVIOUS
      <3>3. Find(published, r) = published.recs[i] /\ \A k \in stored : k = i
        BY <2>1, <3>2, FindStored
      <3> QED BY <2>1, <2>3, <3>1, <3>3
    <2> QED BY <2>1, <2>2, <2>3
  <1> QED BY <1>1, FilesAlways, PTL

\* A program that has ended has published every block it captured, if it could
\* write to its file: none is
\* left in the queue or lost between the flushers, and the search finds each.
THEOREM NothingLostAlways == Spec => []NothingLost
  <1>1. FileInv => NothingLost
    <2> SUFFICES ASSUME FileInv, pc[Main] = "ended", ~failed, NEW r \in captured PROVE Find(published, r) # None
      BY DEF NothingLost
    <2>1. PICK j \in DOMAIN published.recs : published.recs[j].rip = r
      BY DEF FileInv, CapturedOK
    <2>2. published \in Files /\ Indexed(published)
      BY DEF FileInv, PublishedOK, CapturedOK
    <2>3. Find(published, r) = published.recs[j] /\ published.recs[j] \in Records
      BY <2>1, <2>2, FindStored, FileType
    <2> QED BY <2>3, NoneAssumption DEF Records
  <1> QED BY <1>1, FilesAlways, PTL

-----------------------------------------------------------------------------
(* The hash of a record is that of its IR *)

\* Nothing is captured while IR is loaded, as FEX is configured, and the page
\* of a block stays registered, and its code the same, until it is queued.
FaithInv ==
    /\ Faithful(Queue) /\ Faithful(tmp.recs) /\ Faithful(published.recs) /\ Faithful(loaded.recs)
    /\ \A a \in Actors : Writes(a) => job[a].hash = job[a].ir
    /\ Captures => /\ loaded = NoFile
                   /\ \A t \in Threads : pc[t] = "compiled" =>
                         block[t].rip \in registered /\ block[t].ir = code[block[t].rip]

LEMMA FaithfulEmpty == Faithful(<<>>) /\ Faithful(NoFile.recs)
  BY NoFileIndexed DEF Faithful

LEMMA FaithInit == Init => FaithInv
  <1> SUFFICES ASSUME Init PROVE FaithInv
    OBVIOUS
  <1>1. pc = [a \in Actors |-> "idle"] /\ Queue = <<>> /\ tmp = NoFile /\ published = NoFile /\ loaded = NoFile
    BY DEF Init
  <1> QED BY <1>1, FaithfulEmpty, MainActor DEF FaithInv, Writes

LEMMA NothingToFind ==
    ASSUME NEW r \in RIPs
    PROVE  Find(NoFile, r) = None
  <1>1. DOMAIN NoFile.recs = {}
    BY NoFileIndexed
  <1> QED BY <1>1, NoFileIndexed, FindNothing

LEMMA FaithCompile ==
    ASSUME FlushInv, FileInv, FaithInv, NEW t \in Threads, NEW r \in RIPs,
           PreGenerateIRFetch(t, r) \/ GenerateIR(t, r)
    PROVE  FaithInv'
  <1>1. /\ pc[t] = "idle" /\ UNCHANGED <<Compiled, job, queue, files, process>>
    BY DEF PreGenerateIRFetch, GenerateIR, Wanted
  <1>2. PICK l \in {"compiled", "map"} : Goto(t, l)
    BY DEF PreGenerateIRFetch, GenerateIR
  <1>3. UNCHANGED <<Queue, tmp, published, loaded, mode>>
    BY <1>1 DEF queue, files, process
  <1>4. pc'[t] = l /\ \A a \in Actors : a # t => pc'[a] = pc[a]
    BY <1>2, MainActor DEF Goto, FlushInv, Placed
  <1>5. \A a \in Actors : Writes(a)' => Writes(a)
    BY <1>4 DEF Writes
  <1>6. ASSUME Captures, NEW u \in Threads, pc'[u] = "compiled"
        PROVE  block'[u].rip \in registered' /\ block'[u].ir = code'[block'[u].rip]
    <2>1. loaded = NoFile
      BY <1>6 DEF FaithInv
    <2>2. GenerateIR(t, r)
      BY <2>1, NothingToFind DEF PreGenerateIRFetch, Hit
    <2>3. registered' = registered \cup {r} /\ block' = [block EXCEPT ![t] = [rip |-> r, ir |-> code[r]]]
          /\ UNCHANGED code
      BY <2>2 DEF GenerateIR
    <2>4. CASE u = t
      BY <2>3, <2>4 DEF FileInv, WorkOK
    <2>5. CASE u # t
      <3>1. block'[u] = block[u] /\ pc[u] = "compiled"
        BY <1>4, <1>6, <2>3, <2>5, MainActor DEF FileInv, WorkOK
      <3> QED BY <1>6, <2>3, <3>1 DEF FaithInv
    <2> QED BY <2>4, <2>5
  <1> QED BY <1>1, <1>3, <1>5, <1>6 DEF FaithInv, Captures

\* A step that changes no record, no code and no block of a thread that has
\* compiled.
LEMMA FaithKept ==
    ASSUME FaithInv, UNCHANGED <<Queue, tmp, published, loaded, mode, code, registered>>,
           \A a \in Actors : Writes(a)' => Writes(a) /\ job'[a] = job[a],
           \A t \in Threads : pc'[t] = "compiled" => pc[t] = "compiled" /\ block'[t] = block[t]
    PROVE  FaithInv'
  BY DEF FaithInv, Captures

\* ... because only pc[a] changes, and neither to "compiled" nor to a write.
LEMMA FaithGoto ==
    ASSUME FlushInv, FaithInv, UNCHANGED <<Queue, tmp, published, loaded, mode, code, registered, job>>,
           NEW a \in Actors, NEW l, Goto(a, l), l \notin {"compiled", "write", "writelast"},
           \A t \in Threads : t # a => block'[t] = block[t]
    PROVE  FaithInv'
  <1>1. pc'[a] = l /\ \A b \in Actors : b # a => pc'[b] = pc[b]
    BY DEF Goto, FlushInv, Placed
  <1>2. \A b \in Actors : Writes(b)' => Writes(b) /\ job'[b] = job[b]
    BY <1>1 DEF Writes
  <1>3. \A t \in Threads : pc'[t] = "compiled" => pc[t] = "compiled" /\ block'[t] = block[t]
    BY <1>1, MainActor
  <1> QED BY <1>2, <1>3, FaithKept

LEMMA FaithAppend ==
    ASSUME FlushInv, FileInv, FaithInv, NEW t \in Threads, PostCompileCode(t)
    PROVE  FaithInv'
  <1>1. pc[t] = "compiled" /\ UNCHANGED <<memory, generator, block, job, Flusing, files, process>>
    BY DEF PostCompileCode
  <1>2. UNCHANGED <<mode, code, registered, tmp, published, loaded>>
    BY <1>1 DEF memory, files, process
  <1>3. PICK l \in {"cas", "map"} : Goto(t, l)
    BY DEF PostCompileCode
  <1>4. CASE ~Captures
    <2>1. UNCHANGED Queue
      BY <1>4 DEF PostCompileCode
    <2> QED BY <1>1, <1>2, <1>3, <2>1, FaithGoto, MainActor
  <1>5. CASE Captures
    <2> DEFINE rec == [rip |-> block[t].rip, hash |-> code[block[t].rip], ir |-> block[t].ir]
    <2>1. Queue' = Append(Queue, rec)
      BY <1>5 DEF PostCompileCode
    <2>2. rec.hash = rec.ir
      BY <1>1, <1>5 DEF FaithInv
    <2>3. Queue \in Seq(Records) /\ Len(Queue) \in Nat /\ DOMAIN Queue = 1 .. Len(Queue)
      BY DEF FileInv, QueueOK
    <2> HIDE DEF rec
    <2>4. /\ DOMAIN Queue' = 1 .. Len(Queue) + 1 /\ Queue'[Len(Queue) + 1] = rec
          /\ \A i \in 1 .. Len(Queue) : Queue'[i] = Queue[i]
      BY <2>1, <2>3
    <2>5. \A i \in 1 .. Len(Queue) + 1 : i = Len(Queue) + 1 \/ i \in 1 .. Len(Queue)
      BY <2>3
    <2>6. Faithful(Queue')
      BY <2>2, <2>3, <2>4, <2>5 DEF FaithInv, Faithful
    <2>7. pc'[t] = l /\ \A a \in Actors : a # t => pc'[a] = pc[a]
      BY <1>3, MainActor DEF Goto, FlushInv, Placed
    <2>8. \A a \in Actors : Writes(a)' => Writes(a)
      BY <2>7 DEF Writes
    <2>9. \A u \in Threads : pc'[u] = "compiled" => pc[u] = "compiled"
      BY <2>7, MainActor
    <2> QED BY <1>1, <1>2, <2>6, <2>8, <2>9 DEF FaithInv, Captures
  <1> QED BY <1>4, <1>5

\* The write faults, and waits for the compilations that have registered the
\* page, as the tracking of a new mapping does.
LEMMA FaithWritten ==
    ASSUME ~RemapsAnytime, FlushInv, FileInv, FaithInv, NEW r \in RIPs, CodeStep(r)
    PROVE  FaithInv'
  <1>1. UNCHANGED <<control, queue, files, process>>
    BY DEF CodeStep, GuestWrite, GuestRemap, TrackRemap
  <1>2. UNCHANGED <<pc, block, job, Queue, tmp, published, mode, loaded>>
    BY <1>1 DEF control, queue, files, process
  <1>3. ASSUME Captures, NEW t \in Threads, pc[t] = "compiled"
        PROVE  block[t].rip \in registered' /\ block[t].ir = code'[block[t].rip]
    <2>1. block[t].rip \in registered /\ block[t].ir = code[block[t].rip]
      BY <1>3 DEF FaithInv
    <2>2. ~Invalidate(r) /\ ~TrackRemap(r)
      BY <1>3 DEF Invalidate, TrackRemap
    <2>3. PICK v \in Versions : GuestWrite(r, v) \/ GuestRemap(r, v)
      BY <2>2 DEF CodeStep
    <2>4. UNCHANGED registered /\ code' = [code EXCEPT ![r] = v] /\ (r \in registered => block[t].rip # r)
      BY <1>3, <2>2, <2>3 DEF GuestWrite, GuestRemap
    <2>5. code'[block[t].rip] = code[block[t].rip]
      BY <2>1, <2>4 DEF FileInv, MemoryOK
    <2> QED BY <2>1, <2>4, <2>5
  <1> QED BY <1>2, <1>3 DEF FaithInv, Captures, Writes

LEMMA FaithFlush ==
    ASSUME FlushInv, FileInv, FaithInv, NEW a \in Actors, FlushStep(a)
    PROVE  FaithInv'
  <1>1. CASE FlushStart(a) \/ Recheck(a)
    <2>1. PICK l \in {"pop", AfterFlush(a)} : Goto(a, l)
      BY <1>1 DEF FlushStart, Recheck
    <2>2. l \in {"pop", "index", "map"}
      BY <2>1 DEF AfterFlush
    <2>3. UNCHANGED <<memory, block, job, Queue, files, process>>
      BY <1>1 DEF FlushStart, Recheck
    <2>4. UNCHANGED <<tmp, published, loaded, mode, code, registered>>
      BY <2>3 DEF memory, files, process
    <2> QED BY <2>1, <2>2, <2>3, <2>4, FaithGoto
  <1>2. CASE Pop(a)
    <2>1. PICK l \in {"write", "writelast"} : Goto(a, l)
      BY <1>2 DEF Pop
    <2>2. /\ pc[a] = "pop" /\ Queue # <<>> /\ job' = [job EXCEPT ![a] = Head(Queue)] /\ Queue' = Tail(Queue)
          /\ UNCHANGED <<memory, block, files, process>>
      BY <1>2 DEF Pop
    <2>3. UNCHANGED <<tmp, published, loaded, mode, code, registered>>
      BY <2>2 DEF memory, files, process
    <2>4. Queue \in Seq(Records) /\ Len(Queue) \in Nat /\ DOMAIN Queue = 1 .. Len(Queue)
      BY DEF FileInv, QueueOK
    <2>5. Len(Queue) # 0 /\ Head(Queue) = Queue[1] /\ 1 \in DOMAIN Queue
      BY <2>2, <2>4
    <2>6. DOMAIN Queue' = 1 .. Len(Queue) - 1 /\ \A i \in 1 .. Len(Queue) - 1 : Queue'[i] = Queue[i + 1]
      BY <2>2, <2>4, <2>5
    <2>7. \A i \in 1 .. Len(Queue) - 1 : i + 1 \in DOMAIN Queue
      BY <2>4
    <2>8. Faithful(Queue')
      BY <2>6, <2>7 DEF FaithInv, Faithful
    <2>9. pc'[a] = l /\ \A b \in Actors : b # a => pc'[b] = pc[b]
      BY <2>1 DEF Goto, FlushInv, Placed
    <2>10. job'[a] = Queue[1] /\ \A b \in Actors : b # a => job'[b] = job[b]
      BY <2>2, <2>5 DEF FileInv, WorkOK
    <2>11. \A b \in Actors : Writes(b)' => job'[b].hash = job'[b].ir
      BY <2>5, <2>9, <2>10 DEF FaithInv, Faithful, Writes
    <2>12. \A t \in Threads : pc'[t] = "compiled" => pc[t] = "compiled"
      BY <2>9, MainActor
    <2> QED BY <2>2, <2>3, <2>8, <2>11, <2>12 DEF FaithInv, Captures
  <1>3. CASE WriteEntry(a)
    <2>1. PICK l \in {"pop", "recheck"} : Goto(a, l)
      BY <1>3 DEF WriteEntry
    <2>2. /\ Writes(a) /\ job' = [job EXCEPT ![a] = None]
          /\ UNCHANGED <<memory, block, queue, published, process>>
      BY <1>3 DEF WriteEntry, Writes
    <2>3. UNCHANGED <<Queue, published, loaded, mode, code, registered>>
      BY <2>2 DEF memory, queue, process
    <2>4. pc[Main] \notin {"rename", "ended"}
      BY <2>2, FlushingMain DEF InFlush, Writes
    <2>5. Stream \in Files /\ (~failed => Stores(Stream.recs, Index)) /\ DOMAIN Index \subseteq RIPs
      BY <2>4, StreamStores DEF FileInv, StreamOK
    <2>6. job[a] \in Records /\ job[a].hash = job[a].ir
      BY <2>2 DEF FileInv, WorkOK, FaithInv
    <2>7. Faithful(Stream.recs) /\ Faithful(tmp.recs)
      BY FaithfulEmpty DEF FaithInv, Stream
    <2>8. Faithful(tmp'.recs)
      <3>1. CASE ~failed /\ AppendAOTIRCaptureCache(Stream, Index, job[a])
        BY <2>5, <2>6, <2>7, <3>1, AppendStores
      <3>2. CASE AppendFails(job[a])
        BY <2>7, <3>2 DEF AppendFails
      <3> QED BY <1>3, <3>1, <3>2 DEF WriteEntry
    <2>9. pc'[a] = l /\ \A b \in Actors : b # a => pc'[b] = pc[b]
      BY <2>1 DEF Goto, FlushInv, Placed
    <2>10. \A b \in Actors : Writes(b)' => Writes(b) /\ job'[b] = job[b]
      BY <2>2, <2>9 DEF Writes, FileInv, WorkOK
    <2>11. \A t \in Threads : pc'[t] = "compiled" => pc[t] = "compiled"
      BY <2>9, MainActor
    <2> QED BY <2>2, <2>3, <2>8, <2>10, <2>11 DEF FaithInv, Captures
  <1> QED BY <1>1, <1>2, <1>3 DEF FlushStep

LEMMA FaithMain ==
    ASSUME FlushInv, FileInv, FaithInv, MainStep
    PROVE  FaithInv'
  <1>1. CASE Exit
    <2>1. UNCHANGED <<memory, job, queue, files, process>>
      BY <1>1 DEF Exit
    <2>2. UNCHANGED <<Queue, tmp, published, loaded, mode, code, registered>>
      BY <2>1 DEF memory, queue, files, process
    <2>3. \A a \in Actors : pc'[a] \in {"idle", "flush", "ended"}
      BY <1>1 DEF Exit
    <2>4. \A a \in Actors : ~Writes(a)' /\ pc'[a] # "compiled"
      BY <2>3 DEF Writes
    <2> QED BY <2>2, <2>4, FaithKept, MainActor
  <1>2. CASE WriteIndex
    <2>1. pc[Main] = "index" /\ UNCHANGED <<memory, block, job, queue, published, process>>
      BY <1>2 DEF WriteIndex
    <2>2. UNCHANGED <<Queue, published, loaded, mode, code, registered>>
      BY <2>1 DEF memory, queue, process
    <2>3. PICK l \in {"rename", "ended"} : Goto(Main, l)
      BY <1>2 DEF WriteIndex
    <2>4. tmp'.recs = tmp.recs
      <3>1. CASE open
        <4>1. \/ tmp' = [tmp EXCEPT !.index = Sorted(Index), !.trailer = TRUE]
              \/ tmp' = [tmp EXCEPT !.torn = TRUE]
          BY <1>2, <3>1 DEF WriteIndex
        <4>2. tmp \in Files
          BY DEF FileInv, StreamOK
        <4> QED BY <4>1, <4>2 DEF Files
      <3>2. CASE ~open
        BY <1>2, <3>2 DEF WriteIndex
      <3> QED BY <3>1, <3>2
    <2>5. pc'[Main] = l /\ \A a \in Actors : a # Main => pc'[a] = pc[a]
      BY <2>3, MainActor DEF Goto, FlushInv, Placed
    <2>6. \A a \in Actors : Writes(a)' => Writes(a)
      BY <2>5 DEF Writes
    <2>7. \A t \in Threads : pc'[t] = pc[t]
      BY <2>5, MainActor
    <2> QED BY <2>1, <2>2, <2>4, <2>6, <2>7 DEF FaithInv, Captures
  <1>3. CASE Rename
    <2>1. published' = tmp /\ tmp' = NoFile /\ Goto(Main, "ended") /\ UNCHANGED <<memory, block, job, queue, process>>
      BY <1>3 DEF Rename
    <2>2. UNCHANGED <<Queue, loaded, mode, code, registered>>
      BY <2>1 DEF memory, queue, process
    <2>3. pc'[Main] = "ended" /\ \A a \in Actors : a # Main => pc'[a] = pc[a]
      BY <2>1, MainActor DEF Goto, FlushInv, Placed
    <2>4. \A a \in Actors : Writes(a)' => Writes(a)
      BY <2>3 DEF Writes
    <2>5. \A t \in Threads : pc'[t] = pc[t]
      BY <2>3, MainActor
    <2> QED BY <2>1, <2>2, <2>4, <2>5, FaithfulEmpty DEF FaithInv, Captures
  <1> QED BY <1>1, <1>2, <1>3 DEF MainStep

LEMMA FaithNewProcess ==
    ASSUME "both" \notin Modes, FaithInv, NewProcess
    PROVE  FaithInv'
  <1>1. /\ pc' = [a \in Actors |-> "idle"] /\ Queue' = <<>> /\ UNCHANGED <<tmp, published>>
        /\ mode' \in Modes /\ loaded' = Load(published)
    BY DEF NewProcess, Volatile
  <1>2. loaded' \in {published, NoFile} /\ (Captures' => loaded' = NoFile)
    BY <1>1, ModeAssumption DEF Load, Loads, Captures
  <1>3. \A a \in Actors : ~Writes(a)' /\ pc'[a] # "compiled"
    BY <1>1 DEF Writes
  <1> QED BY <1>1, <1>2, <1>3, FaithfulEmpty, MainActor DEF FaithInv

LEMMA FaithNext ==
    ASSUME "both" \notin Modes, ~RemapsAnytime
    PROVE  FlushInv /\ FileInv /\ FaithInv /\ [Next]_vars => FaithInv'
  <1> SUFFICES ASSUME FlushInv, FileInv, FaithInv, [Next]_vars PROVE FaithInv'
    OBVIOUS
  <1>1. ASSUME NEW t \in Threads, ThreadStep(t) PROVE FaithInv'
    <2>1. CASE TryFlush(t)
      <3>1. PICK l \in {"map", "flush"} : Goto(t, l)
        BY <2>1 DEF TryFlush
      <3>2. UNCHANGED <<memory, block, job, Queue, files, process>>
        BY <2>1 DEF TryFlush
      <3>3. UNCHANGED <<tmp, published, loaded, mode, code, registered>>
        BY <3>2 DEF memory, files, process
      <3> QED BY <3>1, <3>2, <3>3, FaithGoto, MainActor
    <2>2. CASE AddBlockMapping(t) \/ AddTargets(t)
      <3>1. Goto(t, "idle") /\ block' = [block EXCEPT ![t] = None]
        BY <2>2 DEF AddBlockMapping, AddTargets, Leave
      <3>2. UNCHANGED <<code, registered, job, queue, files, process>>
        BY <2>2 DEF AddBlockMapping, AddTargets, memory
      <3>3. UNCHANGED <<tmp, published, loaded, mode, Queue>>
        BY <3>2 DEF queue, files, process
      <3>4. \A u \in Threads : u # t => block'[u] = block[u]
        BY <3>1 DEF FileInv, WorkOK
      <3> QED BY <3>1, <3>2, <3>3, <3>4, FaithGoto, MainActor
    <2> QED BY <1>1, <2>1, <2>2, FaithCompile, FaithAppend DEF ThreadStep
  <1>2. ASSUME NEW a \in Actors, FlushStep(a) PROVE FaithInv'
    BY <1>2, FaithFlush
  <1>3. ASSUME NEW r \in RIPs, CodeStep(r) PROVE FaithInv'
    BY <1>3, FaithWritten
  <1>4. CASE MainStep
    BY <1>4, FaithMain
  <1>5. CASE NewProcess
    BY <1>5, FaithNewProcess
  <1>6. CASE UNCHANGED vars
    <2>1. UNCHANGED <<code, registered, pc, block, job, Queue, tmp, published, mode, loaded>>
      BY <1>6 DEF vars, memory, control, queue, files, process
    <2> QED BY <2>1 DEF FaithInv, Captures, Writes
  <1> QED BY <1>1, <1>2, <1>3, <1>4, <1>5, <1>6 DEF Next, CodeStep

LEMMA FaithAlways ==
    ASSUME "both" \notin Modes, ~RemapsAnytime
    PROVE  Spec => [](FlushInv /\ FileInv /\ FaithInv)
  BY FlushInit, FlushNext, FilesInit, FilesNext, FaithInit, FaithNext, PTL DEF Spec

\* The IR of every record, in the queue and in either file, was made from the
\* code its hash is of: no guest write comes between the two.  A process that
\* captures does not load, and no mapping replaces code while it is compiled.
THEOREM RecordsFaithfulAlways ==
    ASSUME "both" \notin Modes, ~RemapsAnytime
    PROVE  Spec => []RecordsFaithful
  <1>1. FaithInv => RecordsFaithful
    BY DEF FaithInv, RecordsFaithful, Faithful
  <1> QED BY <1>1, FaithAlways, PTL

\* What a thread is given to compile is the IR of the code that is there now,
\* also when it is taken from a file that another process has written for
\* another version of the guest program.  The hypotheses are those under which
\* the records are faithful.
THEOREM FetchesCurrentAlways ==
    ASSUME "both" \notin Modes, ~RemapsAnytime
    PROVE  Spec => FetchesCurrent
  <1> DEFINE Fetch == \A t \in Threads : pc[t] = "idle" /\ pc'[t] = "compiled" => block'[t].ir = code[block'[t].rip]
  <1>1. FlushInv /\ FileInv /\ FaithInv /\ [Next]_vars => [Fetch]_vars
    <2> SUFFICES ASSUME FlushInv, FileInv, FaithInv, [Next]_vars,
                        NEW t \in Threads, pc[t] = "idle", pc'[t] = "compiled"
                 PROVE  block'[t].ir = code[block'[t].rip]
      OBVIOUS
    <2>1. ASSUME NEW a \in Actors, NEW l, Goto(a, l), l # "compiled" PROVE FALSE
      <3>1. pc' = [pc EXCEPT ![a] = l] /\ pc \in [Actors -> Labels]
        BY <2>1 DEF Goto, FlushInv, Placed
      <3> QED BY <2>1, <3>1, MainActor
    <2>2. ASSUME NEW u \in Threads, PostCompileCode(u) \/ TryFlush(u) \/ AddBlockMapping(u) \/ AddTargets(u)
          PROVE  FALSE
      <3>1. \E l \in {"cas", "map", "flush", "idle"} : Goto(u, l)
        BY <2>2 DEF PostCompileCode, TryFlush, AddBlockMapping, AddTargets, Leave
      <3> QED BY <2>1, <3>1, MainActor
    <2>3. ASSUME NEW a \in Actors, FlushStep(a) PROVE FALSE
      <3>1. \E l \in {"pop", "write", "writelast", "recheck", "index", "map"} : Goto(a, l)
        BY <2>3 DEF FlushStep, FlushStart, Pop, WriteEntry, Recheck, AfterFlush
      <3> QED BY <2>1, <3>1
    <2>4. CASE MainStep
      <3>1. CASE Exit
        BY <3>1, MainActor DEF Exit
      <3>2. CASE WriteIndex \/ Rename
        <4>1. \E l \in {"rename", "ended"} : Goto(Main, l)
          BY <3>2 DEF WriteIndex, Rename
        <4> QED BY <2>1, <4>1, MainActor
      <3> QED BY <2>4, <3>1, <3>2 DEF MainStep
    <2>5. ASSUME UNCHANGED pc PROVE FALSE
      BY <2>5
    <2>6. CASE NewProcess
      BY <2>6, MainActor DEF NewProcess, Volatile
    <2>7. ASSUME NEW r \in RIPs, CodeStep(r) PROVE FALSE
      BY <2>5, <2>7 DEF CodeStep, GuestWrite, GuestRemap, TrackRemap, control
    <2>8. CASE UNCHANGED vars
      BY <2>5, <2>8 DEF vars, control
    <2>9. ASSUME NEW u \in Threads, NEW r \in RIPs, PreGenerateIRFetch(u, r) \/ GenerateIR(u, r)
          PROVE  block'[t].ir = code[block'[t].rip]
      <3>1. \E l : Goto(u, l)
        BY <2>9 DEF PreGenerateIRFetch, GenerateIR
      <3>2. u = t
        BY <3>1, MainActor DEF Goto, FlushInv, Placed
      <3>3. CASE GenerateIR(u, r)
        <4>1. block' = [block EXCEPT ![t] = [rip |-> r, ir |-> code[r]]]
          BY <3>2, <3>3 DEF GenerateIR
        <4>2. block'[t] = [rip |-> r, ir |-> code[r]]
          BY <4>1 DEF FileInv, WorkOK
        <4> QED BY <4>2
      <3>4. CASE PreGenerateIRFetch(u, r)
        <4> DEFINE e == Find(loaded, r)
        <4>1. e # None /\ e.hash = code[r] /\ block' = [block EXCEPT ![t] = [rip |-> r, ir |-> e.ir]]
          BY <3>2, <3>4 DEF PreGenerateIRFetch, Hit
        <4>2. PICK j \in DOMAIN loaded.recs : e = loaded.recs[j]
          BY <4>1, FindRecord DEF FileInv, PublishedOK
        <4> HIDE DEF e
        <4>3. e.hash = e.ir
          BY <4>2 DEF FaithInv, Faithful
        <4>4. block'[t] = [rip |-> r, ir |-> e.ir]
          BY <4>1 DEF FileInv, WorkOK
        <4>5. block'[t].rip = r /\ block'[t].ir = e.ir
          BY <4>4
        <4>6. e.hash = code[r]
          BY <4>1
        <4> QED BY <4>3, <4>5, <4>6
      <3> QED BY <2>9, <3>3, <3>4
    <2> QED BY <2>2, <2>3, <2>4, <2>6, <2>7, <2>8, <2>9 DEF Next, ThreadStep, CodeStep
  <1> QED BY <1>1, FaithAlways, PTL DEF Spec, FetchesCurrent
=============================================================================
