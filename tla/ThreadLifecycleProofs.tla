------------------------ MODULE ThreadLifecycleProofs ------------------------
(***************************************************************************)
(* Theorems about ThreadLifecycle, for any number of threads, when         *)
(* commands and system calls do not overlap and the program is past its    *)
(* first clone (Orderly). A command then starts with every thread waiting  *)
(* to start, running or asleep, and the invariant says what each thread    *)
(* can do until the command is over. A notification may still be lost.     *)
(***************************************************************************)
EXTENDS ThreadLifecycle, FiniteSetTheorems, TLAPS

-----------------------------------------------------------------------------
(* The inductive invariant *)

StopPlaces == {"stop", "stop_signal", "stop_early"}
PausePlaces == {"pause", "pause_signal", "wait_idle"}
RunPlaces == {"run", "count", "wait_run"}
Left == Leaving \cup {"leave_notify", "destroy", "wait_exit", "gone"}

\* The types, with pc and resume as functions: a thread is interrupted by a
\* pause only while it runs guest code.
TypeInv ==
    /\ IdleWaitRefCount \in 0 .. COUNT_RANGE - 1
    /\ CoreRunning \in BOOLEAN /\ NeedToCheckXID = FALSE
    /\ Listed \subseteq Threads /\ prepared \subseteq Threads
    /\ CreationOwner \in Actors \cup {NoThread}
    /\ tested \cup waiters \subseteq {Gdb, Parent} /\ tested \cap waiters = {}
    /\ missed \subseteq tested \cup waiters
    /\ Running \in [Threads -> BOOLEAN] /\ WaitingToStart \in [Threads -> BOOLEAN]
    /\ EarlyExit \in [Threads -> BOOLEAN] /\ ThreadSleeping \in [Threads -> BOOLEAN]
    /\ StartRunning \in [Threads -> BOOLEAN]
    /\ pending \in [Threads -> Nat]
    /\ SignalReason \in [Threads -> {"Nothing", "Pause", "Stop", "Return"}]
    /\ pc \in [Actors -> ThreadPlaces \cup GdbPlaces]
    /\ resume \in [Threads -> {<<>>, <<"guest">>}]
    /\ todo \in [Actors -> SUBSET Threads]
    /\ current \in [Actors -> Threads \cup {NoThread}]

\* No thread is lost.
PlaceInv == pc[Gdb] \in GdbPlaces /\ \A t \in Threads : pc[t] \in ThreadPlaces \ {"lost"}

\* Thread t waits for StartRunning, or runs and has not been sent a signal.
Still(t) == pc[t] \in {"waiting", "guest", "asleep"} /\ pending[t] = 0 /\ ~StartRunning[t]

\* A signal is sent to a thread that runs or sleeps, and only one at a time;
\* StartRunning is signaled only for a thread that waits for it.
SignalInv(t) ==
    /\ pending[t] \in {0, 1}
    /\ pending[t] = 1 => \/ SignalReason[t] = "Stop" /\ pc[t] \in {"guest", "asleep", "exited"}
                         \/ SignalReason[t] = "Pause" /\ pc[t] = "guest" /\ pc[Gdb] \in PausePlaces
    /\ StartRunning[t] => pc[t] \in {"waiting", "asleep"} /\ pending[t] = 0

\* The flags of a thread agree with where it is.
FlagInv(t) ==
    /\ pc[t] \in {"asleep", "wake", "wake_flag"} => ThreadSleeping[t]
    /\ ThreadSleeping[t] => pc[t] \in {"asleep", "wake", "wake_flag"} \cup Left
    /\ Running[t] => pc[t] \notin {"absent", "enter"} \cup Starting
    /\ WaitingToStart[t] => pc[t] \in {"absent", "enter", "waiting", "check", "begin"} \cup Left
    /\ resume[t] = IF pc[t] \in Sleeping \cup Waking THEN <<"guest">> ELSE <<>>

\* Every thread there is is listed, and one that is listed early is being created.
ListInv(t) ==
    /\ pc[t] \notin {"absent", "gone"} => t \in Listed
    /\ t \in Listed /\ pc[t] = "absent" => \E u \in Threads : pc[u] = "create" /\ current[u] = t
    /\ t \in Listed /\ pc[t] = "gone" => t = Parent
    /\ pc[t] = "destroy" => t # Parent
    /\ pc[t] = "wait_exit" => t = Parent

\* Nobody else starts a thread that is being created.
CloneInv(t) ==
    pc[t] \in Cloning =>
          /\ current[t] \in Listed \ {t}
          /\ pc[t] = "create" => pc[current[t]] = "absent"
          /\ pc[t] = "wait_child" => pc[current[t]] \in {"enter", "waiting"}
          /\ pc[t] \in {"set_up", "release"} => pc[current[t]] = "waiting"
          /\ pc[t] = "release" => current[t] \in prepared
          /\ ~StartRunning[current[t]]
          /\ \A u \in Threads : pc[u] \in Cloning /\ current[u] = current[t] => u = t

\* A thread that is not set up waits for the one that creates it.
PreparedInv(t) ==
    t \notin prepared =>
          /\ pc[t] \in {"absent", "enter", "waiting"} /\ ~StartRunning[t]
          /\ pc[t] # "absent" => \E u \in Threads : pc[u] \in {"wait_child", "set_up"} /\ current[u] = t

\* Stop holds the mutex, and the threads it has yet to visit have not been told.
StopInv(a) ==
    pc[a] \in StopPlaces =>
        /\ CreationOwner = a
        /\ \A t \in Threads : pc[t] \notin Cloning
        /\ \A t \in todo[a] : t # a /\ Still(t)
        /\ pc[a] # "stop" => current[a] \in Threads \ (todo[a] \cup {a})
        /\ pc[a] = "stop_signal" => Still(current[a]) /\ pc[current[a]] # "waiting"
        /\ pc[a] = "stop_early" /\ WaitingToStart[current[a]] => Still(current[a])

\* During a pause threads only go to sleep, each on the signal of its visit.
PauseInv ==
    /\ pc[Gdb] \in PausePlaces =>
          \A t \in Threads :
             /\ pc[t] \in {"waiting", "guest", "sleep", "sleep_notify", "sleep_flag", "asleep", "absent", "gone"}
             /\ ~StartRunning[t]
             /\ pending[t] = 1 => SignalReason[t] = "Pause"
    /\ pc[Gdb] \in {"pause", "pause_signal"} =>
          /\ CreationOwner = Gdb
          /\ \A t \in todo[Gdb] : pc[t] \in {"waiting", "guest"} /\ pending[t] = 0
    /\ pc[Gdb] = "pause_signal" =>
          /\ current[Gdb] \in Threads \ todo[Gdb] /\ SignalReason[current[Gdb]] = "Pause"
          /\ pc[current[Gdb]] \in {"waiting", "guest"} /\ pending[current[Gdb]] = 0

\* During a continue no thread goes to sleep, and those asleep are let go.
RunInv ==
    /\ pc[Gdb] = "run" => /\ CreationOwner = Gdb
                          /\ \A t \in todo[Gdb] : Still(t) /\ pc[t] # "guest"
    /\ pc[Gdb] \in RunPlaces \/ (pc[Gdb] = "idle" /\ CoreRunning) =>
          \A t \in Threads :
             /\ pc[t] \notin {"sleep", "sleep_notify", "sleep_flag"}
             /\ pc[t] = "asleep" => StartRunning[t] \/ (pc[Gdb] = "run" /\ t \in todo[Gdb])

\* The guest does nothing while a command is under way, ...
BusyInv == pc[Gdb] # "idle" => \A t \in Threads : pc[t] \notin Cloning \cup Stopping

\* ... after a pause, and once the program has ended.
QuietInv ==
    /\ pc[Gdb] = "idle" /\ ~CoreRunning /\ ~Ended =>
          \A t \in Threads :
             /\ pc[t] \in {"absent", "enter", "waiting", "sleep_notify", "sleep_flag", "asleep", "gone"}
             /\ ~StartRunning[t] /\ pending[t] = 0
    /\ Ended => \A t \in Threads : ~Counted(t)

\* Commands and system calls do not overlap, and the first clone is over.
Orderly == Overlaps = {} /\ ~FirstClone

IInv ==
    /\ TypeInv /\ PlaceInv
    /\ \A t \in Threads : SignalInv(t) /\ FlagInv(t) /\ ListInv(t)
                            /\ CloneInv(t) /\ PreparedInv(t)
    /\ \A a \in Actors : StopInv(a)
    /\ PauseInv /\ RunInv /\ BusyInv /\ QuietInv
    /\ CountExact

-----------------------------------------------------------------------------
(* The idle counter *)

CountedThreads == {t \in Threads : Counted(t)}

LEMMA CountedFinite ==
    /\ IsFiniteSet(CountedThreads) /\ Cardinality(CountedThreads) \in Nat
    /\ Cardinality(CountedThreads) =< Cardinality(Threads)
    /\ Cardinality(Threads) \in Nat
  <1>1. CountedThreads \subseteq Threads
    BY DEF CountedThreads
  <1> QED BY <1>1, ThreadAssumption, FS_Subset, FS_CardinalityType

\* An idle counter of zero means that no thread is counted.
LEMMA IdleMeansNone ==
    ASSUME CountExact, IdleWaitRefCount = 0
    PROVE  \A t \in Threads : ~Counted(t)
  <1>1. Cardinality(CountedThreads) = 0
    BY DEF CountExact, CountedThreads
  <1>2. CountedThreads = {}
    BY <1>1, CountedFinite, FS_EmptySet
  <1> QED BY <1>2 DEF CountedThreads

LEMMA CountStays ==
    ASSUME CountExact, IdleWaitRefCount' = IdleWaitRefCount,
           \A t \in Threads : Counted(t)' <=> Counted(t)
    PROVE  CountExact'
  <1>1. {t \in Threads : Counted(t)'} = {t \in Threads : Counted(t)}
    OBVIOUS
  <1> QED BY <1>1 DEF CountExact

\* A thread that comes onto the counter, ...
LEMMA CountRises ==
    ASSUME CountExact, NEW t \in Threads, ~Counted(t), Counted(t)', Count(1),
           \A u \in Threads \ {t} : Counted(u)' <=> Counted(u)
    PROVE  CountExact'
  <1> DEFINE Now == {u \in Threads : Counted(u)'}
  <1>1. Now = CountedThreads \cup {t} /\ t \notin CountedThreads
    BY DEF CountedThreads
  <1>2. Cardinality(Now) = Cardinality(CountedThreads) + 1
    BY <1>1, CountedFinite, FS_AddElement
  <1>3. Now \subseteq Threads
    OBVIOUS
  <1>4. Cardinality(Now) =< Cardinality(Threads)
    BY <1>3, ThreadAssumption, FS_Subset
  <1>5. IdleWaitRefCount = Cardinality(CountedThreads)
    BY DEF CountExact, CountedThreads
  <1>6. IdleWaitRefCount + 1 \in 0 .. COUNT_RANGE - 1
    BY <1>2, <1>4, <1>5, CountedFinite, CountAssumption
  <1>7. IdleWaitRefCount' = IdleWaitRefCount + 1
    BY <1>6, CountAssumption DEF Count
  <1>8. IdleWaitRefCount' = Cardinality(Now)
    BY <1>2, <1>5, <1>7
  <1> QED BY <1>8 DEF CountExact

\* ... and one that goes off it.
LEMMA CountFalls ==
    ASSUME CountExact, NEW t \in Threads, Counted(t), ~Counted(t)', Count(-1),
           \A u \in Threads \ {t} : Counted(u)' <=> Counted(u)
    PROVE  CountExact'
  <1> DEFINE Now == {u \in Threads : Counted(u)'}
  <1>1. Now = CountedThreads \ {t} /\ t \in CountedThreads
    BY DEF CountedThreads
  <1>2. Cardinality(Now) = Cardinality(CountedThreads) - 1
    BY <1>1, CountedFinite, FS_RemoveElement
  <1>3. IdleWaitRefCount = Cardinality(CountedThreads)
    BY DEF CountExact, CountedThreads
  <1>4. IsFiniteSet(Now)
    BY <1>1, CountedFinite, FS_RemoveElement
  <1>5. Cardinality(Now) \in Nat
    BY <1>4, FS_CardinalityType
  <1>6. IdleWaitRefCount - 1 \in 0 .. COUNT_RANGE - 1
    BY <1>2, <1>3, <1>5, CountedFinite, CountAssumption
  <1>7. IdleWaitRefCount' = IdleWaitRefCount - 1
    BY <1>3, <1>6, CountedFinite, CountAssumption DEF Count
  <1>8. IdleWaitRefCount' = Cardinality(Now)
    BY <1>2, <1>3, <1>7
  <1> QED BY <1>8 DEF CountExact

\* A step of a that creates no thread and lets none start: what CloneInv and
\* PreparedInv say is left alone.
CloningKept(a) ==
    /\ pc[a] \notin Cloning \cup {"absent", "enter"} /\ pc'[a] \notin Cloning
    /\ pc[a] = "waiting" => StartRunning[a]
    /\ \A u \in Threads \ {a} : pc'[u] = pc[u] /\ current'[u] = current[u]
    /\ \A u \in Threads : StartRunning'[u] => StartRunning[u]
    /\ Listed \ {a} \subseteq Listed' /\ prepared' = prepared

LEMMA CloneFrame ==
    ASSUME IInv, NEW a \in Actors, CloningKept(a), NEW t \in Threads
    PROVE  CloneInv(t)' /\ PreparedInv(t)'
  <1>1. \A u \in Threads : pc'[u] \in Cloning =>
            pc[u] \in Cloning /\ u # a /\ pc'[u] = pc[u] /\ current'[u] = current[u]
    BY DEF CloningKept
  <1>2. ASSUME NEW u \in Threads, pc[u] \in Cloning PROVE current[u] # a /\ u # a /\ current[u] \in Threads
    <2>1. CloneInv(u)
      BY DEF IInv
    <2>2. pc[current[u]] \in {"absent", "enter", "waiting"} /\ ~StartRunning[current[u]] /\ current[u] \in Listed
      BY <1>2, <2>1 DEF CloneInv, Cloning
    <2> QED BY <1>2, <2>2 DEF CloningKept, IInv, TypeInv, Cloning
  <1>3. CloneInv(t)'
    <2>1. SUFFICES ASSUME pc'[t] \in Cloning PROVE CloneInv(t)'
      BY DEF CloneInv
    <2>2. pc[t] \in Cloning /\ pc'[t] = pc[t] /\ current'[t] = current[t]
      BY <1>1, <2>1
    <2>3. CloneInv(t)
      BY DEF IInv
    <2>4. current[t] \in Threads \ {a}
      BY <1>2, <2>2
    <2>5. pc'[current[t]] = pc[current[t]] /\ (StartRunning'[current[t]] => StartRunning[current[t]])
      BY <2>4 DEF CloningKept
    <2>6. \A u \in Threads : pc'[u] \in Cloning /\ current'[u] = current[t] => u = t
      BY <1>1, <2>2, <2>3 DEF CloneInv
    <2>7. current[t] \in Listed' /\ (current[t] \in prepared => current[t] \in prepared')
      BY <2>2, <2>3, <2>4 DEF CloneInv, CloningKept
    <2> QED BY <2>2, <2>3, <2>5, <2>6, <2>7 DEF CloneInv
  <1>4. PreparedInv(t)'
    <2>1. SUFFICES ASSUME t \notin prepared' PROVE PreparedInv(t)'
      BY DEF PreparedInv
    <2>2. PreparedInv(t) /\ t \notin prepared
      BY <2>1 DEF IInv, CloningKept
    <2>3. pc[t] \in {"absent", "enter", "waiting"} /\ ~StartRunning[t]
      BY <2>2 DEF PreparedInv
    <2>4. t # a /\ pc'[t] = pc[t] /\ ~StartRunning'[t]
      BY <2>3 DEF CloningKept
    <2>5. ASSUME pc[t] # "absent"
          PROVE  \E u \in Threads : pc'[u] \in {"wait_child", "set_up"} /\ current'[u] = t
      <3>1. PICK u \in Threads : pc[u] \in {"wait_child", "set_up"} /\ current[u] = t
        BY <2>2, <2>5 DEF PreparedInv
      <3>2. u # a
        BY <3>1 DEF CloningKept, Cloning
      <3>3. pc'[u] = pc[u] /\ current'[u] = current[u]
        BY <3>2 DEF CloningKept
      <3> QED BY <3>1, <3>3
    <2> QED BY <2>3, <2>4, <2>5 DEF PreparedInv
  <1> QED BY <1>3, <1>4

\* When nothing is under way, every listed thread waits for StartRunning or
\* runs, and has not been told anything.
LEMMA SettledStill ==
    ASSUME IInv, ~Ended, \A v \in Threads : Settled(v)
    PROVE  /\ \A v \in Threads : ~StartRunning[v] /\ pending[v] = 0
           /\ \A v \in Listed : Still(v)
  <1>1. \A v \in Threads : ~StartRunning[v] /\ pending[v] = 0
    BY DEF IInv, SignalInv, Settled
  <1>2. ASSUME NEW v \in Listed PROVE Still(v)
    <2>1. v \in Threads /\ ListInv(v)
      BY DEF IInv, TypeInv
    <2>2. pc[v] # "absent"
      BY <2>1 DEF ListInv, Settled
    <2>3. pc[v] # "gone"
      BY <2>1 DEF ListInv, Ended
    <2> QED BY <1>1, <2>1, <2>2, <2>3 DEF Settled, Still
  <1> QED BY <1>1, <1>2

LEMMA StopStarts ==
    ASSUME IInv, ~Ended, \A v \in Threads : Settled(v), NEW a \in Actors, StopStart(a),
           pc[Gdb] = "idle", NEW u \in Actors
    PROVE  StopInv(u)'
  <1>1. TypeInv
    BY DEF IInv
  <1>2. \A v \in Threads : pc[v] \notin Cloning \cup StopPlaces
    BY DEF Settled, Cloning, StopPlaces
  <1>3. CASE u = a
    <2>1. /\ pc'[a] = "stop" /\ CreationOwner' = a
          /\ todo'[a] = Listed \ {a} /\ \A v \in Threads \ {a} : pc'[v] = pc[v]
      BY <1>1 DEF TypeInv, StopStart, Lock, Goto
    <2>2. \A v \in Threads : pc'[v] \notin Cloning
      BY <1>2, <2>1 DEF Cloning
    <2>3. \A v \in todo'[a] : v # a /\ Still(v)'
      BY <1>1, <2>1, SettledStill DEF TypeInv, Still, StopStart, signalVars
    <2> QED BY <1>3, <2>1, <2>2, <2>3 DEF StopInv
  <1>4. CASE u # a
    <2>1. pc'[u] = pc[u] /\ pc[u] \notin StopPlaces
      BY <1>1, <1>2, <1>4 DEF TypeInv, StopStart, Goto, Actors, StopPlaces
    <2> QED BY <2>1 DEF StopInv
  <1> QED BY <1>3, <1>4

-----------------------------------------------------------------------------
(* What some steps come to, under the invariant *)

\* The signal takes the thread out of guest code, or out of its sleep, ...
StopTaken(t) ==
    /\ SignalReason[t] = "Stop" /\ pc[t] \in {"guest", "asleep", "exited"}
    /\ pc' = [pc EXCEPT ![t] = "leave"]
    /\ resume' = [resume EXCEPT ![t] = <<>>]
    /\ IF pc[t] = "asleep" THEN Count(1) ELSE UNCHANGED IdleWaitRefCount

\* ... or puts it to sleep.
PauseTaken(t) ==
    /\ SignalReason[t] = "Pause" /\ pc[t] = "guest" /\ pc[Gdb] \in PausePlaces
    /\ pc' = [pc EXCEPT ![t] = "sleep"]
    /\ resume' = [resume EXCEPT ![t] = <<"guest">>]
    /\ UNCHANGED IdleWaitRefCount

SignalTaken(t) ==
    /\ pending[t] = 1
    /\ pending' = [pending EXCEPT ![t] = 0]
    /\ SignalReason' = [SignalReason EXCEPT ![t] = "Nothing"]
    /\ UNCHANGED <<tested, waiters, missed, eventVars, listVars, loopVars, CoreRunning, StartRunning>>

LEMMA SignalIsTaken ==
    ASSUME NEW t \in Threads, IInv, HandleSignalPause(t)
    PROVE  SignalTaken(t) /\ (StopTaken(t) \/ PauseTaken(t))
  <1>1. SignalInv(t) /\ FlagInv(t) /\ TypeInv
    BY DEF IInv
  <1>2. pending[t] = 1
    BY <1>1 DEF SignalInv, HandleSignalPause
  <1>3. SignalTaken(t)
    BY <1>1, <1>2 DEF HandleSignalPause, SignalTaken, TypeInv
  <1>4. CASE SignalReason[t] = "Stop"
    <2>1. pc[t] \in {"guest", "asleep", "exited"}
      BY <1>1, <1>2, <1>4 DEF SignalInv
    <2>2. HandleStop(t)
      BY <1>4 DEF HandleSignalPause
    <2>3. ThreadSleeping[t] <=> pc[t] = "asleep"
      BY <1>1, <2>1 DEF FlagInv, Left, Leaving, TypeInv
    <2>4. StopTaken(t)
      BY <1>4, <2>1, <2>2, <2>3 DEF StopTaken, HandleStop, Goto
    <2> QED BY <1>3, <2>4
  <1>5. CASE SignalReason[t] = "Pause"
    <2>1. pc[t] = "guest" /\ pc[Gdb] \in PausePlaces
      BY <1>1, <1>2, <1>5 DEF SignalInv
    <2>2. HandlePause(t)
      BY <1>5 DEF HandleSignalPause
    <2>3. resume[t] = <<>>
      BY <1>1, <2>1 DEF FlagInv, Sleeping, Waking
    <2>4. <<"guest">> \o <<>> = <<"guest">>
      OBVIOUS
    <2>5. resume' = [resume EXCEPT ![t] = <<"guest">>]
      BY <2>1, <2>2, <2>3, <2>4 DEF HandlePause
    <2>6. PauseTaken(t)
      BY <1>5, <2>1, <2>2, <2>5 DEF PauseTaken, HandlePause, Goto
    <2> QED BY <1>3, <2>6
  <1> QED BY <1>1, <1>2, <1>4, <1>5 DEF SignalInv

\* Every pause handler returns to guest code.
Returned(t) ==
    /\ pc[t] = "wake_return" /\ pc' = [pc EXCEPT ![t] = "guest"]
    /\ resume' = [resume EXCEPT ![t] = <<>>]
    /\ UNCHANGED <<idleVars, eventVars, signalVars, listVars, loopVars, CoreRunning, StartRunning>>

LEMMA PauseIsReturned ==
    ASSUME NEW t \in Threads, IInv, PauseReturn(t)
    PROVE  Returned(t)
  <1>1. resume[t] = <<"guest">>
    BY DEF IInv, FlagInv, PauseReturn, Sleeping, Waking
  <1>2. Head(<<"guest">>) = "guest" /\ Tail(<<"guest">>) = <<>>
    OBVIOUS
  <1> QED BY <1>1, <1>2 DEF PauseReturn, Returned, Goto

\* The host thread of the new thread c is created.
Initialized(t, c) ==
    /\ pc[t] = "create" /\ pc[c] = "absent" /\ current[t] = c /\ c # t
    /\ pc' = [u \in Actors |-> IF u = c THEN "enter" ELSE IF u = t THEN "wait_child" ELSE pc[u]]
    /\ UNCHANGED <<eventVars, idleVars, signalVars, listVars, loopVars, CoreRunning, StartRunning, resume>>

LEMMA ThreadIsInitialized ==
    ASSUME NEW t \in Threads, IInv, InitializeThread(t)
    PROVE  \E c \in Threads : Initialized(t, c)
  <1>1. CloneInv(t) /\ TypeInv
    BY DEF IInv
  <1>2. pc[t] = "create"
    BY DEF InitializeThread
  <1>3. current[t] \in Threads /\ current[t] # t /\ pc[current[t]] = "absent"
    BY <1>1, <1>2 DEF CloneInv, Cloning, TypeInv
  <1>4. pc' = [u \in Actors |-> IF u = current[t] THEN "enter" ELSE IF u = t THEN "wait_child" ELSE pc[u]]
    BY <1>1, <1>3 DEF InitializeThread, TypeInv, Actors
  <1>5. Initialized(t, current[t])
    BY <1>2, <1>3, <1>4 DEF Initialized, InitializeThread
  <1> QED BY <1>3, <1>5

\* The wait of a is over; all but WaitForThreadsToRun find every thread idle.
WaitOver(a, from, to, run) ==
    /\ pc[a] = from /\ pc' = [pc EXCEPT ![a] = to]
    /\ CoreRunning' = run
    /\ run \/ \A t \in Threads : ~Counted(t)
    /\ todo' = [todo EXCEPT ![a] = {}]
    /\ current' = [current EXCEPT ![a] = NoThread]
    /\ UNCHANGED <<eventVars, idleVars, signalVars, listVars, StartRunning, resume>>

LEMMA WaitIsOver ==
    ASSUME NEW a \in Actors, IInv, WaitDone(a)
    PROVE  \/ a = Gdb /\ WaitOver(Gdb, "wait_idle", "idle", FALSE)
           \/ a = Gdb /\ WaitOver(Gdb, "wait_run", "idle", TRUE)
           \/ a = Gdb /\ WaitOver(Gdb, "wait_kill", "done", FALSE)
           \/ a = Parent /\ WaitOver(Parent, "wait_exit", "gone", FALSE)
  <1> DEFINE Common == /\ todo' = [todo EXCEPT ![a] = {}]
                       /\ current' = [current EXCEPT ![a] = NoThread]
                       /\ UNCHANGED <<eventVars, idleVars, signalVars, listVars, StartRunning, resume>>
  <1>1. Common /\ pc' = [pc EXCEPT ![a] = AfterWait(pc[a])] /\ CoreRunning' = (pc[a] = "wait_run")
        /\ pc[a] \in {"wait_idle", "wait_run", "wait_kill", "wait_exit"}
    BY DEF WaitDone, Goto, InWait
  <1>2. pc[a] \in {"wait_idle", "wait_run", "wait_kill"} => a = Gdb
    BY DEF IInv, PlaceInv, Actors, ThreadPlaces, Starting, InGuest, Cloning, Stopping, Sleeping, Waking, Leaving
  <1>3. pc[a] = "wait_exit" => a = Parent
    BY DEF IInv, PlaceInv, GdbPlaces, ListInv, Actors
  <1>4. pc[a] # "wait_run" => \A t \in Threads : ~Counted(t)
    <2>1. SUFFICES ASSUME pc[a] # "wait_run" PROVE \A t \in Threads : ~Counted(t)
      OBVIOUS
    <2>2. IdleWaitRefCount = 0
      BY <2>1 DEF WaitDone, Idle
    <2> QED BY <2>2, IdleMeansNone DEF IInv
  <1> HIDE DEF Common
  <1>5. CASE pc[a] = "wait_idle"
    BY <1>1, <1>2, <1>4, <1>5 DEF WaitOver, AfterWait, Common
  <1>6. CASE pc[a] = "wait_run"
    BY <1>1, <1>2, <1>6 DEF WaitOver, AfterWait, Common
  <1>7. CASE pc[a] = "wait_kill"
    BY <1>1, <1>2, <1>4, <1>7 DEF WaitOver, AfterWait, Common
  <1>8. CASE pc[a] = "wait_exit"
    BY <1>1, <1>3, <1>4, <1>8 DEF WaitOver, AfterWait, Common
  <1> QED BY <1>1, <1>5, <1>6, <1>7, <1>8

-----------------------------------------------------------------------------
(* Every step keeps the invariant *)

USE DEF Goto, eventVars, idleVars, signalVars, listVars, loopVars
USE DEF StopPlaces, PausePlaces, RunPlaces, Left
USE DEF Starting, Cloning, Stopping, Sleeping, Waking, Leaving, InGuest

-----------------------------------------------------------------------------
(* ExecutionThread *)

LEMMA EnterStep ==
    ASSUME NEW t \in Threads, IInv, ~Ended, Enter(t)
    PROVE  IInv'
  <1>1. TypeInv' /\ PlaceInv'
    BY ThreadAssumption, CountAssumption
       DEF IInv, TypeInv, PlaceInv, Enter, Count, Actors, ThreadPlaces, GdbPlaces
  <1>2. ASSUME NEW u \in Threads PROVE  SignalInv(u)' /\ FlagInv(u)' /\ ListInv(u)'
    BY ThreadAssumption DEF IInv, SignalInv, FlagInv, ListInv, TypeInv, Enter, Count, Actors
  <1>3. ASSUME NEW u \in Threads PROVE  CloneInv(u)' /\ PreparedInv(u)'
    BY ThreadAssumption DEF IInv, CloneInv, PreparedInv, SignalInv, TypeInv, Enter, Count, Actors
  <1>4. ASSUME NEW u \in Actors PROVE  StopInv(u)'
    BY ThreadAssumption DEF IInv, StopInv, TypeInv, Enter, Count, Still, Actors
  <1>5. PauseInv' /\ RunInv'
    BY ThreadAssumption DEF IInv, PauseInv, RunInv, TypeInv, Enter, Count, Still, Actors
  <1>6. BusyInv' /\ QuietInv'
    BY ThreadAssumption DEF IInv, BusyInv, QuietInv, TypeInv, Enter, Count, Ended, Counted, Actors
  <1>7. CountExact'
    <2>1. ~Counted(t) /\ Counted(t)' /\ \A u \in Threads \ {t} : Counted(u)' <=> Counted(u)
      BY ThreadAssumption DEF IInv, TypeInv, Actors, Enter, Counted
    <2> QED BY <2>1, CountRises DEF IInv, Enter
  <1> QED BY <1>1, <1>2, <1>3, <1>4, <1>5, <1>6, <1>7 DEF IInv, Actors

LEMMA StartWaitStep ==
    ASSUME NEW t \in Threads, IInv, ~Ended, StartWait(t)
    PROVE  IInv'
  <1>1. TypeInv' /\ PlaceInv'
    BY ThreadAssumption DEF IInv, TypeInv, PlaceInv, StartWait, Actors, ThreadPlaces, GdbPlaces
  <1>2. ASSUME NEW u \in Threads PROVE  SignalInv(u)' /\ FlagInv(u)' /\ ListInv(u)'
    BY ThreadAssumption DEF IInv, SignalInv, FlagInv, ListInv, TypeInv, StartWait, Actors
  <1>3. ASSUME NEW u \in Threads PROVE  CloneInv(u)' /\ PreparedInv(u)'
    <2>1. CloningKept(t)
      BY ThreadAssumption DEF IInv, TypeInv, CloningKept, StartWait, Actors
    <2> QED BY <2>1, CloneFrame DEF Actors
  <1>4. ASSUME NEW u \in Actors PROVE  StopInv(u)'
    BY ThreadAssumption DEF IInv, StopInv, TypeInv, StartWait, Still, Actors
  <1>5. PauseInv' /\ RunInv'
    BY ThreadAssumption DEF IInv, PauseInv, RunInv, TypeInv, StartWait, Still, Actors
  <1>6. BusyInv' /\ QuietInv'
    BY ThreadAssumption DEF IInv, BusyInv, QuietInv, TypeInv, StartWait, Ended, Counted, Actors
  <1>7. CountExact'
    <2>1. \A u \in Threads : Counted(u)' <=> Counted(u)
      BY ThreadAssumption DEF IInv, TypeInv, Actors, StartWait, Counted
    <2>2. IdleWaitRefCount' = IdleWaitRefCount
      BY DEF StartWait
    <2> QED BY <2>1, <2>2, CountStays DEF IInv
  <1> QED BY <1>1, <1>2, <1>3, <1>4, <1>5, <1>6, <1>7 DEF IInv, Actors

LEMMA CheckEarlyExitStep ==
    ASSUME NEW t \in Threads, IInv, ~Ended, CheckEarlyExit(t)
    PROVE  IInv'
  <1>1. TypeInv' /\ PlaceInv'
    BY ThreadAssumption
       DEF IInv, TypeInv, PlaceInv, CheckEarlyExit, Actors, ThreadPlaces, GdbPlaces
  <1>2. ASSUME NEW u \in Threads PROVE  SignalInv(u)' /\ FlagInv(u)' /\ ListInv(u)'
    BY ThreadAssumption DEF IInv, SignalInv, FlagInv, ListInv, TypeInv, CheckEarlyExit, Actors
  <1>3. ASSUME NEW u \in Threads PROVE  CloneInv(u)' /\ PreparedInv(u)'
    <2>1. CloningKept(t)
      BY ThreadAssumption DEF IInv, TypeInv, CloningKept, CheckEarlyExit, Actors
    <2> QED BY <2>1, CloneFrame DEF Actors
  <1>4. ASSUME NEW u \in Actors PROVE  StopInv(u)'
    BY ThreadAssumption DEF IInv, StopInv, TypeInv, CheckEarlyExit, Still, Actors
  <1>5. PauseInv' /\ RunInv'
    BY ThreadAssumption DEF IInv, PauseInv, RunInv, TypeInv, CheckEarlyExit, Still, Actors
  <1>6. BusyInv' /\ QuietInv'
    BY ThreadAssumption
       DEF IInv, BusyInv, QuietInv, TypeInv, CheckEarlyExit, Ended, Counted, Actors
  <1>7. CountExact'
    <2>1. \A u \in Threads : Counted(u)' <=> Counted(u)
      BY ThreadAssumption DEF IInv, TypeInv, Actors, CheckEarlyExit, Counted
    <2>2. IdleWaitRefCount' = IdleWaitRefCount
      BY DEF CheckEarlyExit
    <2> QED BY <2>1, <2>2, CountStays DEF IInv
  <1> QED BY <1>1, <1>2, <1>3, <1>4, <1>5, <1>6, <1>7 DEF IInv, Actors

LEMMA BeginStep ==
    ASSUME NEW t \in Threads, IInv, ~Ended, Begin(t)
    PROVE  IInv'
  <1>1. TypeInv' /\ PlaceInv'
    BY ThreadAssumption DEF IInv, TypeInv, PlaceInv, Begin, Actors, ThreadPlaces, GdbPlaces
  <1>2. ASSUME NEW u \in Threads PROVE  SignalInv(u)' /\ FlagInv(u)' /\ ListInv(u)'
    BY ThreadAssumption DEF IInv, SignalInv, FlagInv, ListInv, TypeInv, Begin, Actors
  <1>3. ASSUME NEW u \in Threads PROVE  CloneInv(u)' /\ PreparedInv(u)'
    <2>1. CloningKept(t)
      BY ThreadAssumption DEF IInv, TypeInv, CloningKept, Begin, Actors
    <2> QED BY <2>1, CloneFrame DEF Actors
  <1>4. ASSUME NEW u \in Actors PROVE  StopInv(u)'
    BY ThreadAssumption DEF IInv, StopInv, TypeInv, Begin, Still, Actors
  <1>5. PauseInv' /\ RunInv'
    BY ThreadAssumption DEF IInv, PauseInv, RunInv, TypeInv, Begin, Still, Actors
  <1>6. BusyInv' /\ QuietInv'
    BY ThreadAssumption DEF IInv, BusyInv, QuietInv, TypeInv, Begin, Ended, Counted, Actors
  <1>7. CountExact'
    <2>1. \A u \in Threads : Counted(u)' <=> Counted(u)
      BY ThreadAssumption DEF IInv, TypeInv, Actors, Begin, Counted
    <2>2. IdleWaitRefCount' = IdleWaitRefCount
      BY DEF Begin
    <2> QED BY <2>1, <2>2, CountStays DEF IInv
  <1> QED BY <1>1, <1>2, <1>3, <1>4, <1>5, <1>6, <1>7 DEF IInv, Actors

LEMMA StartStep ==
    ASSUME NEW t \in Threads, IInv, ~Ended, Start(t)
    PROVE  IInv'
  <1>1. TypeInv' /\ PlaceInv'
    BY ThreadAssumption DEF IInv, TypeInv, PlaceInv, Start, Actors, ThreadPlaces, GdbPlaces
  <1>2. ASSUME NEW u \in Threads PROVE  SignalInv(u)' /\ FlagInv(u)' /\ ListInv(u)'
    BY ThreadAssumption DEF IInv, SignalInv, FlagInv, ListInv, TypeInv, Start, Actors
  <1>3. ASSUME NEW u \in Threads PROVE  CloneInv(u)' /\ PreparedInv(u)'
    <2>1. CloningKept(t)
      BY ThreadAssumption DEF IInv, TypeInv, CloningKept, Start, Actors
    <2> QED BY <2>1, CloneFrame DEF Actors
  <1>4. ASSUME NEW u \in Actors PROVE  StopInv(u)'
    BY ThreadAssumption DEF IInv, StopInv, TypeInv, Start, Still, Actors
  <1>5. PauseInv' /\ RunInv'
    BY ThreadAssumption DEF IInv, PauseInv, RunInv, TypeInv, Start, Still, Actors
  <1>6. BusyInv' /\ QuietInv'
    BY ThreadAssumption DEF IInv, BusyInv, QuietInv, TypeInv, Start, Ended, Counted, Actors
  <1>7. CountExact'
    <2>1. \A u \in Threads : Counted(u)' <=> Counted(u)
      BY ThreadAssumption DEF IInv, TypeInv, Actors, Start, Counted
    <2>2. IdleWaitRefCount' = IdleWaitRefCount
      BY DEF Start
    <2> QED BY <2>1, <2>2, CountStays DEF IInv
  <1> QED BY <1>1, <1>2, <1>3, <1>4, <1>5, <1>6, <1>7 DEF IInv, Actors

LEMMA LeaveStep ==
    ASSUME NEW t \in Threads, IInv, ~Ended, Leave(t)
    PROVE  IInv'
  <1>1. TypeInv' /\ PlaceInv'
    BY ThreadAssumption DEF IInv, TypeInv, PlaceInv, Leave, Actors, ThreadPlaces, GdbPlaces
  <1>2. ASSUME NEW u \in Threads PROVE  SignalInv(u)' /\ FlagInv(u)' /\ ListInv(u)'
    BY ThreadAssumption DEF IInv, SignalInv, FlagInv, ListInv, TypeInv, Leave, Actors
  <1>3. ASSUME NEW u \in Threads PROVE  CloneInv(u)' /\ PreparedInv(u)'
    <2>1. CloningKept(t)
      BY ThreadAssumption DEF IInv, TypeInv, CloningKept, Leave, Actors
    <2> QED BY <2>1, CloneFrame DEF Actors
  <1>4. ASSUME NEW u \in Actors PROVE  StopInv(u)'
    BY ThreadAssumption DEF IInv, StopInv, TypeInv, Leave, Still, Actors
  <1>5. PauseInv' /\ RunInv'
    BY ThreadAssumption DEF IInv, PauseInv, RunInv, TypeInv, Leave, Still, Actors
  <1>6. BusyInv' /\ QuietInv'
    BY ThreadAssumption DEF IInv, BusyInv, QuietInv, TypeInv, Leave, Ended, Counted, Actors
  <1>7. CountExact'
    <2>1. \A u \in Threads : Counted(u)' <=> Counted(u)
      BY ThreadAssumption DEF IInv, TypeInv, Actors, Leave, Counted
    <2>2. IdleWaitRefCount' = IdleWaitRefCount
      BY DEF Leave
    <2> QED BY <2>1, <2>2, CountStays DEF IInv
  <1> QED BY <1>1, <1>2, <1>3, <1>4, <1>5, <1>6, <1>7 DEF IInv, Actors

LEMMA LeaveCountStep ==
    ASSUME NEW t \in Threads, IInv, ~Ended, LeaveCount(t)
    PROVE  IInv'
  <1>1. TypeInv' /\ PlaceInv'
    BY ThreadAssumption, CountAssumption
       DEF IInv, TypeInv, PlaceInv, LeaveCount, Count, Actors, ThreadPlaces, GdbPlaces
  <1>2. ASSUME NEW u \in Threads PROVE  SignalInv(u)' /\ FlagInv(u)' /\ ListInv(u)'
    BY ThreadAssumption DEF IInv, SignalInv, FlagInv, ListInv, TypeInv, LeaveCount, Count, Actors
  <1>3. ASSUME NEW u \in Threads PROVE  CloneInv(u)' /\ PreparedInv(u)'
    <2>1. CloningKept(t)
      BY ThreadAssumption DEF IInv, TypeInv, CloningKept, LeaveCount, Actors
    <2> QED BY <2>1, CloneFrame DEF Actors
  <1>4. ASSUME NEW u \in Actors PROVE  StopInv(u)'
    BY ThreadAssumption DEF IInv, StopInv, TypeInv, LeaveCount, Count, Still, Actors
  <1>5. PauseInv' /\ RunInv'
    BY ThreadAssumption DEF IInv, PauseInv, RunInv, TypeInv, LeaveCount, Count, Still, Actors
  <1>6. BusyInv' /\ QuietInv'
    BY ThreadAssumption
       DEF IInv, BusyInv, QuietInv, TypeInv, LeaveCount, Count, Ended, Counted, Actors
  <1>7. CountExact'
    <2>1. Counted(t) /\ ~Counted(t)' /\ \A u \in Threads \ {t} : Counted(u)' <=> Counted(u)
      BY ThreadAssumption DEF IInv, TypeInv, Actors, LeaveCount, Counted
    <2> QED BY <2>1, CountFalls DEF IInv, LeaveCount
  <1> QED BY <1>1, <1>2, <1>3, <1>4, <1>5, <1>6, <1>7 DEF IInv, Actors

LEMMA LeaveNotifyStep ==
    ASSUME NEW t \in Threads, IInv, ~Ended, LeaveNotify(t)
    PROVE  IInv'
  <1>1. TypeInv' /\ PlaceInv'
    BY ThreadAssumption
       DEF IInv, TypeInv, PlaceInv, LeaveNotify, NotifyIdle, Actors, ThreadPlaces, GdbPlaces
  <1>2. ASSUME NEW u \in Threads PROVE  SignalInv(u)' /\ FlagInv(u)' /\ ListInv(u)'
    BY ThreadAssumption
       DEF IInv, SignalInv, FlagInv, ListInv, TypeInv, LeaveNotify, NotifyIdle, Actors
  <1>3. ASSUME NEW u \in Threads PROVE  CloneInv(u)' /\ PreparedInv(u)'
    <2>1. CloningKept(t)
      BY ThreadAssumption DEF IInv, TypeInv, CloningKept, LeaveNotify, NotifyIdle, Actors
    <2> QED BY <2>1, CloneFrame DEF Actors
  <1>4. ASSUME NEW u \in Actors PROVE  StopInv(u)'
    BY ThreadAssumption DEF IInv, StopInv, TypeInv, LeaveNotify, NotifyIdle, Still, Actors
  <1>5. PauseInv' /\ RunInv'
    BY ThreadAssumption
       DEF IInv, PauseInv, RunInv, TypeInv, LeaveNotify, NotifyIdle, Still, Actors
  <1>6. BusyInv' /\ QuietInv'
    BY ThreadAssumption
       DEF IInv, BusyInv, QuietInv, TypeInv, LeaveNotify, NotifyIdle, Ended, Counted, Actors
  <1>7. CountExact'
    <2>1. \A u \in Threads : Counted(u)' <=> Counted(u)
      BY ThreadAssumption DEF IInv, TypeInv, Actors, LeaveNotify, NotifyIdle, Counted
    <2>2. IdleWaitRefCount' = IdleWaitRefCount
      BY DEF LeaveNotify, NotifyIdle
    <2> QED BY <2>1, <2>2, CountStays DEF IInv
  <1> QED BY <1>1, <1>2, <1>3, <1>4, <1>5, <1>6, <1>7 DEF IInv, Actors

LEMMA DestroyThreadStep ==
    ASSUME NEW t \in Threads, IInv, ~Ended, DestroyThread(t)
    PROVE  IInv'
  <1>1. TypeInv' /\ PlaceInv'
    BY ThreadAssumption
       DEF IInv, TypeInv, PlaceInv, DestroyThread, Actors, ThreadPlaces, GdbPlaces
  <1>2. ASSUME NEW u \in Threads PROVE  SignalInv(u)' /\ FlagInv(u)' /\ ListInv(u)'
    BY ThreadAssumption DEF IInv, SignalInv, FlagInv, ListInv, TypeInv, DestroyThread, Actors
  <1>3. ASSUME NEW u \in Threads PROVE  CloneInv(u)' /\ PreparedInv(u)'
    <2>1. CloningKept(t)
      BY ThreadAssumption DEF IInv, TypeInv, CloningKept, DestroyThread, Actors
    <2> QED BY <2>1, CloneFrame DEF Actors
  <1>4. ASSUME NEW u \in Actors PROVE  StopInv(u)'
    BY ThreadAssumption DEF IInv, StopInv, TypeInv, DestroyThread, Still, Actors
  <1>5. PauseInv' /\ RunInv'
    BY ThreadAssumption DEF IInv, PauseInv, RunInv, TypeInv, DestroyThread, Still, Actors
  <1>6. BusyInv' /\ QuietInv'
    BY ThreadAssumption
       DEF IInv, BusyInv, QuietInv, ListInv, TypeInv, DestroyThread, Ended, Counted, Actors
  <1>7. CountExact'
    <2>1. \A u \in Threads : Counted(u)' <=> Counted(u)
      BY ThreadAssumption DEF IInv, TypeInv, Actors, DestroyThread, Counted
    <2>2. IdleWaitRefCount' = IdleWaitRefCount
      BY DEF DestroyThread
    <2> QED BY <2>1, <2>2, CountStays DEF IInv
  <1> QED BY <1>1, <1>2, <1>3, <1>4, <1>5, <1>6, <1>7 DEF IInv, Actors

-----------------------------------------------------------------------------
(* The pause signal *)

LEMMA StopTakenStep ==
    ASSUME NEW t \in Threads, IInv, ~Ended, SignalTaken(t), StopTaken(t)
    PROVE  IInv'
  <1>1. TypeInv' /\ PlaceInv'
    BY ThreadAssumption, CountAssumption
       DEF IInv, TypeInv, PlaceInv, StopTaken, SignalTaken, Count, Actors, ThreadPlaces, GdbPlaces
  <1>2. ASSUME NEW u \in Threads PROVE  SignalInv(u)' /\ FlagInv(u)' /\ ListInv(u)'
    BY ThreadAssumption
       DEF IInv, SignalInv, FlagInv, ListInv, TypeInv, StopTaken, SignalTaken, Count, Actors
  <1>3. ASSUME NEW u \in Threads PROVE  CloneInv(u)' /\ PreparedInv(u)'
    <2>1. CloningKept(t)
      BY ThreadAssumption DEF IInv, TypeInv, CloningKept, StopTaken, SignalTaken, Actors
    <2> QED BY <2>1, CloneFrame DEF Actors
  <1>4. ASSUME NEW u \in Actors PROVE  StopInv(u)'
    BY ThreadAssumption DEF IInv, StopInv, TypeInv, StopTaken, SignalTaken, Count, Still, Actors
  <1>5. PauseInv' /\ RunInv'
    BY ThreadAssumption
       DEF IInv, PauseInv, RunInv, TypeInv, StopTaken, SignalTaken, Count, Still, Actors
  <1>6. BusyInv' /\ QuietInv'
    BY ThreadAssumption
       DEF IInv, BusyInv, QuietInv, TypeInv, StopTaken, SignalTaken, Count, Ended, Counted, Actors
  <1>7. CountExact'
    <2>1. \A u \in Threads \ {t} : Counted(u)' <=> Counted(u)
      BY DEF IInv, TypeInv, StopTaken, Actors, Counted
    <2>2. Counted(t)'
      BY DEF IInv, TypeInv, StopTaken, Actors, Counted
    <2>3. CASE pc[t] = "asleep"
      <3>1. ~Counted(t) /\ Count(1)
        BY <2>3 DEF StopTaken, Counted
      <3> QED BY <2>1, <2>2, <3>1, CountRises DEF IInv
    <2>4. CASE pc[t] # "asleep"
      <3>1. Counted(t) /\ IdleWaitRefCount' = IdleWaitRefCount
        BY <2>4 DEF StopTaken, Counted
      <3>2. \A u \in Threads : Counted(u)' <=> Counted(u)
        BY <2>1, <2>2, <3>1
      <3> QED BY <3>1, <3>2, CountStays DEF IInv
    <2> QED BY <2>3, <2>4
  <1> QED BY <1>1, <1>2, <1>3, <1>4, <1>5, <1>6, <1>7 DEF IInv, Actors

LEMMA PauseTakenStep ==
    ASSUME NEW t \in Threads, IInv, ~Ended, SignalTaken(t), PauseTaken(t)
    PROVE  IInv'
  <1>1. TypeInv' /\ PlaceInv'
    BY ThreadAssumption
       DEF IInv, TypeInv, PlaceInv, PauseTaken, SignalTaken, Actors, ThreadPlaces, GdbPlaces
  <1>2. ASSUME NEW u \in Threads PROVE  SignalInv(u)' /\ FlagInv(u)' /\ ListInv(u)'
    BY ThreadAssumption
       DEF IInv, SignalInv, FlagInv, ListInv, TypeInv, PauseTaken, SignalTaken, Actors
  <1>3. ASSUME NEW u \in Threads PROVE  CloneInv(u)' /\ PreparedInv(u)'
    <2>1. CloningKept(t)
      BY ThreadAssumption DEF IInv, TypeInv, CloningKept, PauseTaken, SignalTaken, Actors
    <2> QED BY <2>1, CloneFrame DEF Actors
  <1>4. ASSUME NEW u \in Actors PROVE  StopInv(u)'
    <2>1. pc[u] \notin StopPlaces
      BY ThreadAssumption DEF IInv, BusyInv, PauseTaken, Actors
    <2>2. pc'[u] \notin StopPlaces
      BY <2>1 DEF IInv, TypeInv, PauseTaken
    <2> QED BY <2>2 DEF StopInv
  <1>5. PauseInv' /\ RunInv'
    BY ThreadAssumption
       DEF IInv, PauseInv, RunInv, TypeInv, PauseTaken, SignalTaken, Still, Actors
  <1>6. BusyInv' /\ QuietInv'
    BY ThreadAssumption
       DEF IInv, BusyInv, QuietInv, TypeInv, PauseTaken, SignalTaken, Ended, Counted, Actors
  <1>7. CountExact'
    <2>1. \A u \in Threads : Counted(u)' <=> Counted(u)
      BY ThreadAssumption DEF IInv, TypeInv, Actors, PauseTaken, SignalTaken, Counted
    <2>2. IdleWaitRefCount' = IdleWaitRefCount
      BY DEF PauseTaken, SignalTaken
    <2> QED BY <2>1, <2>2, CountStays DEF IInv
  <1> QED BY <1>1, <1>2, <1>3, <1>4, <1>5, <1>6, <1>7 DEF IInv, Actors

LEMMA SleepCountStep ==
    ASSUME NEW t \in Threads, IInv, ~Ended, SleepCount(t)
    PROVE  IInv'
  <1>1. TypeInv' /\ PlaceInv'
    BY ThreadAssumption, CountAssumption
       DEF IInv, TypeInv, PlaceInv, SleepCount, Count, Actors, ThreadPlaces, GdbPlaces
  <1>2. ASSUME NEW u \in Threads PROVE  SignalInv(u)' /\ FlagInv(u)' /\ ListInv(u)'
    BY ThreadAssumption DEF IInv, SignalInv, FlagInv, ListInv, TypeInv, SleepCount, Count, Actors
  <1>3. ASSUME NEW u \in Threads PROVE  CloneInv(u)' /\ PreparedInv(u)'
    <2>1. CloningKept(t)
      BY ThreadAssumption DEF IInv, TypeInv, CloningKept, SleepCount, Actors
    <2> QED BY <2>1, CloneFrame DEF Actors
  <1>4. ASSUME NEW u \in Actors PROVE  StopInv(u)'
    BY ThreadAssumption DEF IInv, StopInv, TypeInv, SleepCount, Count, Still, Actors
  <1>5. PauseInv' /\ RunInv'
    BY ThreadAssumption DEF IInv, PauseInv, RunInv, TypeInv, SleepCount, Count, Still, Actors
  <1>6. BusyInv' /\ QuietInv'
    BY ThreadAssumption
       DEF IInv, BusyInv, QuietInv, TypeInv, SleepCount, Count, Ended, Counted, Actors
  <1>7. CountExact'
    <2>1. Counted(t) /\ ~Counted(t)' /\ \A u \in Threads \ {t} : Counted(u)' <=> Counted(u)
      BY ThreadAssumption DEF IInv, TypeInv, Actors, SleepCount, Counted
    <2> QED BY <2>1, CountFalls DEF IInv, SleepCount
  <1> QED BY <1>1, <1>2, <1>3, <1>4, <1>5, <1>6, <1>7 DEF IInv, Actors

LEMMA SleepNotifyStep ==
    ASSUME NEW t \in Threads, IInv, ~Ended, SleepNotify(t)
    PROVE  IInv'
  <1>1. TypeInv' /\ PlaceInv'
    BY ThreadAssumption
       DEF IInv, TypeInv, PlaceInv, SleepNotify, NotifyIdle, Actors, ThreadPlaces, GdbPlaces
  <1>2. ASSUME NEW u \in Threads PROVE  SignalInv(u)' /\ FlagInv(u)' /\ ListInv(u)'
    BY ThreadAssumption
       DEF IInv, SignalInv, FlagInv, ListInv, TypeInv, SleepNotify, NotifyIdle, Actors
  <1>3. ASSUME NEW u \in Threads PROVE  CloneInv(u)' /\ PreparedInv(u)'
    <2>1. CloningKept(t)
      BY ThreadAssumption DEF IInv, TypeInv, CloningKept, SleepNotify, NotifyIdle, Actors
    <2> QED BY <2>1, CloneFrame DEF Actors
  <1>4. ASSUME NEW u \in Actors PROVE  StopInv(u)'
    BY ThreadAssumption DEF IInv, StopInv, TypeInv, SleepNotify, NotifyIdle, Still, Actors
  <1>5. PauseInv' /\ RunInv'
    BY ThreadAssumption
       DEF IInv, PauseInv, RunInv, TypeInv, SleepNotify, NotifyIdle, Still, Actors
  <1>6. BusyInv' /\ QuietInv'
    BY ThreadAssumption
       DEF IInv, BusyInv, QuietInv, TypeInv, SleepNotify, NotifyIdle, Ended, Counted, Actors
  <1>7. CountExact'
    <2>1. \A u \in Threads : Counted(u)' <=> Counted(u)
      BY ThreadAssumption DEF IInv, TypeInv, Actors, SleepNotify, NotifyIdle, Counted
    <2>2. IdleWaitRefCount' = IdleWaitRefCount
      BY DEF SleepNotify, NotifyIdle
    <2> QED BY <2>1, <2>2, CountStays DEF IInv
  <1> QED BY <1>1, <1>2, <1>3, <1>4, <1>5, <1>6, <1>7 DEF IInv, Actors

LEMMA SleepFlagStep ==
    ASSUME NEW t \in Threads, IInv, ~Ended, SleepFlag(t)
    PROVE  IInv'
  <1>1. TypeInv' /\ PlaceInv'
    BY ThreadAssumption DEF IInv, TypeInv, PlaceInv, SleepFlag, Actors, ThreadPlaces, GdbPlaces
  <1>2. ASSUME NEW u \in Threads PROVE  SignalInv(u)' /\ FlagInv(u)' /\ ListInv(u)'
    BY ThreadAssumption DEF IInv, SignalInv, FlagInv, ListInv, TypeInv, SleepFlag, Actors
  <1>3. ASSUME NEW u \in Threads PROVE  CloneInv(u)' /\ PreparedInv(u)'
    <2>1. CloningKept(t)
      BY ThreadAssumption DEF IInv, TypeInv, CloningKept, SleepFlag, Actors
    <2> QED BY <2>1, CloneFrame DEF Actors
  <1>4. ASSUME NEW u \in Actors PROVE  StopInv(u)'
    BY ThreadAssumption DEF IInv, StopInv, TypeInv, SleepFlag, Still, Actors
  <1>5. PauseInv' /\ RunInv'
    BY ThreadAssumption DEF IInv, PauseInv, RunInv, TypeInv, SleepFlag, Still, Actors
  <1>6. BusyInv' /\ QuietInv'
    BY ThreadAssumption DEF IInv, BusyInv, QuietInv, TypeInv, SleepFlag, Ended, Counted, Actors
  <1>7. CountExact'
    <2>1. \A u \in Threads : Counted(u)' <=> Counted(u)
      BY ThreadAssumption DEF IInv, TypeInv, Actors, SleepFlag, Counted
    <2>2. IdleWaitRefCount' = IdleWaitRefCount
      BY DEF SleepFlag
    <2> QED BY <2>1, <2>2, CountStays DEF IInv
  <1> QED BY <1>1, <1>2, <1>3, <1>4, <1>5, <1>6, <1>7 DEF IInv, Actors

LEMMA SleepWaitStep ==
    ASSUME NEW t \in Threads, IInv, ~Ended, SleepWait(t)
    PROVE  IInv'
  <1>1. TypeInv' /\ PlaceInv'
    BY ThreadAssumption DEF IInv, TypeInv, PlaceInv, SleepWait, Actors, ThreadPlaces, GdbPlaces
  <1>2. ASSUME NEW u \in Threads PROVE  SignalInv(u)' /\ FlagInv(u)' /\ ListInv(u)'
    BY ThreadAssumption DEF IInv, SignalInv, FlagInv, ListInv, TypeInv, SleepWait, Actors
  <1>3. ASSUME NEW u \in Threads PROVE  CloneInv(u)' /\ PreparedInv(u)'
    <2>1. CloningKept(t)
      BY ThreadAssumption DEF IInv, TypeInv, CloningKept, SleepWait, Actors
    <2> QED BY <2>1, CloneFrame DEF Actors
  <1>4. ASSUME NEW u \in Actors PROVE  StopInv(u)'
    BY ThreadAssumption DEF IInv, StopInv, TypeInv, SleepWait, Still, Actors
  <1>5. PauseInv' /\ RunInv'
    BY ThreadAssumption DEF IInv, PauseInv, RunInv, TypeInv, SleepWait, Still, Actors
  <1>6. BusyInv' /\ QuietInv'
    BY ThreadAssumption DEF IInv, BusyInv, QuietInv, TypeInv, SleepWait, Ended, Counted, Actors
  <1>7. CountExact'
    <2>1. \A u \in Threads : Counted(u)' <=> Counted(u)
      BY ThreadAssumption DEF IInv, TypeInv, Actors, SleepWait, Counted
    <2>2. IdleWaitRefCount' = IdleWaitRefCount
      BY DEF SleepWait
    <2> QED BY <2>1, <2>2, CountStays DEF IInv
  <1> QED BY <1>1, <1>2, <1>3, <1>4, <1>5, <1>6, <1>7 DEF IInv, Actors

LEMMA WakeCountStep ==
    ASSUME NEW t \in Threads, IInv, ~Ended, WakeCount(t)
    PROVE  IInv'
  <1>1. TypeInv' /\ PlaceInv'
    BY ThreadAssumption, CountAssumption
       DEF IInv, TypeInv, PlaceInv, WakeCount, Count, Actors, ThreadPlaces, GdbPlaces
  <1>2. ASSUME NEW u \in Threads PROVE  SignalInv(u)' /\ FlagInv(u)' /\ ListInv(u)'
    BY ThreadAssumption DEF IInv, SignalInv, FlagInv, ListInv, TypeInv, WakeCount, Count, Actors
  <1>3. ASSUME NEW u \in Threads PROVE  CloneInv(u)' /\ PreparedInv(u)'
    <2>1. CloningKept(t)
      BY ThreadAssumption DEF IInv, TypeInv, CloningKept, WakeCount, Actors
    <2> QED BY <2>1, CloneFrame DEF Actors
  <1>4. ASSUME NEW u \in Actors PROVE  StopInv(u)'
    BY ThreadAssumption DEF IInv, StopInv, TypeInv, WakeCount, Count, Still, Actors
  <1>5. PauseInv' /\ RunInv'
    BY ThreadAssumption DEF IInv, PauseInv, RunInv, TypeInv, WakeCount, Count, Still, Actors
  <1>6. BusyInv' /\ QuietInv'
    BY ThreadAssumption
       DEF IInv, BusyInv, QuietInv, TypeInv, WakeCount, Count, Ended, Counted, Actors
  <1>7. CountExact'
    <2>1. ~Counted(t) /\ Counted(t)' /\ \A u \in Threads \ {t} : Counted(u)' <=> Counted(u)
      BY ThreadAssumption DEF IInv, TypeInv, Actors, WakeCount, Counted
    <2> QED BY <2>1, CountRises DEF IInv, WakeCount
  <1> QED BY <1>1, <1>2, <1>3, <1>4, <1>5, <1>6, <1>7 DEF IInv, Actors

LEMMA WakeFlagStep ==
    ASSUME NEW t \in Threads, IInv, ~Ended, WakeFlag(t)
    PROVE  IInv'
  <1>1. TypeInv' /\ PlaceInv'
    BY ThreadAssumption DEF IInv, TypeInv, PlaceInv, WakeFlag, Actors, ThreadPlaces, GdbPlaces
  <1>2. ASSUME NEW u \in Threads PROVE  SignalInv(u)' /\ FlagInv(u)' /\ ListInv(u)'
    BY ThreadAssumption DEF IInv, SignalInv, FlagInv, ListInv, TypeInv, WakeFlag, Actors
  <1>3. ASSUME NEW u \in Threads PROVE  CloneInv(u)' /\ PreparedInv(u)'
    <2>1. CloningKept(t)
      BY ThreadAssumption DEF IInv, TypeInv, CloningKept, WakeFlag, Actors
    <2> QED BY <2>1, CloneFrame DEF Actors
  <1>4. ASSUME NEW u \in Actors PROVE  StopInv(u)'
    BY ThreadAssumption DEF IInv, StopInv, TypeInv, WakeFlag, Still, Actors
  <1>5. PauseInv' /\ RunInv'
    BY ThreadAssumption DEF IInv, PauseInv, RunInv, TypeInv, WakeFlag, Still, Actors
  <1>6. BusyInv' /\ QuietInv'
    BY ThreadAssumption DEF IInv, BusyInv, QuietInv, TypeInv, WakeFlag, Ended, Counted, Actors
  <1>7. CountExact'
    <2>1. \A u \in Threads : Counted(u)' <=> Counted(u)
      BY ThreadAssumption DEF IInv, TypeInv, Actors, WakeFlag, Counted
    <2>2. IdleWaitRefCount' = IdleWaitRefCount
      BY DEF WakeFlag
    <2> QED BY <2>1, <2>2, CountStays DEF IInv
  <1> QED BY <1>1, <1>2, <1>3, <1>4, <1>5, <1>6, <1>7 DEF IInv, Actors

LEMMA WakeNotifyStep ==
    ASSUME NEW t \in Threads, IInv, ~Ended, WakeNotify(t)
    PROVE  IInv'
  <1>1. TypeInv' /\ PlaceInv'
    BY ThreadAssumption
       DEF IInv, TypeInv, PlaceInv, WakeNotify, NotifyIdle, Actors, ThreadPlaces, GdbPlaces
  <1>2. ASSUME NEW u \in Threads PROVE  SignalInv(u)' /\ FlagInv(u)' /\ ListInv(u)'
    BY ThreadAssumption
       DEF IInv, SignalInv, FlagInv, ListInv, TypeInv, WakeNotify, NotifyIdle, Actors
  <1>3. ASSUME NEW u \in Threads PROVE  CloneInv(u)' /\ PreparedInv(u)'
    <2>1. CloningKept(t)
      BY ThreadAssumption DEF IInv, TypeInv, CloningKept, WakeNotify, NotifyIdle, Actors
    <2> QED BY <2>1, CloneFrame DEF Actors
  <1>4. ASSUME NEW u \in Actors PROVE  StopInv(u)'
    BY ThreadAssumption DEF IInv, StopInv, TypeInv, WakeNotify, NotifyIdle, Still, Actors
  <1>5. PauseInv' /\ RunInv'
    BY ThreadAssumption DEF IInv, PauseInv, RunInv, TypeInv, WakeNotify, NotifyIdle, Still, Actors
  <1>6. BusyInv' /\ QuietInv'
    BY ThreadAssumption
       DEF IInv, BusyInv, QuietInv, TypeInv, WakeNotify, NotifyIdle, Ended, Counted, Actors
  <1>7. CountExact'
    <2>1. \A u \in Threads : Counted(u)' <=> Counted(u)
      BY ThreadAssumption DEF IInv, TypeInv, Actors, WakeNotify, NotifyIdle, Counted
    <2>2. IdleWaitRefCount' = IdleWaitRefCount
      BY DEF WakeNotify, NotifyIdle
    <2> QED BY <2>1, <2>2, CountStays DEF IInv
  <1> QED BY <1>1, <1>2, <1>3, <1>4, <1>5, <1>6, <1>7 DEF IInv, Actors

LEMMA ReturnedStep ==
    ASSUME NEW t \in Threads, IInv, ~Ended, Returned(t)
    PROVE  IInv'
  <1>1. TypeInv' /\ PlaceInv'
    BY ThreadAssumption DEF IInv, TypeInv, PlaceInv, Returned, Actors, ThreadPlaces, GdbPlaces
  <1>2. ASSUME NEW u \in Threads PROVE  SignalInv(u)' /\ FlagInv(u)' /\ ListInv(u)'
    BY ThreadAssumption DEF IInv, SignalInv, FlagInv, ListInv, TypeInv, Returned, Actors
  <1>3. ASSUME NEW u \in Threads PROVE  CloneInv(u)' /\ PreparedInv(u)'
    <2>1. CloningKept(t)
      BY ThreadAssumption DEF IInv, TypeInv, CloningKept, Returned, Actors
    <2> QED BY <2>1, CloneFrame DEF Actors
  <1>4. ASSUME NEW u \in Actors PROVE  StopInv(u)'
    BY ThreadAssumption DEF IInv, StopInv, TypeInv, Returned, Still, Actors
  <1>5. PauseInv' /\ RunInv'
    BY ThreadAssumption DEF IInv, PauseInv, RunInv, TypeInv, Returned, Still, Actors
  <1>6. BusyInv' /\ QuietInv'
    BY ThreadAssumption DEF IInv, BusyInv, QuietInv, TypeInv, Returned, Ended, Counted, Actors
  <1>7. CountExact'
    <2>1. \A u \in Threads : Counted(u)' <=> Counted(u)
      BY ThreadAssumption DEF IInv, TypeInv, Actors, Returned, Counted
    <2>2. IdleWaitRefCount' = IdleWaitRefCount
      BY DEF Returned
    <2> QED BY <2>1, <2>2, CountStays DEF IInv
  <1> QED BY <1>1, <1>2, <1>3, <1>4, <1>5, <1>6, <1>7 DEF IInv, Actors

-----------------------------------------------------------------------------
(* Stop *)

LEMMA StopExchangeStep ==
    ASSUME NEW a \in Actors, NEW t \in Threads, IInv, ~Ended, StopExchange(a, t)
    PROVE  IInv'
  <1>1. TypeInv' /\ PlaceInv'
    BY ThreadAssumption
       DEF IInv, TypeInv, PlaceInv, StopExchange, Visit, Actors, ThreadPlaces, GdbPlaces
  <1>2. ASSUME NEW u \in Threads PROVE  SignalInv(u)' /\ FlagInv(u)' /\ ListInv(u)'
    BY ThreadAssumption
       DEF IInv, SignalInv, FlagInv, ListInv, TypeInv, StopExchange, Visit, Actors
  <1>3. ASSUME NEW u \in Threads PROVE  CloneInv(u)' /\ PreparedInv(u)'
    <2>1. CloningKept(a)
      BY ThreadAssumption DEF IInv, TypeInv, CloningKept, StopExchange, Visit, Actors
    <2> QED BY <2>1, CloneFrame
  <1>4. ASSUME NEW u \in Actors PROVE  StopInv(u)'
    BY ThreadAssumption DEF IInv, StopInv, FlagInv, TypeInv, StopExchange, Visit, Still, Actors
  <1>5. PauseInv' /\ RunInv'
    BY ThreadAssumption DEF IInv, PauseInv, RunInv, TypeInv, StopExchange, Visit, Still, Actors
  <1>6. BusyInv' /\ QuietInv'
    BY ThreadAssumption
       DEF IInv, BusyInv, QuietInv, TypeInv, StopExchange, Visit, Ended, Counted, Actors
  <1>7. CountExact'
    <2>1. \A u \in Threads : Counted(u)' <=> Counted(u)
      BY ThreadAssumption DEF IInv, TypeInv, Actors, StopExchange, Visit, Counted
    <2>2. IdleWaitRefCount' = IdleWaitRefCount
      BY DEF StopExchange
    <2> QED BY <2>1, <2>2, CountStays DEF IInv
  <1> QED BY <1>1, <1>2, <1>3, <1>4, <1>5, <1>6, <1>7 DEF IInv, Actors

LEMMA StopSignalStep ==
    ASSUME NEW a \in Actors, IInv, ~Ended, StopSignal(a)
    PROVE  IInv'
  <1>1. TypeInv' /\ PlaceInv'
    BY ThreadAssumption
       DEF IInv, TypeInv, PlaceInv, StopInv, StopSignal, Actors, ThreadPlaces, GdbPlaces, Still
  <1>2. ASSUME NEW u \in Threads PROVE  SignalInv(u)' /\ FlagInv(u)' /\ ListInv(u)'
    BY ThreadAssumption
       DEF IInv, SignalInv, FlagInv, ListInv, StopInv, TypeInv, StopSignal, Still, Actors
  <1>3. ASSUME NEW u \in Threads PROVE  CloneInv(u)' /\ PreparedInv(u)'
    <2>1. CloningKept(a)
      BY ThreadAssumption DEF IInv, TypeInv, CloningKept, StopSignal, Actors
    <2> QED BY <2>1, CloneFrame
  <1>4. ASSUME NEW u \in Actors PROVE  StopInv(u)'
    <2>1. StopInv(a) /\ TypeInv /\ pc[a] = "stop_signal"
      BY DEF IInv, StopSignal
    <2>2. CreationOwner = a /\ current[a] \in Threads \ (todo[a] \cup {a})
      BY <2>1 DEF StopInv
    <2>3. pc[current[a]] \in {"guest", "asleep"}
      BY <2>1 DEF StopInv, Still
    <2>4. ~WaitingToStart[current[a]]
      BY <2>2, <2>3 DEF IInv, FlagInv
    <2>5. CASE u = a
      BY <2>1, <2>2, <2>4, <2>5, ThreadAssumption DEF StopInv, TypeInv, StopSignal, Still, Actors
    <2>6. CASE u # a
      <3>1. pc[u] \notin StopPlaces
        BY <2>2, <2>6 DEF IInv, StopInv
      <3> QED BY <2>1, <2>6, <3>1 DEF StopInv, TypeInv, StopSignal
    <2> QED BY <2>5, <2>6
  <1>5. PauseInv' /\ RunInv'
    BY ThreadAssumption
       DEF IInv, PauseInv, RunInv, StopInv, BusyInv, TypeInv, StopSignal, Still, Actors
  <1>6. BusyInv' /\ QuietInv'
    BY ThreadAssumption DEF IInv, BusyInv, QuietInv, TypeInv, StopSignal, Ended, Counted, Actors
  <1>7. CountExact'
    <2>1. \A u \in Threads : Counted(u)' <=> Counted(u)
      BY ThreadAssumption DEF IInv, TypeInv, Actors, StopSignal, Counted
    <2>2. IdleWaitRefCount' = IdleWaitRefCount
      BY DEF StopSignal
    <2> QED BY <2>1, <2>2, CountStays DEF IInv
  <1> QED BY <1>1, <1>2, <1>3, <1>4, <1>5, <1>6, <1>7 DEF IInv, Actors

LEMMA StopEarlyStep ==
    ASSUME NEW a \in Actors, IInv, ~Ended, StopEarly(a)
    PROVE  IInv'
  <1>1. TypeInv' /\ PlaceInv'
    BY ThreadAssumption DEF IInv, TypeInv, PlaceInv, StopEarly, Actors, ThreadPlaces, GdbPlaces
  <1>2. ASSUME NEW u \in Threads PROVE  SignalInv(u)'
    <2>1. SignalInv(u) /\ TypeInv /\ StopInv(a) /\ pc[a] = "stop_early"
      BY DEF IInv, StopEarly
    <2>2. current[a] \in Threads \ {a}
      BY <2>1 DEF StopInv
    <2>3. CASE u = current[a] /\ WaitingToStart[u]
      <3>1. Still(u)
        BY <2>1, <2>3 DEF StopInv
      <3>2. pc[u] = "waiting" /\ pending[u] = 0
        BY <2>3, <3>1 DEF IInv, FlagInv, Still
      <3>3. pc'[u] = "waiting" /\ pending'[u] = 0
        BY <2>1, <2>2, <2>3, <3>2 DEF StopEarly, TypeInv, Actors
      <3> QED BY <3>3 DEF SignalInv
    <2>4. CASE ~(u = current[a] /\ WaitingToStart[u])
      <3>1. StartRunning'[u] <=> StartRunning[u]
        BY <2>1, <2>4 DEF StopEarly, TypeInv
      <3>2. a # u => pc'[u] = pc[u]
        BY <2>1 DEF StopEarly, TypeInv
      <3>3. pending'[u] = pending[u] /\ SignalReason'[u] = SignalReason[u]
        BY DEF StopEarly
      <3>4. CASE u = a
        <4>1. pending[u] = 0 /\ ~StartRunning[u]
          BY <2>1, <3>4 DEF SignalInv
        <4> QED BY <3>1, <3>3, <4>1 DEF SignalInv
      <3>5. CASE u # a
        <4>1. pc[Gdb] \in PausePlaces => pc'[Gdb] = pc[Gdb]
          BY <2>1 DEF StopEarly, TypeInv
        <4> QED BY <2>1, <3>1, <3>2, <3>3, <3>5, <4>1 DEF SignalInv
      <3> QED BY <3>4, <3>5
    <2> QED BY <2>3, <2>4
  <1>3. ASSUME NEW u \in Threads PROVE  FlagInv(u)'
    BY ThreadAssumption DEF IInv, FlagInv, TypeInv, StopEarly, Actors
  <1>4. ASSUME NEW u \in Threads PROVE  ListInv(u)'
    BY ThreadAssumption DEF IInv, ListInv, TypeInv, StopEarly, Actors
  <1>5. ASSUME NEW u \in Threads PROVE  CloneInv(u)' /\ PreparedInv(u)'
    <2>1. StopInv(a) /\ TypeInv /\ pc[a] = "stop_early"
      BY DEF IInv, StopEarly
    <2>2. \A v \in Threads : pc[v] \notin Cloning
      BY <2>1 DEF StopInv
    <2>3. \A v \in Threads : pc'[v] \notin Cloning /\ (v # a => pc'[v] = pc[v])
      BY <2>1, <2>2 DEF StopEarly, TypeInv, Actors
    <2>4. CloneInv(u)'
      BY <2>3 DEF CloneInv
    <2>5. ASSUME u \notin prepared' PROVE  pc'[u] = "absent" /\ ~StartRunning'[u]
      <3>1. PreparedInv(u) /\ u \notin prepared
        BY <2>5 DEF IInv, StopEarly
      <3>2. pc[u] = "absent" /\ ~StartRunning[u]
        BY <2>2, <3>1 DEF PreparedInv
      <3>3. ~(u = current[a] /\ WaitingToStart[u])
        BY <2>1, <3>2 DEF StopInv, Still
      <3>4. u # a
        BY <2>1, <3>2
      <3> QED BY <2>1, <2>3, <3>2, <3>3, <3>4 DEF StopEarly, TypeInv
    <2> QED BY <2>4, <2>5 DEF PreparedInv
  <1>6. ASSUME NEW u \in Actors PROVE  StopInv(u)'
    BY ThreadAssumption DEF IInv, StopInv, TypeInv, StopEarly, Still, Actors
  <1>7. PauseInv'
    BY ThreadAssumption DEF IInv, PauseInv, FlagInv, TypeInv, StopEarly, Actors
  <1>8. RunInv'
    BY ThreadAssumption DEF IInv, RunInv, StopInv, TypeInv, StopEarly, Still, Actors
  <1>9. BusyInv' /\ QuietInv'
    BY ThreadAssumption DEF IInv, BusyInv, QuietInv, TypeInv, StopEarly, Ended, Counted, Actors
  <1>10. CountExact'
    <2>1. \A u \in Threads : Counted(u)' <=> Counted(u)
      BY ThreadAssumption DEF IInv, TypeInv, Actors, StopEarly, Counted
    <2>2. IdleWaitRefCount' = IdleWaitRefCount
      BY DEF StopEarly
    <2> QED BY <2>1, <2>2, CountStays DEF IInv
  <1> QED BY <1>1, <1>2, <1>3, <1>4, <1>5, <1>6, <1>7, <1>8, <1>9, <1>10 DEF IInv, Actors

LEMMA StopEndStep ==
    ASSUME NEW a \in Actors, IInv, ~Ended, StopEnd(a)
    PROVE  IInv'
  <1>1. TypeInv' /\ PlaceInv'
    BY ThreadAssumption
       DEF IInv, TypeInv, PlaceInv, StopEnd, Unlock, Actors, ThreadPlaces, GdbPlaces
  <1>2. ASSUME NEW u \in Threads PROVE  SignalInv(u)' /\ FlagInv(u)' /\ ListInv(u)'
    BY ThreadAssumption DEF IInv, SignalInv, FlagInv, ListInv, TypeInv, StopEnd, Unlock, Actors
  <1>3. ASSUME NEW u \in Threads PROVE  CloneInv(u)' /\ PreparedInv(u)'
    <2>1. CloningKept(a)
      BY ThreadAssumption DEF IInv, TypeInv, CloningKept, StopEnd, Unlock, Actors
    <2> QED BY <2>1, CloneFrame
  <1>4. ASSUME NEW u \in Actors PROVE  StopInv(u)'
    BY ThreadAssumption DEF IInv, StopInv, TypeInv, StopEnd, Unlock, Still, Actors
  <1>5. PauseInv' /\ RunInv'
    BY ThreadAssumption DEF IInv, PauseInv, RunInv, TypeInv, StopEnd, Unlock, Still, Actors
  <1>6. BusyInv' /\ QuietInv'
    BY ThreadAssumption
       DEF IInv, BusyInv, QuietInv, TypeInv, StopEnd, Unlock, Ended, Counted, Actors
  <1>7. CountExact'
    <2>1. \A u \in Threads : Counted(u)' <=> Counted(u)
      BY ThreadAssumption DEF IInv, TypeInv, Actors, StopEnd, Unlock, Counted
    <2>2. IdleWaitRefCount' = IdleWaitRefCount
      BY DEF StopEnd
    <2> QED BY <2>1, <2>2, CountStays DEF IInv
  <1> QED BY <1>1, <1>2, <1>3, <1>4, <1>5, <1>6, <1>7 DEF IInv, Actors

-----------------------------------------------------------------------------
(* What guest threads do *)

LEMMA ExitStep ==
    ASSUME NEW t \in Threads, IInv, ~Ended, Orderly, Exit(t),
           pc[t] = "stop_self" \/ GuestMay(t)
    PROVE  IInv'
  <1>1. TypeInv' /\ PlaceInv'
    BY ThreadAssumption
       DEF IInv, TypeInv, PlaceInv, Exit, GuestMay, Orderly, Actors, ThreadPlaces, GdbPlaces
  <1>2. ASSUME NEW u \in Threads PROVE  SignalInv(u)' /\ FlagInv(u)' /\ ListInv(u)'
    BY ThreadAssumption
       DEF IInv, SignalInv, FlagInv, ListInv, TypeInv, Exit, GuestMay, Orderly, Actors
  <1>3. ASSUME NEW u \in Threads PROVE  CloneInv(u)' /\ PreparedInv(u)'
    <2>1. CloningKept(t)
      BY ThreadAssumption DEF IInv, TypeInv, CloningKept, Exit, GuestMay, Actors
    <2> QED BY <2>1, CloneFrame DEF Actors
  <1>4. ASSUME NEW u \in Actors PROVE  StopInv(u)'
    BY ThreadAssumption DEF IInv, StopInv, TypeInv, Exit, GuestMay, Orderly, Still, Actors
  <1>5. PauseInv' /\ RunInv'
    BY ThreadAssumption
       DEF IInv, PauseInv, RunInv, TypeInv, Exit, GuestMay, Orderly, Still, Actors
  <1>6. BusyInv' /\ QuietInv'
    BY ThreadAssumption
       DEF IInv, BusyInv, QuietInv, TypeInv, Exit, GuestMay, Orderly, Ended, Counted, Actors
  <1>7. CountExact'
    <2>1. \A u \in Threads : Counted(u)' <=> Counted(u)
      BY ThreadAssumption DEF IInv, TypeInv, Actors, Exit, GuestMay, Counted
    <2>2. IdleWaitRefCount' = IdleWaitRefCount
      BY DEF Exit
    <2> QED BY <2>1, <2>2, CountStays DEF IInv
  <1> QED BY <1>1, <1>2, <1>3, <1>4, <1>5, <1>6, <1>7 DEF IInv, Actors

LEMMA ExitSignalStep ==
    ASSUME NEW t \in Threads, IInv, ~Ended, ExitSignal(t)
    PROVE  IInv'
  <1>1. TypeInv' /\ PlaceInv'
    BY ThreadAssumption DEF IInv, TypeInv, PlaceInv, ExitSignal, Actors, ThreadPlaces, GdbPlaces
  <1>2. ASSUME NEW u \in Threads PROVE  SignalInv(u)' /\ FlagInv(u)' /\ ListInv(u)'
    BY ThreadAssumption DEF IInv, SignalInv, FlagInv, ListInv, TypeInv, ExitSignal, Actors
  <1>3. ASSUME NEW u \in Threads PROVE  CloneInv(u)' /\ PreparedInv(u)'
    <2>1. CloningKept(t)
      BY ThreadAssumption DEF IInv, TypeInv, CloningKept, ExitSignal, Actors
    <2> QED BY <2>1, CloneFrame DEF Actors
  <1>4. ASSUME NEW u \in Actors PROVE  StopInv(u)'
    BY ThreadAssumption DEF IInv, StopInv, TypeInv, ExitSignal, Still, Actors
  <1>5. PauseInv' /\ RunInv'
    BY ThreadAssumption DEF IInv, PauseInv, RunInv, TypeInv, ExitSignal, Still, Actors
  <1>6. BusyInv' /\ QuietInv'
    BY ThreadAssumption DEF IInv, BusyInv, QuietInv, TypeInv, ExitSignal, Ended, Counted, Actors
  <1>7. CountExact'
    <2>1. \A u \in Threads : Counted(u)' <=> Counted(u)
      BY ThreadAssumption DEF IInv, TypeInv, Actors, ExitSignal, Counted
    <2>2. IdleWaitRefCount' = IdleWaitRefCount
      BY DEF ExitSignal
    <2> QED BY <2>1, <2>2, CountStays DEF IInv
  <1> QED BY <1>1, <1>2, <1>3, <1>4, <1>5, <1>6, <1>7 DEF IInv, Actors

LEMMA ExitGroupStep ==
    ASSUME NEW t \in Threads, IInv, ~Ended, Orderly, ExitGroup(t), GuestMay(t), ExitGroupMay
    PROVE  IInv'
  <1>1. TypeInv' /\ PlaceInv'
    BY ThreadAssumption
       DEF IInv, TypeInv, PlaceInv, ExitGroup, GuestMay, ExitGroupMay, Orderly, StopStart, Lock, Settled, Actors,
       ThreadPlaces, GdbPlaces
  <1>2. ASSUME NEW u \in Threads PROVE  SignalInv(u)' /\ FlagInv(u)' /\ ListInv(u)'
    BY ThreadAssumption
       DEF IInv, SignalInv, FlagInv, ListInv, TypeInv, ExitGroup, GuestMay, ExitGroupMay, Orderly, StopStart,
       Lock, Settled, Actors
  <1>3. ASSUME NEW u \in Threads PROVE  CloneInv(u)' /\ PreparedInv(u)'
    <2>1. CloningKept(t)
      BY ThreadAssumption
         DEF IInv, TypeInv, CloningKept, ExitGroup, GuestMay, ExitGroupMay, StopStart, Lock, Actors
    <2> QED BY <2>1, CloneFrame DEF Actors
  <1>4. ASSUME NEW u \in Actors PROVE  StopInv(u)'
    <2>1. pc[Gdb] = "idle" /\ \A v \in Threads : Settled(v)
      BY DEF ExitGroup, GuestMay, ExitGroupMay, Orderly
    <2>2. t \in Actors /\ StopStart(t)
      BY DEF ExitGroup, Actors
    <2> QED BY <2>1, <2>2, StopStarts
  <1>5. PauseInv' /\ RunInv'
    BY ThreadAssumption
       DEF IInv, PauseInv, RunInv, TypeInv, ExitGroup, GuestMay, ExitGroupMay, Orderly, StopStart, Lock, Settled,
       Still, Actors
  <1>6. BusyInv' /\ QuietInv'
    BY ThreadAssumption
       DEF IInv, BusyInv, QuietInv, TypeInv, ExitGroup, GuestMay, ExitGroupMay, Orderly, StopStart, Lock,
       Settled, Ended, Counted, Actors
  <1>7. CountExact'
    <2>1. \A u \in Threads : Counted(u)' <=> Counted(u)
      BY ThreadAssumption DEF IInv, TypeInv, Actors, ExitGroup, GuestMay, ExitGroupMay, StopStart, Lock, Counted
    <2>2. IdleWaitRefCount' = IdleWaitRefCount
      BY DEF ExitGroup, StopStart
    <2> QED BY <2>1, <2>2, CountStays DEF IInv
  <1> QED BY <1>1, <1>2, <1>3, <1>4, <1>5, <1>6, <1>7 DEF IInv, Actors

LEMMA CreateThreadStep ==
    ASSUME NEW t \in Threads, NEW c \in Threads, IInv, ~Ended, Orderly, CreateThread(t, c),
           GuestMay(t)
    PROVE  IInv'
  <1>1. TypeInv' /\ PlaceInv'
    BY ThreadAssumption
       DEF IInv, TypeInv, PlaceInv, CreateThread, GuestMay, Orderly, Actors, ThreadPlaces,
       GdbPlaces
  <1>2. ASSUME NEW u \in Threads PROVE  SignalInv(u)' /\ FlagInv(u)' /\ ListInv(u)'
    BY ThreadAssumption
       DEF IInv, SignalInv, FlagInv, ListInv, TypeInv, CreateThread, GuestMay, Orderly, Actors
  <1>3. ASSUME NEW u \in Threads PROVE  CloneInv(u)' /\ PreparedInv(u)'
    <2>1. /\ TypeInv /\ pc[t] = "guest" /\ pc[c] = "absent" /\ c \notin Listed /\ c # t
          /\ Listed' = Listed \cup {c} /\ current' = [current EXCEPT ![t] = c]
          /\ pc' = [pc EXCEPT ![t] = "create"]
          /\ UNCHANGED <<prepared, StartRunning>>
      BY DEF IInv, CreateThread, GuestMay
    <2>2. \A v \in Threads \ {t} : pc'[v] = pc[v] /\ current'[v] = current[v]
      BY <2>1 DEF TypeInv, Actors
    <2>3. pc'[t] = "create" /\ current'[t] = c
      BY <2>1 DEF TypeInv, Actors
    <2>4. \A v \in Threads : pc[v] \in Cloning => current[v] \in Listed /\ current[v] # c /\ current[v] # t
      BY <2>1 DEF IInv, CloneInv
    <2>5. CloneInv(u)'
      <3>1. CASE u = t
        <4>1. ~StartRunning[c]
          BY <2>1 DEF IInv, SignalInv
        <4>2. \A v \in Threads : pc'[v] \in Cloning /\ current'[v] = c => v = t
          BY <2>2, <2>4
        <4> QED BY <2>1, <2>2, <2>3, <3>1, <4>1, <4>2 DEF CloneInv
      <3>2. CASE u # t /\ pc[u] \in Cloning
        <4>1. CloneInv(u)
          BY DEF IInv
        <4>2. current[u] \in Threads \ {t}
          BY <2>1, <2>4, <3>2 DEF TypeInv
        <4>3. \A v \in Threads : pc'[v] \in Cloning /\ current'[v] = current[u] => v = u
          BY <2>2, <2>3, <2>4, <3>2, <4>1 DEF CloneInv
        <4> QED BY <2>1, <2>2, <3>2, <4>1, <4>2, <4>3 DEF CloneInv
      <3>3. CASE u # t /\ pc[u] \notin Cloning
        BY <2>2, <3>3 DEF CloneInv
      <3> QED BY <3>1, <3>2, <3>3
    <2>6. PreparedInv(u)'
      BY <2>1, <2>2 DEF IInv, PreparedInv
    <2> QED BY <2>5, <2>6
  <1>4. ASSUME NEW u \in Actors PROVE  StopInv(u)'
    BY ThreadAssumption DEF IInv, StopInv, TypeInv, CreateThread, GuestMay, Orderly, Still, Actors
  <1>5. PauseInv' /\ RunInv'
    BY ThreadAssumption
       DEF IInv, PauseInv, RunInv, TypeInv, CreateThread, GuestMay, Orderly, Still, Actors
  <1>6. BusyInv' /\ QuietInv'
    BY ThreadAssumption
       DEF IInv, BusyInv, QuietInv, TypeInv, CreateThread, GuestMay, Orderly, Ended, Counted,
       Actors
  <1>7. CountExact'
    <2>1. \A u \in Threads : Counted(u)' <=> Counted(u)
      BY ThreadAssumption DEF IInv, TypeInv, Actors, CreateThread, GuestMay, Counted
    <2>2. IdleWaitRefCount' = IdleWaitRefCount
      BY DEF CreateThread
    <2> QED BY <2>1, <2>2, CountStays DEF IInv
  <1> QED BY <1>1, <1>2, <1>3, <1>4, <1>5, <1>6, <1>7 DEF IInv, Actors

LEMMA InitializedStep ==
    ASSUME NEW t \in Threads, NEW c \in Threads, IInv, ~Ended, Initialized(t, c)
    PROVE  IInv'
  <1>1. TypeInv' /\ PlaceInv'
    BY ThreadAssumption DEF IInv, TypeInv, PlaceInv, Initialized, Actors, ThreadPlaces, GdbPlaces
  <1>2. ASSUME NEW u \in Threads PROVE  SignalInv(u)'
    BY ThreadAssumption DEF IInv, SignalInv, TypeInv, Initialized, Actors
  <1>3. ASSUME NEW u \in Threads PROVE  FlagInv(u)'
    BY ThreadAssumption DEF IInv, FlagInv, TypeInv, Initialized, Actors
  <1>4. ASSUME NEW u \in Threads PROVE  ListInv(u)'
    <2>1. TypeInv /\ CloneInv(t) /\ ListInv(u)
      BY DEF IInv
    <2>2. c \in Listed
      BY <2>1 DEF CloneInv, Initialized
    <2>3. /\ pc'[c] = "enter" /\ pc'[t] = "wait_child"
          /\ \A v \in Threads \ {c, t} : pc'[v] = pc[v]
      BY DEF Initialized, Actors
    <2>4. ASSUME u \in Listed, pc'[u] = "absent"
          PROVE  \E v \in Threads : pc'[v] = "create" /\ current'[v] = u
      <3>1. u # c /\ pc[u] = "absent"
        BY <2>3, <2>4
      <3>2. PICK v \in Threads : pc[v] = "create" /\ current[v] = u
        BY <2>1, <2>4, <3>1 DEF ListInv
      <3>3. v # t /\ v # c
        BY <3>1, <3>2 DEF Initialized
      <3> QED BY <2>3, <3>2, <3>3 DEF Initialized
    <2> QED BY <2>1, <2>2, <2>3, <2>4 DEF ListInv, Initialized
  <1>5. ASSUME NEW u \in Threads PROVE  CloneInv(u)'
    BY ThreadAssumption DEF IInv, CloneInv, TypeInv, Initialized, Actors
  <1>6. ASSUME NEW u \in Threads PROVE  PreparedInv(u)'
    <2>1. TypeInv /\ CloneInv(t) /\ PreparedInv(u) /\ PreparedInv(t)
      BY DEF IInv
    <2>2. t \in prepared /\ ~StartRunning[c]
      BY <2>1 DEF CloneInv, PreparedInv, Initialized
    <2>3. /\ pc'[c] = "enter" /\ pc'[t] = "wait_child"
          /\ \A v \in Threads \ {c, t} : pc'[v] = pc[v]
      BY DEF Initialized, Actors
    <2>4. ASSUME u \notin prepared, pc'[u] # "absent"
          PROVE  \E v \in Threads : pc'[v] \in {"wait_child", "set_up"} /\ current'[v] = u
      <3>1. CASE u = c
        BY <2>3, <3>1 DEF Initialized
      <3>2. CASE u # c
        <4>1. PICK v \in Threads : pc[v] \in {"wait_child", "set_up"} /\ current[v] = u
          BY <2>1, <2>2, <2>3, <2>4, <3>2 DEF PreparedInv
        <4>2. v # t /\ v # c
          BY <4>1 DEF Initialized
        <4> QED BY <2>3, <4>1, <4>2 DEF Initialized
      <3> QED BY <3>1, <3>2
    <2> QED BY <2>1, <2>2, <2>3, <2>4 DEF PreparedInv, Initialized
  <1>7. ASSUME NEW u \in Actors PROVE  StopInv(u)'
    BY ThreadAssumption DEF IInv, StopInv, TypeInv, Initialized, Still, Actors
  <1>8. PauseInv'
    BY ThreadAssumption DEF IInv, PauseInv, FlagInv, TypeInv, Initialized, Actors
  <1>9. RunInv'
    BY ThreadAssumption DEF IInv, RunInv, TypeInv, Initialized, Still, Actors
  <1>10. BusyInv' /\ QuietInv'
    BY ThreadAssumption DEF IInv, BusyInv, QuietInv, TypeInv, Initialized, Ended, Counted, Actors
  <1>11. CountExact'
    <2>1. \A u \in Threads : Counted(u)' <=> Counted(u)
      BY ThreadAssumption DEF IInv, TypeInv, Actors, Initialized, Counted
    <2>2. IdleWaitRefCount' = IdleWaitRefCount
      BY DEF Initialized
    <2> QED BY <2>1, <2>2, CountStays DEF IInv
  <1> QED BY <1>1, <1>2, <1>3, <1>4, <1>5, <1>6, <1>7, <1>8, <1>9, <1>10, <1>11 DEF IInv, Actors

LEMMA ThreadWaitingStep ==
    ASSUME NEW t \in Threads, IInv, ~Ended, ThreadWaiting(t)
    PROVE  IInv'
  <1>1. TypeInv' /\ PlaceInv'
    BY ThreadAssumption
       DEF IInv, TypeInv, PlaceInv, CloneInv, ThreadWaiting, Actors, ThreadPlaces, GdbPlaces
  <1>2. ASSUME NEW u \in Threads PROVE  SignalInv(u)' /\ FlagInv(u)' /\ ListInv(u)'
    BY ThreadAssumption DEF IInv, SignalInv, FlagInv, ListInv, TypeInv, ThreadWaiting, Actors
  <1>3. ASSUME NEW u \in Threads PROVE  CloneInv(u)' /\ PreparedInv(u)'
    BY ThreadAssumption DEF IInv, CloneInv, PreparedInv, SignalInv, TypeInv, ThreadWaiting, Actors
  <1>4. ASSUME NEW u \in Actors PROVE  StopInv(u)'
    BY ThreadAssumption DEF IInv, StopInv, TypeInv, ThreadWaiting, Still, Actors
  <1>5. PauseInv' /\ RunInv'
    BY ThreadAssumption DEF IInv, PauseInv, RunInv, TypeInv, ThreadWaiting, Still, Actors
  <1>6. BusyInv' /\ QuietInv'
    BY ThreadAssumption
       DEF IInv, BusyInv, QuietInv, TypeInv, ThreadWaiting, Ended, Counted, Actors
  <1>7. CountExact'
    <2>1. \A u \in Threads : Counted(u)' <=> Counted(u)
      BY ThreadAssumption DEF IInv, TypeInv, Actors, ThreadWaiting, Counted
    <2>2. IdleWaitRefCount' = IdleWaitRefCount
      BY DEF ThreadWaiting
    <2> QED BY <2>1, <2>2, CountStays DEF IInv
  <1> QED BY <1>1, <1>2, <1>3, <1>4, <1>5, <1>6, <1>7 DEF IInv, Actors

LEMMA SetUpThreadStep ==
    ASSUME NEW t \in Threads, IInv, ~Ended, SetUpThread(t)
    PROVE  IInv'
  <1>1. TypeInv' /\ PlaceInv'
    BY ThreadAssumption
       DEF IInv, TypeInv, PlaceInv, CloneInv, SetUpThread, Actors, ThreadPlaces, GdbPlaces
  <1>2. ASSUME NEW u \in Threads PROVE  SignalInv(u)' /\ FlagInv(u)' /\ ListInv(u)'
    BY ThreadAssumption DEF IInv, SignalInv, FlagInv, ListInv, TypeInv, SetUpThread, Actors
  <1>3. ASSUME NEW u \in Threads PROVE  CloneInv(u)' /\ PreparedInv(u)'
    BY ThreadAssumption DEF IInv, CloneInv, PreparedInv, SignalInv, TypeInv, SetUpThread, Actors
  <1>4. ASSUME NEW u \in Actors PROVE  StopInv(u)'
    BY ThreadAssumption DEF IInv, StopInv, TypeInv, SetUpThread, Still, Actors
  <1>5. PauseInv' /\ RunInv'
    BY ThreadAssumption DEF IInv, PauseInv, RunInv, TypeInv, SetUpThread, Still, Actors
  <1>6. BusyInv' /\ QuietInv'
    BY ThreadAssumption DEF IInv, BusyInv, QuietInv, TypeInv, SetUpThread, Ended, Counted, Actors
  <1>7. CountExact'
    <2>1. \A u \in Threads : Counted(u)' <=> Counted(u)
      BY ThreadAssumption DEF IInv, TypeInv, Actors, SetUpThread, Counted
    <2>2. IdleWaitRefCount' = IdleWaitRefCount
      BY DEF SetUpThread
    <2> QED BY <2>1, <2>2, CountStays DEF IInv
  <1> QED BY <1>1, <1>2, <1>3, <1>4, <1>5, <1>6, <1>7 DEF IInv, Actors

LEMMA RunThreadStep ==
    ASSUME NEW t \in Threads, IInv, ~Ended, RunThread(t)
    PROVE  IInv'
  <1>1. TypeInv' /\ PlaceInv'
    BY ThreadAssumption
       DEF IInv, TypeInv, PlaceInv, CloneInv, RunThread, Actors, ThreadPlaces, GdbPlaces
  <1>2. ASSUME NEW u \in Threads PROVE  SignalInv(u)' /\ FlagInv(u)' /\ ListInv(u)'
    BY ThreadAssumption
       DEF IInv, SignalInv, FlagInv, ListInv, CloneInv, TypeInv, RunThread, Actors
  <1>3. ASSUME NEW u \in Threads PROVE  CloneInv(u)' /\ PreparedInv(u)'
    BY ThreadAssumption DEF IInv, CloneInv, PreparedInv, TypeInv, RunThread, Actors
  <1>4. ASSUME NEW u \in Actors PROVE  StopInv(u)'
    BY ThreadAssumption DEF IInv, StopInv, TypeInv, RunThread, Still, Actors
  <1>5. PauseInv' /\ RunInv'
    BY ThreadAssumption DEF IInv, PauseInv, RunInv, BusyInv, TypeInv, RunThread, Still, Actors
  <1>6. BusyInv' /\ QuietInv'
    BY ThreadAssumption DEF IInv, BusyInv, QuietInv, TypeInv, RunThread, Ended, Counted, Actors
  <1>7. CountExact'
    <2>1. \A u \in Threads : Counted(u)' <=> Counted(u)
      BY ThreadAssumption DEF IInv, TypeInv, Actors, RunThread, Counted
    <2>2. IdleWaitRefCount' = IdleWaitRefCount
      BY DEF RunThread
    <2> QED BY <2>1, <2>2, CountStays DEF IInv
  <1> QED BY <1>1, <1>2, <1>3, <1>4, <1>5, <1>6, <1>7 DEF IInv, Actors

-----------------------------------------------------------------------------
(* The GDB server *)

LEMMA PauseStep ==
    ASSUME IInv, ~Ended, Orderly, Pause, GdbMay
    PROVE  IInv'
  <1>1. TypeInv' /\ PlaceInv'
    BY ThreadAssumption
       DEF IInv, TypeInv, PlaceInv, Pause, GdbMay, Orderly, Lock, Settled, Actors, ThreadPlaces,
       GdbPlaces
  <1>2. ASSUME NEW u \in Threads PROVE  SignalInv(u)' /\ FlagInv(u)' /\ ListInv(u)'
    BY ThreadAssumption
       DEF IInv, SignalInv, FlagInv, ListInv, TypeInv, Pause, GdbMay, Orderly, Lock, Settled,
       Actors
  <1>3. ASSUME NEW u \in Threads PROVE  CloneInv(u)' /\ PreparedInv(u)'
    <2>1. CloningKept(Gdb)
      BY ThreadAssumption DEF IInv, TypeInv, CloningKept, Pause, GdbMay, Lock, Actors
    <2> QED BY <2>1, CloneFrame DEF Actors
  <1>4. ASSUME NEW u \in Actors PROVE  StopInv(u)'
    BY ThreadAssumption
       DEF IInv, StopInv, TypeInv, Pause, GdbMay, Orderly, Lock, Settled, Still, Actors
  <1>5. PauseInv' /\ RunInv'
    <2>1. TypeInv /\ RunInv /\ pc[Gdb] = "idle" /\ CoreRunning /\ \A v \in Threads : Settled(v)
      BY DEF IInv, Pause, GdbMay, Orderly
    <2>2. /\ pc'[Gdb] = "pause" /\ CreationOwner' = Gdb /\ todo'[Gdb] = Listed
          /\ \A v \in Threads : pc'[v] = pc[v]
      BY <2>1, ThreadAssumption DEF TypeInv, Pause, Lock, Actors
    <2>3. \A v \in Threads : ~StartRunning[v] /\ pending[v] = 0
      BY <2>1, SettledStill
    <2>4. \A v \in Threads : pc[v] \in {"waiting", "guest", "absent", "gone"}
      BY <2>1, <2>3 DEF Settled, RunInv
    <2>5. \A v \in Listed : v \in Threads /\ pc[v] \in {"waiting", "guest"}
      BY <2>1, <2>4, SettledStill DEF TypeInv, Still
    <2>6. UNCHANGED <<StartRunning, pending, SignalReason>>
      BY DEF Pause
    <2> QED BY <2>2, <2>3, <2>4, <2>5, <2>6 DEF PauseInv, RunInv
  <1>6. BusyInv' /\ QuietInv'
    BY ThreadAssumption
       DEF IInv, BusyInv, QuietInv, TypeInv, Pause, GdbMay, Orderly, Lock, Settled, Ended, Counted,
       Actors
  <1>7. CountExact'
    <2>1. \A u \in Threads : Counted(u)' <=> Counted(u)
      BY ThreadAssumption DEF IInv, TypeInv, Actors, Pause, GdbMay, Lock, Counted
    <2>2. IdleWaitRefCount' = IdleWaitRefCount
      BY DEF Pause
    <2> QED BY <2>1, <2>2, CountStays DEF IInv
  <1> QED BY <1>1, <1>2, <1>3, <1>4, <1>5, <1>6, <1>7 DEF IInv, Actors

LEMMA NotifyPauseStep ==
    ASSUME NEW t \in Threads, IInv, ~Ended, NotifyPause(t)
    PROVE  IInv'
  <1>1. TypeInv' /\ PlaceInv'
    BY ThreadAssumption
       DEF IInv, TypeInv, PlaceInv, NotifyPause, Visit, Actors, ThreadPlaces, GdbPlaces
  <1>2. ASSUME NEW u \in Threads PROVE  SignalInv(u)' /\ FlagInv(u)' /\ ListInv(u)'
    BY ThreadAssumption
       DEF IInv, SignalInv, FlagInv, ListInv, PauseInv, TypeInv, NotifyPause, Visit, Actors
  <1>3. ASSUME NEW u \in Threads PROVE  CloneInv(u)' /\ PreparedInv(u)'
    <2>1. CloningKept(Gdb)
      BY ThreadAssumption DEF IInv, TypeInv, CloningKept, NotifyPause, Visit, Actors
    <2> QED BY <2>1, CloneFrame DEF Actors
  <1>4. ASSUME NEW u \in Actors PROVE  StopInv(u)'
    BY ThreadAssumption DEF IInv, StopInv, TypeInv, NotifyPause, Visit, Still, Actors
  <1>5. PauseInv' /\ RunInv'
    BY ThreadAssumption DEF IInv, PauseInv, RunInv, TypeInv, NotifyPause, Visit, Still, Actors
  <1>6. BusyInv' /\ QuietInv'
    BY ThreadAssumption
       DEF IInv, BusyInv, QuietInv, TypeInv, NotifyPause, Visit, Ended, Counted, Actors
  <1>7. CountExact'
    <2>1. \A u \in Threads : Counted(u)' <=> Counted(u)
      BY ThreadAssumption DEF IInv, TypeInv, Actors, NotifyPause, Visit, Counted
    <2>2. IdleWaitRefCount' = IdleWaitRefCount
      BY DEF NotifyPause
    <2> QED BY <2>1, <2>2, CountStays DEF IInv
  <1> QED BY <1>1, <1>2, <1>3, <1>4, <1>5, <1>6, <1>7 DEF IInv, Actors

LEMMA NotifyPauseSignalStep ==
    ASSUME IInv, ~Ended, NotifyPauseSignal
    PROVE  IInv'
  <1>1. TypeInv' /\ PlaceInv'
    BY ThreadAssumption
       DEF IInv, TypeInv, PlaceInv, PauseInv, NotifyPauseSignal, Actors, ThreadPlaces, GdbPlaces
  <1>2. ASSUME NEW u \in Threads PROVE  SignalInv(u)' /\ FlagInv(u)' /\ ListInv(u)'
    BY ThreadAssumption
       DEF IInv, SignalInv, FlagInv, ListInv, PauseInv, TypeInv, NotifyPauseSignal, Actors
  <1>3. ASSUME NEW u \in Threads PROVE  CloneInv(u)' /\ PreparedInv(u)'
    <2>1. CloningKept(Gdb)
      BY ThreadAssumption DEF IInv, TypeInv, CloningKept, NotifyPauseSignal, Actors
    <2> QED BY <2>1, CloneFrame DEF Actors
  <1>4. ASSUME NEW u \in Actors PROVE  StopInv(u)'
    BY ThreadAssumption DEF IInv, StopInv, PauseInv, TypeInv, NotifyPauseSignal, Still, Actors
  <1>5. PauseInv' /\ RunInv'
    BY ThreadAssumption DEF IInv, PauseInv, RunInv, TypeInv, NotifyPauseSignal, Still, Actors
  <1>6. BusyInv' /\ QuietInv'
    BY ThreadAssumption
       DEF IInv, BusyInv, QuietInv, TypeInv, NotifyPauseSignal, Ended, Counted, Actors
  <1>7. CountExact'
    <2>1. \A u \in Threads : Counted(u)' <=> Counted(u)
      BY ThreadAssumption DEF IInv, TypeInv, Actors, NotifyPauseSignal, Counted
    <2>2. IdleWaitRefCount' = IdleWaitRefCount
      BY DEF NotifyPauseSignal
    <2> QED BY <2>1, <2>2, CountStays DEF IInv
  <1> QED BY <1>1, <1>2, <1>3, <1>4, <1>5, <1>6, <1>7 DEF IInv, Actors

LEMMA NotifyPauseEndStep ==
    ASSUME IInv, ~Ended, NotifyPauseEnd
    PROVE  IInv'
  <1>1. TypeInv' /\ PlaceInv'
    BY ThreadAssumption
       DEF IInv, TypeInv, PlaceInv, NotifyPauseEnd, Unlock, Actors, ThreadPlaces, GdbPlaces
  <1>2. ASSUME NEW u \in Threads PROVE  SignalInv(u)' /\ FlagInv(u)' /\ ListInv(u)'
    BY ThreadAssumption
       DEF IInv, SignalInv, FlagInv, ListInv, TypeInv, NotifyPauseEnd, Unlock, Actors
  <1>3. ASSUME NEW u \in Threads PROVE  CloneInv(u)' /\ PreparedInv(u)'
    <2>1. CloningKept(Gdb)
      BY ThreadAssumption DEF IInv, TypeInv, CloningKept, NotifyPauseEnd, Unlock, Actors
    <2> QED BY <2>1, CloneFrame DEF Actors
  <1>4. ASSUME NEW u \in Actors PROVE  StopInv(u)'
    BY ThreadAssumption DEF IInv, StopInv, TypeInv, NotifyPauseEnd, Unlock, Still, Actors
  <1>5. PauseInv' /\ RunInv'
    BY ThreadAssumption DEF IInv, PauseInv, RunInv, TypeInv, NotifyPauseEnd, Unlock, Still, Actors
  <1>6. BusyInv' /\ QuietInv'
    BY ThreadAssumption
       DEF IInv, BusyInv, QuietInv, TypeInv, NotifyPauseEnd, Unlock, Ended, Counted, Actors
  <1>7. CountExact'
    <2>1. \A u \in Threads : Counted(u)' <=> Counted(u)
      BY ThreadAssumption DEF IInv, TypeInv, Actors, NotifyPauseEnd, Unlock, Counted
    <2>2. IdleWaitRefCount' = IdleWaitRefCount
      BY DEF NotifyPauseEnd
    <2> QED BY <2>1, <2>2, CountStays DEF IInv
  <1> QED BY <1>1, <1>2, <1>3, <1>4, <1>5, <1>6, <1>7 DEF IInv, Actors

LEMMA RunStep ==
    ASSUME IInv, ~Ended, Orderly, Run, GdbMay, RunMay
    PROVE  IInv'
  <1>1. TypeInv' /\ PlaceInv'
    BY ThreadAssumption
       DEF IInv, TypeInv, PlaceInv, Run, GdbMay, RunMay, Orderly, Lock, Settled, Actors, ThreadPlaces,
       GdbPlaces
  <1>2. ASSUME NEW u \in Threads PROVE  SignalInv(u)' /\ FlagInv(u)' /\ ListInv(u)'
    BY ThreadAssumption
       DEF IInv, SignalInv, FlagInv, ListInv, TypeInv, Run, GdbMay, RunMay, Orderly, Lock, Settled, Actors
  <1>3. ASSUME NEW u \in Threads PROVE  CloneInv(u)' /\ PreparedInv(u)'
    <2>1. CloningKept(Gdb)
      BY ThreadAssumption DEF IInv, TypeInv, CloningKept, Run, GdbMay, RunMay, Lock, Actors
    <2> QED BY <2>1, CloneFrame DEF Actors
  <1>4. ASSUME NEW u \in Actors PROVE  StopInv(u)'
    BY ThreadAssumption
       DEF IInv, StopInv, TypeInv, Run, GdbMay, RunMay, Orderly, Lock, Settled, Still, Actors
  <1>5. PauseInv'
    BY ThreadAssumption DEF IInv, PauseInv, TypeInv, Run, GdbMay, RunMay, Orderly, Lock, Settled, Actors
  <1>6. RunInv'
    <2>1. TypeInv /\ QuietInv /\ pc[Gdb] = "idle" /\ ~CoreRunning /\ \A v \in Threads : Settled(v)
      BY DEF IInv, Run, GdbMay, RunMay, Orderly
    <2>2. /\ pc'[Gdb] = "run" /\ CreationOwner' = Gdb /\ todo'[Gdb] = Listed
          /\ \A v \in Threads : pc'[v] = pc[v]
      BY <2>1, ThreadAssumption DEF TypeInv, Run, Lock, Actors
    <2>3. \A v \in Threads : pc[v] \in {"waiting", "asleep", "absent", "gone"}
      BY <2>1 DEF QuietInv, Settled
    <2>4. \A v \in Listed : v \in Threads /\ Still(v)
      BY <2>1, SettledStill DEF TypeInv
    <2>5. \A v \in Threads : pc[v] = "asleep" => v \in Listed
      BY DEF IInv, ListInv
    <2>6. UNCHANGED <<StartRunning, pending>>
      BY DEF Run
    <2> QED BY <2>2, <2>3, <2>4, <2>5, <2>6 DEF RunInv, Still
  <1>7. BusyInv' /\ QuietInv'
    BY ThreadAssumption
       DEF IInv, BusyInv, QuietInv, TypeInv, Run, GdbMay, RunMay, Orderly, Lock, Settled, Ended, Counted,
       Actors
  <1>8. CountExact'
    <2>1. \A u \in Threads : Counted(u)' <=> Counted(u)
      BY ThreadAssumption DEF IInv, TypeInv, Actors, Run, GdbMay, RunMay, Lock, Counted
    <2>2. IdleWaitRefCount' = IdleWaitRefCount
      BY DEF Run
    <2> QED BY <2>1, <2>2, CountStays DEF IInv
  <1> QED BY <1>1, <1>2, <1>3, <1>4, <1>5, <1>6, <1>7, <1>8 DEF IInv, Actors

LEMMA RunNotifyStep ==
    ASSUME NEW t \in Threads, IInv, ~Ended, RunNotify(t)
    PROVE  IInv'
  <1>1. TypeInv' /\ PlaceInv'
    BY ThreadAssumption
       DEF IInv, TypeInv, PlaceInv, RunNotify, Visit, Actors, ThreadPlaces, GdbPlaces
  <1>2. ASSUME NEW u \in Threads PROVE  SignalInv(u)' /\ FlagInv(u)' /\ ListInv(u)'
    BY ThreadAssumption
       DEF IInv, SignalInv, FlagInv, ListInv, RunInv, TypeInv, RunNotify, Visit, Still, Actors
  <1>3. ASSUME NEW u \in Threads PROVE  CloneInv(u)' /\ PreparedInv(u)'
    BY ThreadAssumption
       DEF IInv, CloneInv, PreparedInv, RunInv, BusyInv, TypeInv, RunNotify, Visit, Still, Actors
  <1>4. ASSUME NEW u \in Actors PROVE  StopInv(u)'
    BY ThreadAssumption DEF IInv, StopInv, RunInv, TypeInv, RunNotify, Visit, Still, Actors
  <1>5. PauseInv' /\ RunInv'
    BY ThreadAssumption DEF IInv, PauseInv, RunInv, TypeInv, RunNotify, Visit, Still, Actors
  <1>6. BusyInv' /\ QuietInv'
    BY ThreadAssumption
       DEF IInv, BusyInv, QuietInv, TypeInv, RunNotify, Visit, Ended, Counted, Actors
  <1>7. CountExact'
    <2>1. \A u \in Threads : Counted(u)' <=> Counted(u)
      BY ThreadAssumption DEF IInv, TypeInv, Actors, RunNotify, Visit, Counted
    <2>2. IdleWaitRefCount' = IdleWaitRefCount
      BY DEF RunNotify
    <2> QED BY <2>1, <2>2, CountStays DEF IInv
  <1> QED BY <1>1, <1>2, <1>3, <1>4, <1>5, <1>6, <1>7 DEF IInv, Actors

LEMMA RunEndStep ==
    ASSUME IInv, ~Ended, RunEnd
    PROVE  IInv'
  <1>1. TypeInv' /\ PlaceInv'
    BY ThreadAssumption
       DEF IInv, TypeInv, PlaceInv, RunEnd, Unlock, Actors, ThreadPlaces, GdbPlaces
  <1>2. ASSUME NEW u \in Threads PROVE  SignalInv(u)' /\ FlagInv(u)' /\ ListInv(u)'
    BY ThreadAssumption DEF IInv, SignalInv, FlagInv, ListInv, TypeInv, RunEnd, Unlock, Actors
  <1>3. ASSUME NEW u \in Threads PROVE  CloneInv(u)' /\ PreparedInv(u)'
    <2>1. CloningKept(Gdb)
      BY ThreadAssumption DEF IInv, TypeInv, CloningKept, RunEnd, Unlock, Actors
    <2> QED BY <2>1, CloneFrame DEF Actors
  <1>4. ASSUME NEW u \in Actors PROVE  StopInv(u)'
    BY ThreadAssumption DEF IInv, StopInv, TypeInv, RunEnd, Unlock, Still, Actors
  <1>5. PauseInv' /\ RunInv'
    BY ThreadAssumption DEF IInv, PauseInv, RunInv, TypeInv, RunEnd, Unlock, Still, Actors
  <1>6. BusyInv' /\ QuietInv'
    BY ThreadAssumption
       DEF IInv, BusyInv, QuietInv, TypeInv, RunEnd, Unlock, Ended, Counted, Actors
  <1>7. CountExact'
    <2>1. \A u \in Threads : Counted(u)' <=> Counted(u)
      BY ThreadAssumption DEF IInv, TypeInv, Actors, RunEnd, Unlock, Counted
    <2>2. IdleWaitRefCount' = IdleWaitRefCount
      BY DEF RunEnd
    <2> QED BY <2>1, <2>2, CountStays DEF IInv
  <1> QED BY <1>1, <1>2, <1>3, <1>4, <1>5, <1>6, <1>7 DEF IInv, Actors

LEMMA NumThreadsStep ==
    ASSUME IInv, ~Ended, NumThreads
    PROVE  IInv'
  <1>1. TypeInv' /\ PlaceInv'
    BY ThreadAssumption DEF IInv, TypeInv, PlaceInv, NumThreads, Actors, ThreadPlaces, GdbPlaces
  <1>2. ASSUME NEW u \in Threads PROVE  SignalInv(u)' /\ FlagInv(u)' /\ ListInv(u)'
    BY ThreadAssumption DEF IInv, SignalInv, FlagInv, ListInv, TypeInv, NumThreads, Actors
  <1>3. ASSUME NEW u \in Threads PROVE  CloneInv(u)' /\ PreparedInv(u)'
    <2>1. CloningKept(Gdb)
      BY ThreadAssumption DEF IInv, TypeInv, CloningKept, NumThreads, Actors
    <2> QED BY <2>1, CloneFrame DEF Actors
  <1>4. ASSUME NEW u \in Actors PROVE  StopInv(u)'
    BY ThreadAssumption DEF IInv, StopInv, TypeInv, NumThreads, Still, Actors
  <1>5. PauseInv' /\ RunInv'
    BY ThreadAssumption DEF IInv, PauseInv, RunInv, TypeInv, NumThreads, Still, Actors
  <1>6. BusyInv' /\ QuietInv'
    BY ThreadAssumption DEF IInv, BusyInv, QuietInv, TypeInv, NumThreads, Ended, Counted, Actors
  <1>7. CountExact'
    <2>1. \A u \in Threads : Counted(u)' <=> Counted(u)
      BY ThreadAssumption DEF IInv, TypeInv, Actors, NumThreads, Counted
    <2>2. IdleWaitRefCount' = IdleWaitRefCount
      BY DEF NumThreads
    <2> QED BY <2>1, <2>2, CountStays DEF IInv
  <1> QED BY <1>1, <1>2, <1>3, <1>4, <1>5, <1>6, <1>7 DEF IInv, Actors

LEMMA KillStep ==
    ASSUME IInv, ~Ended, Orderly, Kill, GdbMay
    PROVE  IInv'
  <1>1. TypeInv' /\ PlaceInv'
    BY ThreadAssumption
       DEF IInv, TypeInv, PlaceInv, Kill, GdbMay, Orderly, Lock, Settled, StopStart, Actors,
       ThreadPlaces, GdbPlaces
  <1>2. ASSUME NEW u \in Threads PROVE  SignalInv(u)' /\ FlagInv(u)' /\ ListInv(u)'
    BY ThreadAssumption
       DEF IInv, SignalInv, FlagInv, ListInv, TypeInv, Kill, GdbMay, Orderly, Lock, Settled,
       StopStart, Actors
  <1>3. ASSUME NEW u \in Threads PROVE  CloneInv(u)' /\ PreparedInv(u)'
    <2>1. CloningKept(Gdb)
      BY ThreadAssumption DEF IInv, TypeInv, CloningKept, Kill, GdbMay, Lock, StopStart, Actors
    <2> QED BY <2>1, CloneFrame DEF Actors
  <1>4. ASSUME NEW u \in Actors PROVE  StopInv(u)'
    <2>1. pc[Gdb] = "idle" /\ \A v \in Threads : Settled(v)
      BY DEF Kill, GdbMay, Orderly
    <2>2. Gdb \in Actors /\ StopStart(Gdb)
      BY DEF Kill, Actors
    <2> QED BY <2>1, <2>2, StopStarts
  <1>5. PauseInv' /\ RunInv'
    BY ThreadAssumption
       DEF IInv, PauseInv, RunInv, TypeInv, Kill, GdbMay, Orderly, Lock, Settled, StopStart, Still,
       Actors
  <1>6. BusyInv' /\ QuietInv'
    BY ThreadAssumption
       DEF IInv, BusyInv, QuietInv, TypeInv, Kill, GdbMay, Orderly, Lock, Settled, StopStart,
       Ended, Counted, Actors
  <1>7. CountExact'
    <2>1. \A u \in Threads : Counted(u)' <=> Counted(u)
      BY ThreadAssumption DEF IInv, TypeInv, Actors, Kill, GdbMay, Lock, StopStart, Counted
    <2>2. IdleWaitRefCount' = IdleWaitRefCount
      BY DEF Kill, StopStart
    <2> QED BY <2>1, <2>2, CountStays DEF IInv
  <1> QED BY <1>1, <1>2, <1>3, <1>4, <1>5, <1>6, <1>7 DEF IInv, Actors

-----------------------------------------------------------------------------
(* Waiting *)

LEMMA WaitTestStep ==
    ASSUME NEW a \in Actors, IInv, ~Ended, WaitTest(a)
    PROVE  IInv'
  <1>1. TypeInv'
    <2>1. pc[a] \in {"wait_idle", "wait_run", "wait_kill"} => a = Gdb
      BY DEF IInv, PlaceInv, ThreadPlaces, WaitTest, InWait, Actors
    <2>2. pc[a] = "wait_exit" => a = Parent
      BY DEF IInv, PlaceInv, GdbPlaces, ListInv, Actors
    <2>3. a \in {Gdb, Parent}
      BY <2>1, <2>2 DEF WaitTest, InWait
    <2> QED BY <2>3 DEF IInv, TypeInv, WaitTest
  <1>2. PlaceInv'
    BY ThreadAssumption
       DEF IInv, PlaceInv, TypeInv, WaitTest, InWait, ThreadPlaces, GdbPlaces, Actors
  <1>3. ASSUME NEW u \in Threads PROVE  SignalInv(u)' /\ FlagInv(u)' /\ ListInv(u)'
    BY ThreadAssumption DEF IInv, SignalInv, FlagInv, ListInv, TypeInv, WaitTest, InWait, Actors
  <1>4. ASSUME NEW u \in Threads PROVE  CloneInv(u)' /\ PreparedInv(u)'
    <2>1. CloningKept(a)
      BY ThreadAssumption DEF IInv, TypeInv, CloningKept, WaitTest, InWait, Actors
    <2> QED BY <2>1, CloneFrame
  <1>5. ASSUME NEW u \in Actors PROVE  StopInv(u)'
    BY ThreadAssumption DEF IInv, StopInv, TypeInv, WaitTest, InWait, Still, Actors
  <1>6. PauseInv' /\ RunInv'
    BY ThreadAssumption DEF IInv, PauseInv, RunInv, TypeInv, WaitTest, InWait, Still, Actors
  <1>7. BusyInv' /\ QuietInv'
    BY ThreadAssumption
       DEF IInv, BusyInv, QuietInv, TypeInv, WaitTest, InWait, Ended, Counted, Actors
  <1>8. CountExact'
    <2>1. \A u \in Threads : Counted(u)' <=> Counted(u)
      BY ThreadAssumption DEF IInv, TypeInv, Actors, WaitTest, InWait, Counted
    <2>2. IdleWaitRefCount' = IdleWaitRefCount
      BY DEF WaitTest
    <2> QED BY <2>1, <2>2, CountStays DEF IInv
  <1> QED BY <1>1, <1>2, <1>3, <1>4, <1>5, <1>6, <1>7, <1>8 DEF IInv, Actors

LEMMA WaitBlockStep ==
    ASSUME NEW a \in Actors, IInv, ~Ended, WaitBlock(a)
    PROVE  IInv'
  <1>1. TypeInv'
    <2>1. a \in {Gdb, Parent}
      BY DEF IInv, TypeInv, WaitBlock
    <2> QED BY <2>1 DEF IInv, TypeInv, WaitBlock
  <1>2. PlaceInv'
    BY ThreadAssumption
       DEF IInv, PlaceInv, TypeInv, WaitBlock, ThreadPlaces, GdbPlaces, Actors
  <1>3. ASSUME NEW u \in Threads PROVE  SignalInv(u)' /\ FlagInv(u)' /\ ListInv(u)'
    BY ThreadAssumption DEF IInv, SignalInv, FlagInv, ListInv, TypeInv, WaitBlock, Actors
  <1>4. ASSUME NEW u \in Threads PROVE  CloneInv(u)' /\ PreparedInv(u)'
    BY DEF IInv, CloneInv, PreparedInv, WaitBlock
  <1>5. ASSUME NEW u \in Actors PROVE  StopInv(u)'
    BY ThreadAssumption DEF IInv, StopInv, TypeInv, WaitBlock, Still, Actors
  <1>6. PauseInv' /\ RunInv'
    BY ThreadAssumption DEF IInv, PauseInv, RunInv, TypeInv, WaitBlock, Still, Actors
  <1>7. BusyInv' /\ QuietInv'
    BY ThreadAssumption
       DEF IInv, BusyInv, QuietInv, TypeInv, WaitBlock, Ended, Counted, Actors
  <1>8. CountExact'
    <2>1. \A u \in Threads : Counted(u)' <=> Counted(u)
      BY ThreadAssumption DEF IInv, TypeInv, Actors, WaitBlock, Counted
    <2>2. IdleWaitRefCount' = IdleWaitRefCount
      BY DEF WaitBlock
    <2> QED BY <2>1, <2>2, CountStays DEF IInv
  <1> QED BY <1>1, <1>2, <1>3, <1>4, <1>5, <1>6, <1>7, <1>8 DEF IInv, Actors

LEMMA PauseDoneStep ==
    ASSUME IInv, ~Ended, WaitOver(Gdb, "wait_idle", "idle", FALSE)
    PROVE  IInv'
  <1>1. TypeInv'
    BY ThreadAssumption DEF IInv, TypeInv, WaitOver, Actors, ThreadPlaces, GdbPlaces
  <1>2. PlaceInv'
    BY ThreadAssumption
       DEF IInv, PlaceInv, TypeInv, WaitOver, Counted, ThreadPlaces, GdbPlaces, Actors
  <1>3. ASSUME NEW u \in Threads PROVE  SignalInv(u)' /\ FlagInv(u)' /\ ListInv(u)'
    BY ThreadAssumption DEF IInv, SignalInv, FlagInv, ListInv, TypeInv, WaitOver, Counted, Actors
  <1>4. ASSUME NEW u \in Threads PROVE  CloneInv(u)' /\ PreparedInv(u)'
    <2>1. CloningKept(Gdb)
      BY ThreadAssumption DEF IInv, TypeInv, CloningKept, WaitOver, Actors
    <2> QED BY <2>1, CloneFrame DEF Actors
  <1>5. ASSUME NEW u \in Actors PROVE  StopInv(u)'
    BY ThreadAssumption DEF IInv, StopInv, TypeInv, WaitOver, Counted, Still, Actors
  <1>6. PauseInv' /\ RunInv'
    BY ThreadAssumption DEF IInv, PauseInv, RunInv, TypeInv, WaitOver, Counted, Still, Actors
  <1>7. BusyInv'
    BY ThreadAssumption DEF IInv, BusyInv, TypeInv, WaitOver, Counted, Actors
  <1>8. QuietInv'
    BY ThreadAssumption
       DEF IInv, QuietInv, SignalInv, FlagInv, ListInv, CloneInv, PreparedInv, StopInv, PauseInv,
       RunInv, BusyInv, TypeInv, PlaceInv, WaitOver, Counted, Ended, ThreadPlaces, GdbPlaces,
       Still, Actors
  <1>9. CountExact'
    <2>1. \A u \in Threads : Counted(u)' <=> Counted(u)
      BY ThreadAssumption DEF IInv, TypeInv, Actors, WaitOver, Counted
    <2>2. IdleWaitRefCount' = IdleWaitRefCount
      BY DEF WaitOver
    <2> QED BY <2>1, <2>2, CountStays DEF IInv
  <1> QED BY <1>1, <1>2, <1>3, <1>4, <1>5, <1>6, <1>7, <1>8, <1>9 DEF IInv, Actors

LEMMA RunDoneStep ==
    ASSUME IInv, ~Ended, WaitOver(Gdb, "wait_run", "idle", TRUE)
    PROVE  IInv'
  <1>1. TypeInv' /\ PlaceInv'
    BY ThreadAssumption DEF IInv, TypeInv, PlaceInv, WaitOver, Actors, ThreadPlaces, GdbPlaces
  <1>2. ASSUME NEW u \in Threads PROVE  SignalInv(u)' /\ FlagInv(u)' /\ ListInv(u)'
    BY ThreadAssumption DEF IInv, SignalInv, FlagInv, ListInv, TypeInv, WaitOver, Actors
  <1>3. ASSUME NEW u \in Threads PROVE  CloneInv(u)' /\ PreparedInv(u)'
    <2>1. CloningKept(Gdb)
      BY ThreadAssumption DEF IInv, TypeInv, CloningKept, WaitOver, Actors
    <2> QED BY <2>1, CloneFrame DEF Actors
  <1>4. ASSUME NEW u \in Actors PROVE  StopInv(u)'
    BY ThreadAssumption DEF IInv, StopInv, TypeInv, WaitOver, Still, Actors
  <1>5. PauseInv' /\ RunInv'
    BY ThreadAssumption DEF IInv, PauseInv, RunInv, TypeInv, WaitOver, Still, Actors
  <1>6. BusyInv' /\ QuietInv'
    BY ThreadAssumption DEF IInv, BusyInv, QuietInv, TypeInv, WaitOver, Ended, Counted, Actors
  <1>7. CountExact'
    <2>1. \A u \in Threads : Counted(u)' <=> Counted(u)
      BY ThreadAssumption DEF IInv, TypeInv, Actors, WaitOver, Counted
    <2>2. IdleWaitRefCount' = IdleWaitRefCount
      BY DEF WaitOver
    <2> QED BY <2>1, <2>2, CountStays DEF IInv
  <1> QED BY <1>1, <1>2, <1>3, <1>4, <1>5, <1>6, <1>7 DEF IInv, Actors

LEMMA KillDoneStep ==
    ASSUME IInv, ~Ended, WaitOver(Gdb, "wait_kill", "done", FALSE)
    PROVE  IInv'
  <1>1. TypeInv'
    BY ThreadAssumption DEF IInv, TypeInv, WaitOver, Actors, ThreadPlaces, GdbPlaces
  <1>2. PlaceInv'
    BY ThreadAssumption
       DEF IInv, PlaceInv, TypeInv, WaitOver, Counted, ThreadPlaces, GdbPlaces, Actors
  <1>3. ASSUME NEW u \in Threads PROVE  SignalInv(u)' /\ FlagInv(u)' /\ ListInv(u)'
    BY ThreadAssumption DEF IInv, SignalInv, FlagInv, ListInv, TypeInv, WaitOver, Counted, Actors
  <1>4. ASSUME NEW u \in Threads PROVE  CloneInv(u)' /\ PreparedInv(u)'
    <2>1. CloningKept(Gdb)
      BY ThreadAssumption DEF IInv, TypeInv, CloningKept, WaitOver, Actors
    <2> QED BY <2>1, CloneFrame DEF Actors
  <1>5. ASSUME NEW u \in Actors PROVE  StopInv(u)'
    BY ThreadAssumption DEF IInv, StopInv, TypeInv, WaitOver, Counted, Still, Actors
  <1>6. PauseInv' /\ RunInv'
    BY ThreadAssumption DEF IInv, PauseInv, RunInv, TypeInv, WaitOver, Counted, Still, Actors
  <1>7. BusyInv' /\ QuietInv'
    BY ThreadAssumption DEF IInv, BusyInv, QuietInv, TypeInv, WaitOver, Counted, Ended, Actors
  <1>8. CountExact'
    <2>1. \A u \in Threads : Counted(u)' <=> Counted(u)
      BY ThreadAssumption DEF IInv, TypeInv, Actors, WaitOver, Counted
    <2>2. IdleWaitRefCount' = IdleWaitRefCount
      BY DEF WaitOver
    <2> QED BY <2>1, <2>2, CountStays DEF IInv
  <1> QED BY <1>1, <1>2, <1>3, <1>4, <1>5, <1>6, <1>7, <1>8 DEF IInv, Actors

LEMMA ExitDoneStep ==
    ASSUME IInv, ~Ended, WaitOver(Parent, "wait_exit", "gone", FALSE)
    PROVE  IInv'
  <1>1. TypeInv'
    BY ThreadAssumption DEF IInv, TypeInv, WaitOver, Actors, ThreadPlaces, GdbPlaces
  <1>2. PlaceInv'
    BY ThreadAssumption
       DEF IInv, PlaceInv, TypeInv, WaitOver, Counted, ThreadPlaces, GdbPlaces, Actors
  <1>3. ASSUME NEW u \in Threads PROVE  SignalInv(u)' /\ FlagInv(u)' /\ ListInv(u)'
    BY ThreadAssumption DEF IInv, SignalInv, FlagInv, ListInv, TypeInv, WaitOver, Counted, Actors
  <1>4. ASSUME NEW u \in Threads PROVE  CloneInv(u)' /\ PreparedInv(u)'
    <2>1. CloningKept(Parent)
      BY ThreadAssumption DEF IInv, TypeInv, CloningKept, WaitOver, Actors
    <2> QED BY <2>1, CloneFrame, ThreadAssumption DEF Actors
  <1>5. ASSUME NEW u \in Actors PROVE  StopInv(u)'
    BY ThreadAssumption DEF IInv, StopInv, TypeInv, WaitOver, Counted, Still, Actors
  <1>6. PauseInv' /\ RunInv'
    BY ThreadAssumption DEF IInv, PauseInv, RunInv, TypeInv, WaitOver, Counted, Still, Actors
  <1>7. BusyInv' /\ QuietInv'
    BY ThreadAssumption DEF IInv, BusyInv, QuietInv, TypeInv, WaitOver, Counted, Ended, Actors
  <1>8. CountExact'
    <2>1. \A u \in Threads : Counted(u)' <=> Counted(u)
      BY ThreadAssumption DEF IInv, TypeInv, Actors, WaitOver, Counted
    <2>2. IdleWaitRefCount' = IdleWaitRefCount
      BY DEF WaitOver
    <2> QED BY <2>1, <2>2, CountStays DEF IInv
  <1> QED BY <1>1, <1>2, <1>3, <1>4, <1>5, <1>6, <1>7, <1>8 DEF IInv, Actors

-----------------------------------------------------------------------------
(* The theorems *)

LEMMA InitHolds ==
    ASSUME Init, Orderly
    PROVE  IInv
  <1>1. TypeInv /\ PlaceInv
    <2>1. IdleWaitRefCount \in 0 .. COUNT_RANGE - 1
      BY CountAssumption, CountedFinite DEF Init
    <2>2. pc \in [Actors -> ThreadPlaces \cup GdbPlaces] /\ PlaceInv
      BY ThreadAssumption DEF Init, PlaceInv, Actors, ThreadPlaces, GdbPlaces
    <2>3. NeedToCheckXID = FALSE
      BY OverlapAssumption DEF Init, Orderly
    <2>4. resume \in [Threads -> {<<>>, <<"guest">>}]
      BY DEF Init
    <2>5. todo \in [Actors -> SUBSET Threads] /\ current \in [Actors -> Threads \cup {NoThread}]
      BY DEF Init
    <2>6. pending \in [Threads -> Nat]
      BY DEF Init
    <2> QED BY <2>1, <2>2, <2>3, <2>4, <2>5, <2>6, ThreadAssumption DEF Init, TypeInv
  <1>2. ASSUME NEW t \in Threads
        PROVE  SignalInv(t) /\ FlagInv(t) /\ ListInv(t) /\ CloneInv(t) /\ PreparedInv(t)
    BY ThreadAssumption DEF Init, Actors, SignalInv, FlagInv, ListInv, CloneInv, PreparedInv
  <1>3. ASSUME NEW a \in Actors PROVE StopInv(a)
    BY DEF Init, StopInv
  <1>4. PauseInv /\ RunInv /\ BusyInv /\ QuietInv
    BY ThreadAssumption DEF Init, Actors, PauseInv, RunInv, BusyInv, QuietInv, Ended, Counted
  <1>5. CountExact
    <2>1. {t \in Threads : Counted(t)} = {}
      BY ThreadAssumption DEF Init, Actors, Counted
    <2>2. Cardinality({}) = 0
      BY FS_EmptySet
    <2> QED BY <2>1, <2>2 DEF CountExact, Init
  <1> QED BY <1>1, <1>2, <1>3, <1>4, <1>5 DEF IInv

LEMMA ThreadStepKeeps ==
    ASSUME NEW t \in Threads, IInv, ~Ended, ThreadStep(t) \/ GuestCall(t), Orderly
    PROVE  IInv'
  <1>0. t \in Actors
    BY DEF Actors
  <1>1. CASE HandleSignalPause(t)
    BY <1>1, SignalIsTaken, StopTakenStep, PauseTakenStep
  <1>2. CASE ExecutionThread(t)
    BY <1>2, EnterStep, StartWaitStep, CheckEarlyExitStep, BeginStep, StartStep, LeaveStep,
       LeaveCountStep, LeaveNotifyStep, DestroyThreadStep DEF ExecutionThread
  <1>3. CASE SleepThread(t)
    BY <1>3, SleepCountStep, SleepNotifyStep, SleepFlagStep, SleepWaitStep, WakeCountStep,
       WakeFlagStep, WakeNotifyStep, PauseIsReturned, ReturnedStep DEF SleepThread
  <1>4. CASE StopStep(t)
    BY <1>0, <1>4, StopExchangeStep, StopSignalStep, StopEarlyStep, StopEndStep DEF StopStep
  <1>5. CASE CloneStep(t)
    BY <1>5, ThreadIsInitialized, InitializedStep, ThreadWaitingStep, SetUpThreadStep, RunThreadStep
       DEF CloneStep
  <1>6. CASE WaitStep(t)
    BY <1>0, <1>6, WaitTestStep, WaitBlockStep, WaitIsOver, PauseDoneStep, RunDoneStep, KillDoneStep, ExitDoneStep
       DEF WaitStep
  <1>7. CASE ExitSignal(t) \/ (pc[t] = "stop_self" /\ Exit(t))
    BY <1>7, ExitSignalStep, ExitStep
  <1>8. CASE GuestCall(t)
    BY <1>8, ExitStep, ExitGroupStep, CreateThreadStep DEF GuestCall
  <1> QED BY <1>1, <1>2, <1>3, <1>4, <1>5, <1>6, <1>7, <1>8 DEF ThreadStep

LEMMA GdbStepKeeps ==
    ASSUME IInv, ~Ended, GdbStep \/ Command, Orderly
    PROVE  IInv'
  <1>0. Gdb \in Actors
    BY DEF Actors
  <1>1. CASE \E t \in Threads : NotifyPause(t) \/ RunNotify(t)
    BY <1>1, NotifyPauseStep, RunNotifyStep
  <1>2. CASE NotifyPauseSignal \/ NotifyPauseEnd \/ RunEnd \/ NumThreads
    BY <1>2, NotifyPauseSignalStep, NotifyPauseEndStep, RunEndStep, NumThreadsStep
  <1>3. CASE StopStep(Gdb)
    BY <1>0, <1>3, StopExchangeStep, StopSignalStep, StopEarlyStep, StopEndStep DEF StopStep
  <1>4. CASE WaitStep(Gdb)
    BY <1>0, <1>4, WaitTestStep, WaitBlockStep, WaitIsOver, PauseDoneStep, RunDoneStep, KillDoneStep, ExitDoneStep
       DEF WaitStep
  <1>5. CASE Command
    BY <1>5, PauseStep, RunStep, KillStep DEF Command
  <1> QED BY <1>1, <1>2, <1>3, <1>4, <1>5 DEF GdbStep

LEMMA StutterKeeps ==
    ASSUME IInv, UNCHANGED vars
    PROVE  IInv'
  <1>1. TypeInv' /\ PlaceInv'
    BY DEF IInv, TypeInv, PlaceInv, vars, Actors
  <1>2. ASSUME NEW t \in Threads
        PROVE  SignalInv(t)' /\ FlagInv(t)' /\ ListInv(t)' /\ CloneInv(t)' /\ PreparedInv(t)'
    BY DEF IInv, SignalInv, FlagInv, ListInv, CloneInv, PreparedInv, vars
  <1>3. ASSUME NEW a \in Actors PROVE StopInv(a)'
    BY DEF IInv, StopInv, Still, vars
  <1>4. PauseInv' /\ RunInv' /\ BusyInv' /\ QuietInv'
    BY DEF IInv, PauseInv, RunInv, BusyInv, QuietInv, Still, Ended, Counted, vars
  <1>5. CountExact'
    BY DEF IInv, CountExact, Counted, vars
  <1> QED BY <1>1, <1>2, <1>3, <1>4, <1>5 DEF IInv, Actors

LEMMA Invariance ==
    ASSUME Orderly
    PROVE  Spec => []IInv
  <1>1. Init => IInv
    BY InitHolds
  <1>2. ASSUME IInv, [Next]_vars PROVE IInv'
    <2>1. CASE ~Ended /\ \E t \in Threads : ThreadStep(t) \/ GuestCall(t)
      BY <1>2, <2>1, ThreadStepKeeps
    <2>2. CASE ~Ended /\ (GdbStep \/ Command)
      BY <1>2, <2>2, GdbStepKeeps
    <2>3. CASE UNCHANGED vars
      BY <1>2, <2>3, StutterKeeps
    <2> QED BY <1>2, <2>1, <2>2, <2>3 DEF Next
  <1> QED BY <1>1, <1>2, PTL DEF Spec

\* Types: a thread that is paused was in guest code, so that at most one
\* pause handler is on its stack, and no thread is lost to a restored state
\* that was never saved.
THEOREM TypeOKAlways ==
    ASSUME Orderly
    PROVE  Spec => []TypeOK
  <1>1. ASSUME IInv PROVE TypeOK
    <2>1. TypeInv /\ PlaceInv
      BY <1>1 DEF IInv
    <2>2. ASSUME NEW t \in Threads PROVE Len(resume[t]) <= MaxNested
      <3>1. resume[t] = <<>> \/ resume[t] = <<"guest">>
        BY <2>1 DEF TypeInv
      <3>2. Len(<<>>) = 0 /\ Len(<<"guest">>) = 1
        OBVIOUS
      <3>3. MaxNested \in Nat /\ MaxNested >= 1
        BY CountAssumption
      <3>4. \A n \in {0, 1} : n <= MaxNested
        BY <3>3
      <3>5. Len(resume[t]) \in {0, 1}
        BY <3>1, <3>2
      <3> QED BY <3>4, <3>5, Zenon
    <2> QED BY <2>1, <2>2 DEF TypeInv, PlaceInv, TypeOK
  <1> QED BY <1>1, Invariance, PTL

\* No path through pause, continue, stop and exit takes a thread off the idle
\* counter twice or leaves it on: the counter is the number of threads that
\* are not idle, and never wraps.
THEOREM CountExactAlways ==
    ASSUME Orderly
    PROVE  Spec => []CountExact
  <1>1. IInv => CountExact
    BY DEF IInv
  <1> QED BY <1>1, Invariance, PTL

\* After Pause has returned, and until the next Run, no thread is in guest
\* code or in a system call for it.
THEOREM PausedMeansStoppedAlways ==
    ASSUME Orderly
    PROVE  Spec => []PausedMeansStopped
  <1>1. IInv => PausedMeansStopped
    BY DEF IInv, QuietInv, PausedMeansStopped, Counted
  <1> QED BY <1>1, Invariance, PTL

-----------------------------------------------------------------------------
(* No notification is left out *)

\* Whoever has tested, or sleeps, is in a wait; if what he waits for holds by
\* now, a notification is on its way or has come too early.
WakeInv ==
    \A a \in tested \cup waiters :
        InWait(a) /\ (Idle(a) => a \in missed \/ \E t \in Threads : Notifies(t))

\* A thread that is created, or stopped in its sleep, is counted without a
\* notification: not while a continue waits for the counter to rise.
RiseInv == pc[Gdb] \in RunPlaces => \A t \in Threads : pc[t] # "enter" /\ pending[t] = 0

\* A step that notifies nobody: the waits go on, nobody who was to notify
\* forgets it, and no wait is over unless somebody is to notify.
WaitsKept ==
    /\ UNCHANGED <<tested, waiters, missed>>
    /\ \A a \in tested \cup waiters : InWait(a)'
    /\ \A t \in Threads : Notifies(t) => Notifies(t)'
    /\ \A a \in tested \cup waiters : Idle(a)' => Idle(a) \/ \E t \in Threads : Notifies(t)'

LEMMA WaitsKeptKeeps ==
    ASSUME WakeInv, WaitsKept
    PROVE  WakeInv'
  <1>1. SUFFICES ASSUME NEW a \in tested \cup waiters, Idle(a)', ~\E t \in Threads : Notifies(t)'
                 PROVE  a \in missed
    BY DEF WakeInv, WaitsKept
  <1>2. Idle(a) /\ ~\E t \in Threads : Notifies(t)
    BY <1>1 DEF WaitsKept
  <1> QED BY <1>1, <1>2 DEF WakeInv

\* The common case: the counter stays, and so do the places of those who wait
\* or are to notify.
LEMMA PlainKeeps ==
    ASSUME IInv, WakeInv, UNCHANGED idleVars,
           \A a \in Actors : InWait(a) => pc'[a] = pc[a] /\ todo'[a] = todo[a],
           \A t \in Threads : Notifies(t) => Notifies(t)'
    PROVE  WakeInv'
  <1>1. \A a \in tested \cup waiters : a \in Actors /\ InWait(a)
    BY ThreadAssumption DEF IInv, TypeInv, WakeInv, Actors
  <1>2. \A a \in tested \cup waiters : InWait(a)' /\ (Idle(a)' <=> Idle(a))
    BY <1>1 DEF InWait, Idle
  <1>3. WaitsKept
    BY <1>2 DEF WaitsKept
  <1> QED BY <1>3, WaitsKeptKeeps

\* A step that changes the counter and goes on to notify.
LEMMA CountingKeeps ==
    ASSUME IInv, WakeInv, UNCHANGED <<tested, waiters, missed>>,
           NEW t \in Threads, ~InWait(t), Notifies(t)',
           \A a \in Actors \ {t} : pc'[a] = pc[a]
    PROVE  WakeInv'
  <1>1. \A a \in tested \cup waiters : InWait(a)'
    BY ThreadAssumption DEF IInv, TypeInv, WakeInv, Actors, InWait
  <1>2. \A u \in Threads : Notifies(u) => Notifies(u)'
    BY DEF Notifies, Actors
  <1>3. WaitsKept
    BY <1>1, <1>2 DEF WaitsKept
  <1> QED BY <1>3, WaitsKeptKeeps

\* A step that raises the counter without a notification.
LEMMA RisingKeeps ==
    ASSUME IInv, IInv', WakeInv, RiseInv, UNCHANGED <<tested, waiters, missed>>,
           NEW t \in Threads, ~InWait(t), ~Notifies(t), Counted(t)',
           pc[t] = "enter" \/ pending[t] # 0,
           \A a \in Actors \ {t} : pc'[a] = pc[a]
    PROVE  WakeInv'
  <1>1. \A a \in tested \cup waiters : a \in Actors /\ a # t /\ InWait(a) /\ pc'[a] = pc[a]
    BY ThreadAssumption DEF IInv, TypeInv, WakeInv, Actors
  <1>2. \A a \in tested \cup waiters : pc[a] # "wait_run"
    <2>1. pc[Gdb] # "wait_run"
      BY DEF RiseInv
    <2>2. \A u \in Threads : pc[u] # "wait_run"
      BY DEF IInv, PlaceInv, ThreadPlaces
    <2> QED BY <1>1, <2>1, <2>2 DEF Actors
  <1>3. IdleWaitRefCount' # 0
    <2>1. SUFFICES ASSUME IdleWaitRefCount' = 0 PROVE FALSE
      OBVIOUS
    <2>2. {u \in Threads : Counted(u)'} \subseteq Threads /\ t \in {u \in Threads : Counted(u)'}
      OBVIOUS
    <2>3. IsFiniteSet({u \in Threads : Counted(u)'})
      BY <2>2, ThreadAssumption, FS_Subset
    <2>4. Cardinality({u \in Threads : Counted(u)'}) = 0
      BY <2>1 DEF IInv, CountExact
    <2> QED BY <2>2, <2>3, <2>4, FS_EmptySet
  <1>4. \A a \in tested \cup waiters : InWait(a)' /\ ~Idle(a)'
    BY <1>1, <1>2, <1>3 DEF InWait, Idle
  <1>5. \A u \in Threads : Notifies(u) => Notifies(u)'
    BY DEF Notifies, Actors
  <1>6. WaitsKept
    BY <1>4, <1>5 DEF WaitsKept
  <1> QED BY <1>6, WaitsKeptKeeps

\* A notification: nobody sleeps, and it is too early for those about to.
LEMMA NotifyKeeps ==
    ASSUME IInv, WakeInv, NotifyIdle, NEW t \in Threads, ~InWait(t),
           \A a \in Actors \ {t} : pc'[a] = pc[a]
    PROVE  WakeInv'
  <1>1. \A a \in tested' \cup waiters' : a \in tested /\ a \in missed'
    BY DEF NotifyIdle
  <1>2. \A a \in tested : InWait(a)'
    BY ThreadAssumption DEF IInv, TypeInv, WakeInv, Actors, InWait
  <1> QED BY <1>1, <1>2 DEF WakeInv

LEMMA WakeWaitStep ==
    ASSUME NEW a \in Actors, IInv, WakeInv, WaitStep(a)
    PROVE  WakeInv'
  <1>1. CASE WaitTest(a)
    <2>1. \A b \in Actors : (Idle(b)' <=> Idle(b)) /\ (InWait(b)' <=> InWait(b))
      BY <1>1 DEF WaitTest, Idle, InWait
    <2>2. \A t \in Threads : Notifies(t)' <=> Notifies(t)
      BY <1>1 DEF WaitTest, Notifies
    <2>3. tested \cup waiters \subseteq Actors
      BY ThreadAssumption DEF IInv, TypeInv, Actors
    <2> QED BY <1>1, <2>1, <2>2, <2>3 DEF WakeInv, WaitTest
  <1>2. CASE WaitBlock(a)
    <2>1. \A b \in Actors : (Idle(b)' <=> Idle(b)) /\ (InWait(b)' <=> InWait(b))
      BY <1>2 DEF WaitBlock, Idle, InWait
    <2>2. \A t \in Threads : Notifies(t)' <=> Notifies(t)
      BY <1>2 DEF WaitBlock, Notifies
    <2>3. tested \cup waiters \subseteq Actors
      BY ThreadAssumption DEF IInv, TypeInv, Actors
    <2> QED BY <1>2, <2>1, <2>2, <2>3 DEF WakeInv, WaitBlock
  <1>3. CASE WaitDone(a)
    <2>1. a \notin tested \cup waiters /\ ~Notifies(a)
      BY <1>3 DEF WaitDone, InWait, Notifies
    <2>2. /\ \A b \in Actors \ {a} : pc'[b] = pc[b] /\ todo'[b] = todo[b]
          /\ UNCHANGED idleVars
      BY <1>3 DEF IInv, TypeInv, WaitDone
    <2>3. \A b \in tested \cup waiters : InWait(b)' /\ (Idle(b)' => Idle(b))
      BY <2>1, <2>2, ThreadAssumption DEF IInv, TypeInv, WakeInv, Actors, InWait, Idle
    <2>4. \A t \in Threads : Notifies(t) => Notifies(t)'
      BY <2>1, <2>2 DEF Notifies, Actors
    <2>5. WaitsKept
      BY <2>2, <2>3, <2>4 DEF WaitsKept
    <2> QED BY <2>5, WaitsKeptKeeps
  <1> QED BY <1>1, <1>2, <1>3 DEF WaitStep

LEMMA WakeThreadStep ==
    ASSUME NEW t \in Threads, IInv, IInv', WakeInv, RiseInv, ThreadStep(t) \/ GuestCall(t)
    PROVE  WakeInv'
  <1>0. t \in Actors /\ Gdb # t /\ TypeInv
    BY ThreadAssumption DEF Actors, IInv
  <1>1. CASE HandleSignalPause(t)
    <2>1. CASE StopTaken(t) /\ pc[t] = "asleep"
      <3>1. pending[t] = 1 /\ UNCHANGED <<tested, waiters, missed>>
        BY <1>1, SignalIsTaken DEF SignalTaken
      <3>2. pc' = [pc EXCEPT ![t] = "leave"]
        BY <2>1 DEF StopTaken
      <3>3. (\A a \in Actors \ {t} : pc'[a] = pc[a]) /\ Counted(t)'
        BY <1>0, <3>2 DEF TypeInv, Counted
      <3>4. ~InWait(t) /\ ~Notifies(t)
        BY <2>1 DEF InWait, Notifies
      <3> QED BY <3>1, <3>3, <3>4, RisingKeeps
    <2>2. CASE (StopTaken(t) /\ pc[t] # "asleep") \/ PauseTaken(t)
      <3>1. UNCHANGED idleVars /\ pc[t] \in {"guest", "exited"} /\ pc' = [pc EXCEPT ![t] = pc'[t]] /\ UNCHANGED todo
        BY <1>0, <1>1, <2>2 DEF TypeInv, HandleSignalPause, StopTaken, PauseTaken
      <3> QED BY <1>0, <3>1, PlainKeeps DEF TypeInv, Notifies, InWait, Actors
    <2> QED BY <1>1, <2>1, <2>2, SignalIsTaken
  <1>2. CASE ExecutionThread(t)
    <2>1. CASE Enter(t)
      BY <1>0, <2>1, RisingKeeps DEF TypeInv, Enter, Notifies, InWait, Counted, Actors
    <2>2. CASE LeaveCount(t)
      BY <1>0, <2>2, CountingKeeps DEF TypeInv, LeaveCount, Notifies, InWait, Actors
    <2>3. CASE LeaveNotify(t)
      BY <1>0, <2>3, NotifyKeeps DEF TypeInv, LeaveNotify, InWait, Actors
    <2>4. CASE StartWait(t) \/ CheckEarlyExit(t) \/ Begin(t) \/ Start(t) \/ Leave(t) \/ DestroyThread(t)
      BY <1>0, <2>4, PlainKeeps DEF TypeInv, StartWait, CheckEarlyExit, Begin, Start, Leave, DestroyThread,
         Notifies, InWait, Actors
    <2> QED BY <1>2, <2>1, <2>2, <2>3, <2>4 DEF ExecutionThread
  <1>3. CASE SleepThread(t)
    <2>1. CASE SleepCount(t) \/ WakeCount(t)
      BY <1>0, <2>1, CountingKeeps DEF TypeInv, SleepCount, WakeCount, Notifies, InWait, Actors
    <2>2. CASE SleepNotify(t) \/ WakeNotify(t)
      BY <1>0, <2>2, NotifyKeeps DEF TypeInv, SleepNotify, WakeNotify, InWait, Actors
    <2>3. CASE SleepFlag(t) \/ SleepWait(t) \/ WakeFlag(t) \/ PauseReturn(t)
      BY <1>0, <2>3, PlainKeeps DEF TypeInv, SleepFlag, SleepWait, WakeFlag, PauseReturn, Notifies, InWait, Actors
    <2> QED BY <1>3, <2>1, <2>2, <2>3 DEF SleepThread
  <1>4. CASE StopStep(t)
    <2>1. CASE \E u \in Threads : StopExchange(t, u)
      BY <1>0, <2>1, PlainKeeps DEF TypeInv, StopExchange, Visit, Notifies, InWait, Actors
    <2>2. CASE StopSignal(t) \/ StopEarly(t) \/ StopEnd(t)
      BY <1>0, <2>2, PlainKeeps DEF TypeInv, StopSignal, StopEarly, StopEnd, Notifies, InWait, Actors
    <2> QED BY <1>4, <2>1, <2>2 DEF StopStep
  <1>5. CASE CloneStep(t)
    <2>1. CASE InitializeThread(t)
      <3>1. current[t] \in Threads /\ pc[current[t]] = "absent"
        BY <2>1 DEF IInv, CloneInv, TypeInv, InitializeThread
      <3> QED BY <1>0, <2>1, <3>1, PlainKeeps DEF TypeInv, InitializeThread, Notifies, InWait, Actors
    <2>2. CASE ThreadWaiting(t) \/ SetUpThread(t) \/ RunThread(t)
      BY <1>0, <2>2, PlainKeeps DEF TypeInv, ThreadWaiting, SetUpThread, RunThread, Notifies, InWait, Actors
    <2> QED BY <1>5, <2>1, <2>2 DEF CloneStep
  <1>6. CASE WaitStep(t)
    BY <1>0, <1>6, WakeWaitStep
  <1>7. CASE ExitSignal(t) \/ Exit(t) \/ ExitGroup(t) \/ \E c \in Threads : CreateThread(t, c)
    BY <1>0, <1>7, PlainKeeps
       DEF TypeInv, ExitSignal, Exit, ExitGroup, StopStart, CreateThread, Notifies, InWait, Actors
  <1> QED BY <1>1, <1>2, <1>3, <1>4, <1>5, <1>6, <1>7 DEF ThreadStep, GuestCall

LEMMA WakeGdbStep ==
    ASSUME IInv, IInv', WakeInv, GdbStep \/ Command
    PROVE  WakeInv'
  <1>0. Gdb \in Actors /\ Gdb \notin Threads /\ TypeInv
    BY ThreadAssumption DEF Actors, IInv
  <1>1. CASE \E t \in Threads : NotifyPause(t) \/ RunNotify(t) \/ StopExchange(Gdb, t)
    BY <1>0, <1>1, PlainKeeps DEF TypeInv, NotifyPause, RunNotify, StopExchange, Visit, Notifies, InWait, Actors
  <1>2. CASE NotifyPauseSignal \/ NotifyPauseEnd \/ RunEnd \/ NumThreads
    BY <1>0, <1>2, PlainKeeps
       DEF TypeInv, NotifyPauseSignal, NotifyPauseEnd, RunEnd, NumThreads, Notifies, InWait, Actors
  <1>3. CASE StopSignal(Gdb) \/ StopEarly(Gdb) \/ StopEnd(Gdb)
    BY <1>0, <1>3, PlainKeeps DEF TypeInv, StopSignal, StopEarly, StopEnd, Notifies, InWait, Actors
  <1>4. CASE WaitStep(Gdb)
    BY <1>0, <1>4, WakeWaitStep
  <1>5. CASE Pause \/ Run \/ Kill
    BY <1>0, <1>5, PlainKeeps DEF TypeInv, Pause, Run, Kill, StopStart, Notifies, InWait, Actors
  <1> QED BY <1>1, <1>2, <1>3, <1>4, <1>5 DEF GdbStep, StopStep, Command

LEMMA RiseThreadStep ==
    ASSUME NEW t \in Threads, IInv, RiseInv, ThreadStep(t) \/ GuestCall(t), Orderly
    PROVE  RiseInv'
  <1>0. t \in Actors /\ Gdb # t /\ TypeInv
    BY ThreadAssumption DEF Actors, IInv
  <1>1. SUFFICES ASSUME pc'[Gdb] \in RunPlaces PROVE RiseInv'
    BY DEF RiseInv
  <1>2. CASE HandleSignalPause(t)
    <2>1. pc'[Gdb] = pc[Gdb] /\ pending[t] # 0
      <3>1. pending[t] = 1 /\ (StopTaken(t) \/ PauseTaken(t))
        BY <1>2, SignalIsTaken DEF SignalTaken
      <3>2. pc'[Gdb] = pc[Gdb]
        BY <1>0, <3>1 DEF TypeInv, StopTaken, PauseTaken, Actors
      <3> QED BY <3>1, <3>2
    <2> QED BY <1>1, <2>1 DEF RiseInv
  <1>3. CASE ExecutionThread(t)
    BY <1>0, <1>3
       DEF RiseInv, ExecutionThread, TypeInv, Enter, StartWait, CheckEarlyExit, Begin, Start, Leave, LeaveCount,
           LeaveNotify, DestroyThread, Actors
  <1>4. CASE SleepThread(t)
    <2>1. CASE PauseReturn(t)
      BY <1>0, <2>1, PauseIsReturned DEF RiseInv, TypeInv, Returned, Actors
    <2> QED BY <1>0, <1>4, <2>1
       DEF RiseInv, SleepThread, TypeInv, SleepCount, SleepNotify, SleepFlag, SleepWait, WakeCount, WakeFlag,
           WakeNotify, Actors
  <1>5. CASE StopStep(t) \/ CloneStep(t) \/ ExitSignal(t) \/ Exit(t) \/ ExitGroup(t)
             \/ \E c \in Threads : CreateThread(t, c)
    <2>1. pc[t] \in Cloning \cup Stopping \cup {"guest"}
      BY <1>5 DEF StopStep, StopExchange, StopSignal, StopEarly, StopEnd, CloneStep, InitializeThread,
         ThreadWaiting, SetUpThread, RunThread, ExitSignal, Exit, ExitGroup, CreateThread
    <2>2. CASE pc[t] # "guest"
      <3>1. pc[Gdb] = "idle"
        BY <2>1, <2>2 DEF IInv, BusyInv
      <3>2. pc'[Gdb] = pc[Gdb]
        BY <1>0, <1>5, <2>2, ThreadAssumption
           DEF TypeInv, IInv, CloneInv, StopStep, StopExchange, StopSignal, StopEarly, StopEnd, CloneStep,
           InitializeThread, ThreadWaiting, SetUpThread, RunThread, ExitSignal, Exit, ExitGroup, CreateThread,
           Actors
      <3> QED BY <1>1, <3>1, <3>2
    <2>3. CASE pc[t] = "guest"
      <3>1. Exit(t) \/ ExitGroup(t) \/ \E c \in Threads : CreateThread(t, c)
        BY <1>5, <2>3 DEF StopStep, StopExchange, StopSignal, StopEarly, StopEnd, CloneStep, InitializeThread,
           ThreadWaiting, SetUpThread, RunThread, ExitSignal
      <3> QED BY <1>0, <3>1 DEF RiseInv, TypeInv, Exit, ExitGroup, StopStart, CreateThread, Actors
    <2> QED BY <2>2, <2>3
  <1>6. CASE WaitStep(t)
    BY <1>0, <1>6 DEF RiseInv, WaitStep, TypeInv, WaitTest, WaitBlock, WaitDone, AfterWait, InWait, Actors
  <1> QED BY <1>2, <1>3, <1>4, <1>5, <1>6 DEF ThreadStep, GuestCall

LEMMA RiseGdbStep ==
    ASSUME IInv, RiseInv, GdbStep \/ Command, Orderly
    PROVE  RiseInv'
  <1>0. Gdb \in Actors /\ Gdb \notin Threads /\ TypeInv
    BY ThreadAssumption DEF Actors, IInv
  <1>1. SUFFICES ASSUME pc'[Gdb] \in RunPlaces PROVE RiseInv'
    BY DEF RiseInv
  <1>2. CASE \E t \in Threads : NotifyPause(t) \/ RunNotify(t) \/ StopExchange(Gdb, t)
    BY <1>0, <1>1, <1>2 DEF RiseInv, TypeInv, NotifyPause, RunNotify, StopExchange, Actors
  <1>3. CASE NotifyPauseSignal \/ NotifyPauseEnd \/ RunEnd \/ NumThreads
    BY <1>0, <1>1, <1>3 DEF RiseInv, TypeInv, NotifyPauseSignal, NotifyPauseEnd, RunEnd, NumThreads, Actors
  <1>4. CASE StopSignal(Gdb) \/ StopEarly(Gdb) \/ StopEnd(Gdb) \/ Pause \/ Kill
    BY <1>0, <1>1, <1>4 DEF TypeInv, StopSignal, StopEarly, StopEnd, Pause, Kill, StopStart, Actors
  <1>5. CASE WaitStep(Gdb)
    BY <1>0, <1>1, <1>5 DEF RiseInv, WaitStep, TypeInv, WaitTest, WaitBlock, WaitDone, AfterWait, InWait, Actors
  <1>6. CASE GdbMay /\ Run
    BY <1>0, <1>6 DEF RiseInv, TypeInv, Run, GdbMay, Settled, Orderly, Actors
  <1> QED BY <1>2, <1>3, <1>4, <1>5, <1>6 DEF GdbStep, StopStep, Command

\* Every path that changes the idle counter so that a wait is over notifies
\* after it: a pause, a continue, a kill and the end of the process sleep for
\* good only on a notification that fell between the test and the sleep.
THEOREM OnlyMissedAlways ==
    ASSUME Orderly
    PROVE  Spec => []OnlyMissed
  <1>1. Init => WakeInv /\ RiseInv
    BY ThreadAssumption DEF Init, WakeInv, RiseInv, Actors
  <1>2. ASSUME IInv, IInv', WakeInv, RiseInv, [Next]_vars PROVE WakeInv' /\ RiseInv'
    <2>1. CASE \E t \in Threads : ThreadStep(t) \/ GuestCall(t)
      BY <1>2, <2>1, WakeThreadStep, RiseThreadStep
    <2>2. CASE GdbStep \/ Command
      BY <1>2, <2>2, WakeGdbStep, RiseGdbStep
    <2>3. CASE UNCHANGED vars
      <3>1. \A a \in Actors : InWait(a) => pc'[a] = pc[a] /\ todo'[a] = todo[a]
        BY <2>3 DEF vars
      <3>2. \A t \in Threads : Notifies(t) => Notifies(t)'
        BY <2>3 DEF vars, Notifies
      <3>3. UNCHANGED idleVars
        BY <2>3 DEF vars
      <3> QED BY <1>2, <2>3, <3>1, <3>2, <3>3, PlainKeeps DEF vars, RiseInv
    <2> QED BY <1>2, <2>1, <2>2, <2>3 DEF Next
  <1>3. WakeInv => OnlyMissed
    BY DEF WakeInv, OnlyMissed
  <1> QED BY <1>1, <1>2, <1>3, Invariance, PTL DEF Spec
=============================================================================
