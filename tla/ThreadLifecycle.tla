--------------------------- MODULE ThreadLifecycle ---------------------------
(***************************************************************************)
(* How guest threads start, pause, continue and stop: the idle counter and *)
(* condition variable of Context, the events of InternalThreadState, the   *)
(* pause signal and its handler, and the two kinds of callers that use     *)
(* them, the GDB server and the guest threads themselves.                  *)
(*                                                                         *)
(* Where a guest thread is:                                                *)
(*   "absent", "gone"        not created yet, and destroyed                *)
(*   "enter" .. "start"      ExecutionThread before guest code: "enter"    *)
(*                           before it is counted, "waiting" for           *)
(*                           StartRunning, "check" before the test of      *)
(*                           EarlyExit, "begin" and "start" before the     *)
(*                           stores to WaitingToStart and Running          *)
(*   "guest"                 runs guest code                               *)
(*   "create" .. "release"   clone(), up to the new thread's RunThread     *)
(*   "stop", "stop_signal", "stop_early", "stop_self"   Stop()             *)
(*   "exit", "exited"        StopThread of itself                          *)
(*   "sleep" .. "wake_return"   the pause handler, SleepThread             *)
(*   "leave" .. "destroy"    ExecutionThread after guest code              *)
(*   "wait_exit"             the parent thread, in RunUntilExit            *)
(*   "lost"                  in undefined behaviour                        *)
(* The GDB server is "idle" between two commands and "done" after a kill.  *)
(***************************************************************************)
EXTENDS Integers, FiniteSets, Sequences

CONSTANTS
    Threads,        \* guest threads; each is created at most once (bound)
    Parent,         \* the thread of RunUntilExit
    Gdb,            \* the thread of the GDB server
    NoThread,
    FirstClone,     \* NeedToCheckXID: no thread has been created before
    COUNT_RANGE,    \* values of the idle counter (2^32 in the code)
    MaxNested,      \* bound: pause handlers on a thread's stack
    Overlaps        \* what may overlap with something else: "gdb", a command
                    \* comes while threads are still starting, stopping or
                    \* going to sleep; "guest", a guest thread clones or
                    \* exits meanwhile

Actors == Threads \cup {Gdb}

ASSUME ThreadAssumption ==
    /\ IsFiniteSet(Threads) /\ Parent \in Threads
    /\ Gdb \notin Threads /\ NoThread \notin Threads \cup {Gdb}
ASSUME CountAssumption ==
    COUNT_RANGE \in Nat /\ COUNT_RANGE > Cardinality(Threads) /\ MaxNested \in Nat \ {0}
ASSUME OverlapAssumption ==
    FirstClone \in BOOLEAN /\ Overlaps \subseteq {"gdb", "guest"}

VARIABLES
    IdleWaitRefCount,    \* threads that are not idle
    CoreRunning,         \* Context::Running
    NeedToCheckXID,
    Listed,              \* Context::Threads
    CreationOwner,       \* holder of ThreadCreationMutex, or NoThread
    tested,              \* actors whose test has failed and who do not sleep yet
    waiters,             \* actors that sleep on IdleWaitCV
    missed,              \* history: those of them a notification came too early for
    Running, WaitingToStart, EarlyExit, ThreadSleeping, \* RunningEvents
    SignalReason,
    pending,             \* pause signals queued for the thread (63 is real-time)
    StartRunning,        \* the event is signaled
    pc,
    resume,              \* thread -> places its pause handlers return to
    todo,                \* actor -> threads its loop has yet to visit
    current,             \* actor -> thread its loop, or its clone, is at
    prepared             \* threads whose creator has set up their state

eventVars == <<Running, WaitingToStart, EarlyExit, ThreadSleeping>>
idleVars == <<IdleWaitRefCount, tested, waiters, missed>>
signalVars == <<SignalReason, pending>>
listVars == <<Listed, CreationOwner, NeedToCheckXID, prepared>>
loopVars == <<todo, current>>
vars == <<eventVars, idleVars, signalVars, listVars, loopVars, CoreRunning, StartRunning, pc, resume>>

Starting == {"waiting", "check", "begin", "start"}
Cloning == {"create", "wait_child", "set_up", "release"}
Stopping == {"stop", "stop_signal", "stop_early", "stop_self", "exit", "exited"}
Sleeping == {"sleep_notify", "sleep_flag", "asleep", "wake"}
Waking == {"sleep", "wake_flag", "wake_notify", "wake_return"}
Leaving == {"leave", "leave_count"}

\* Executes guest code, or a system call for it.
InGuest == {"guest"} \cup Cloning \cup Stopping

ThreadPlaces == {"absent", "enter", "leave_notify", "destroy", "wait_exit", "gone", "lost"}
                  \cup Starting \cup InGuest \cup Sleeping \cup Waking \cup Leaving
GdbPlaces == {"idle", "pause", "pause_signal", "wait_idle", "run", "count", "wait_run",
              "stop", "stop_signal", "stop_early", "wait_kill", "done"}

TypeOK ==
    /\ IdleWaitRefCount \in 0 .. COUNT_RANGE - 1
    /\ {CoreRunning, NeedToCheckXID} \subseteq BOOLEAN
    /\ Listed \subseteq Threads /\ prepared \subseteq Threads
    /\ CreationOwner \in Actors \cup {NoThread}
    /\ tested \cup waiters \subseteq {Gdb, Parent} /\ tested \cap waiters = {}
    /\ missed \subseteq tested \cup waiters
    /\ {Running, WaitingToStart, EarlyExit, ThreadSleeping, StartRunning}
          \subseteq [Threads -> BOOLEAN]
    /\ pending \in [Threads -> Nat]
    /\ SignalReason \in [Threads -> {"Nothing", "Pause", "Stop", "Return"}]
    /\ \A t \in Threads : pc[t] \in ThreadPlaces
    /\ pc[Gdb] \in GdbPlaces
    /\ \A t \in Threads : Len(resume[t]) <= MaxNested
    /\ todo \in [Actors -> SUBSET Threads]
    /\ current \in [Actors -> Threads \cup {NoThread}]

\* The GDB server is attached (StartPaused) and the parent thread is created.
Init ==
    /\ IdleWaitRefCount = 0
    /\ CoreRunning = FALSE
    /\ NeedToCheckXID = FirstClone
    /\ Listed = {Parent}
    /\ CreationOwner = NoThread
    /\ tested = {} /\ waiters = {} /\ missed = {}
    /\ Running = [t \in Threads |-> FALSE]
    /\ WaitingToStart = [t \in Threads |-> TRUE]
    /\ EarlyExit = [t \in Threads |-> FALSE]
    /\ ThreadSleeping = [t \in Threads |-> FALSE]
    /\ SignalReason = [t \in Threads |-> "Nothing"]
    /\ pending = [t \in Threads |-> 0]
    /\ StartRunning = [t \in Threads |-> FALSE]
    /\ pc = [a \in Actors |-> IF a = Parent THEN "enter" ELSE IF a = Gdb THEN "idle" ELSE "absent"]
    /\ resume = [t \in Threads |-> <<>>]
    /\ todo = [a \in Actors |-> {}]
    /\ current = [a \in Actors |-> NoThread]
    /\ prepared = {Parent}

-----------------------------------------------------------------------------
(* Counter, events, lock *)

Goto(a, place) == pc' = [pc EXCEPT ![a] = place]

Count(d) == IdleWaitRefCount' = (IdleWaitRefCount + d) % COUNT_RANGE

\* IdleWaitCV.notify_all(), without IdleWaitMutex: it wakes those who sleep,
\* not one who has tested and is about to.
NotifyIdle ==
    /\ waiters' = {}
    /\ missed' = tested
    /\ UNCHANGED tested

Lock(a) == CreationOwner = NoThread /\ CreationOwner' = a
Unlock(a) == CreationOwner = a /\ CreationOwner' = NoThread

\* A step of the loop of a over todo[a] takes up t.
Visit(a, t) ==
    /\ t \in todo[a]
    /\ todo' = [todo EXCEPT ![a] = @ \ {t}]
    /\ current' = [current EXCEPT ![a] = t]

\* Nothing is under way in thread t: it waits to start, runs or sleeps.
Settled(t) ==
    /\ pc[t] \in {"waiting", "guest", "asleep", "absent", "gone"}
    /\ pending[t] = 0
    /\ StartRunning[t] => pc[t] = "guest"

-----------------------------------------------------------------------------
(* ExecutionThread *)

Enter(t) ==
    /\ pc[t] = "enter"
    /\ Count(1)
    /\ Goto(t, "waiting")
    /\ UNCHANGED <<tested, waiters, missed, eventVars, signalVars, listVars, loopVars, CoreRunning, StartRunning, resume>>

\* StartRunning.Wait()
StartWait(t) ==
    /\ pc[t] = "waiting" /\ StartRunning[t]
    /\ StartRunning' = [StartRunning EXCEPT ![t] = FALSE]
    /\ Goto(t, "check")
    /\ UNCHANGED <<idleVars, eventVars, signalVars, listVars, loopVars, CoreRunning, resume>>

CheckEarlyExit(t) ==
    /\ pc[t] = "check"
    /\ Goto(t, IF EarlyExit[t] THEN "leave" ELSE "begin")
    /\ UNCHANGED <<idleVars, eventVars, signalVars, listVars, loopVars, CoreRunning, StartRunning, resume>>

Begin(t) ==
    /\ pc[t] = "begin"
    /\ WaitingToStart' = [WaitingToStart EXCEPT ![t] = FALSE]
    /\ Goto(t, "start")
    /\ UNCHANGED <<idleVars, Running, EarlyExit, ThreadSleeping, signalVars, listVars, loopVars,
                   CoreRunning, StartRunning, resume>>

Start(t) ==
    /\ pc[t] = "start"
    /\ Running' = [Running EXCEPT ![t] = TRUE]
    /\ Goto(t, "guest")
    /\ UNCHANGED <<idleVars, WaitingToStart, EarlyExit, ThreadSleeping, signalVars, listVars, loopVars,
                   CoreRunning, StartRunning, resume>>

\* The dispatcher has returned.
Leave(t) ==
    /\ pc[t] = "leave"
    /\ Running' = [Running EXCEPT ![t] = FALSE]
    /\ Goto(t, "leave_count")
    /\ UNCHANGED <<idleVars, WaitingToStart, EarlyExit, ThreadSleeping, signalVars, listVars, loopVars,
                   CoreRunning, StartRunning, resume>>

LeaveCount(t) ==
    /\ pc[t] = "leave_count"
    /\ Count(-1)
    /\ Goto(t, "leave_notify")
    /\ UNCHANGED <<tested, waiters, missed, eventVars, signalVars, listVars, loopVars, CoreRunning, StartRunning, resume>>

\* ... the parent thread goes on to WaitForIdle.
LeaveNotify(t) ==
    /\ pc[t] = "leave_notify"
    /\ NotifyIdle
    /\ Goto(t, IF t = Parent THEN "wait_exit" ELSE "destroy")
    /\ UNCHANGED <<IdleWaitRefCount, eventVars, signalVars, listVars, loopVars, CoreRunning, StartRunning, resume>>

DestroyThread(t) ==
    /\ pc[t] = "destroy" /\ CreationOwner = NoThread
    /\ Listed' = Listed \ {t}
    /\ Goto(t, "gone")
    /\ UNCHANGED <<idleVars, eventVars, signalVars, CreationOwner, NeedToCheckXID, prepared, loopVars,
                   CoreRunning, StartRunning, resume>>

-----------------------------------------------------------------------------
(* The pause signal: HandleSignalPause and SleepThread *)

\* Mutant: a stop that finds the thread asleep does not count it again.
StopUncounted(t) ==
    /\ Goto(t, "leave")
    /\ UNCHANGED IdleWaitRefCount
    /\ resume' = [resume EXCEPT ![t] = <<>>]

\* The stop signal takes the thread out of the dispatcher, from wherever it
\* is, and drops its stack.  A thread that sleeps is off the counter already.
HandleStop(t) ==
    /\ Goto(t, "leave")
    /\ IF ThreadSleeping[t] THEN Count(1) ELSE UNCHANGED IdleWaitRefCount
    /\ resume' = [resume EXCEPT ![t] = <<>>]

HandlePause(t) ==
    /\ Len(resume[t]) < MaxNested
    /\ resume' = [resume EXCEPT ![t] = <<pc[t]>> \o @]
    /\ Goto(t, "sleep")
    /\ UNCHANGED IdleWaitRefCount

\* The thread state is restored from a stack that does not hold one: what
\* the thread does then is undefined, and it is given up.
HandleReturn(t) == Goto(t, "lost") /\ UNCHANGED <<IdleWaitRefCount, resume>>

HandleSignalPause(t) ==
    /\ pending[t] > 0 /\ pc[t] \notin {"absent", "gone"}
    /\ pending' = [pending EXCEPT ![t] = @ - 1]
    /\ SignalReason' = [SignalReason EXCEPT ![t] = "Nothing"]
    /\ CASE SignalReason[t] = "Pause" -> HandlePause(t)
         [] SignalReason[t] = "Stop" -> HandleStop(t)
         [] SignalReason[t] = "Return" -> HandleReturn(t)
         [] SignalReason[t] = "Nothing" -> UNCHANGED <<IdleWaitRefCount, pc, resume>>
    /\ UNCHANGED <<tested, waiters, missed, eventVars, listVars, loopVars, CoreRunning, StartRunning>>

SleepCount(t) ==
    /\ pc[t] = "sleep"
    /\ Count(-1)
    /\ Goto(t, "sleep_notify")
    /\ UNCHANGED <<tested, waiters, missed, eventVars, signalVars, listVars, loopVars, CoreRunning, StartRunning, resume>>

\* Mutant: a thread that goes to sleep does not notify.
SleepSilently(t) ==
    /\ pc[t] = "sleep_notify"
    /\ Goto(t, "sleep_flag")
    /\ UNCHANGED <<idleVars, eventVars, signalVars, listVars, loopVars, CoreRunning, StartRunning, resume>>

SleepNotify(t) ==
    /\ pc[t] = "sleep_notify"
    /\ NotifyIdle
    /\ Goto(t, "sleep_flag")
    /\ UNCHANGED <<IdleWaitRefCount, eventVars, signalVars, listVars, loopVars, CoreRunning, StartRunning, resume>>

SleepFlag(t) ==
    /\ pc[t] = "sleep_flag"
    /\ ThreadSleeping' = [ThreadSleeping EXCEPT ![t] = TRUE]
    /\ Goto(t, "asleep")
    /\ UNCHANGED <<idleVars, Running, WaitingToStart, EarlyExit, signalVars, listVars, loopVars,
                   CoreRunning, StartRunning, resume>>

SleepWait(t) ==
    /\ pc[t] = "asleep" /\ StartRunning[t]
    /\ StartRunning' = [StartRunning EXCEPT ![t] = FALSE]
    /\ Goto(t, "wake")
    /\ UNCHANGED <<idleVars, eventVars, signalVars, listVars, loopVars, CoreRunning, resume>>

WakeCount(t) ==
    /\ pc[t] = "wake"
    /\ Running' = [Running EXCEPT ![t] = TRUE]
    /\ Count(1)
    /\ Goto(t, "wake_flag")
    /\ UNCHANGED <<tested, waiters, missed, WaitingToStart, EarlyExit, ThreadSleeping, signalVars, listVars, loopVars,
                   CoreRunning, StartRunning, resume>>

WakeFlag(t) ==
    /\ pc[t] = "wake_flag"
    /\ ThreadSleeping' = [ThreadSleeping EXCEPT ![t] = FALSE]
    /\ Goto(t, "wake_notify")
    /\ UNCHANGED <<idleVars, Running, WaitingToStart, EarlyExit, signalVars, listVars, loopVars,
                   CoreRunning, StartRunning, resume>>

WakeNotify(t) ==
    /\ pc[t] = "wake_notify"
    /\ NotifyIdle
    /\ Goto(t, "wake_return")
    /\ UNCHANGED <<IdleWaitRefCount, eventVars, signalVars, listVars, loopVars, CoreRunning, StartRunning, resume>>

\* HandleSIGILL at PauseReturnInstruction: the interrupted state is restored.
PauseReturn(t) ==
    /\ pc[t] = "wake_return"
    /\ Goto(t, Head(resume[t]))
    /\ resume' = [resume EXCEPT ![t] = Tail(@)]
    /\ UNCHANGED <<idleVars, eventVars, signalVars, listVars, loopVars, CoreRunning, StartRunning>>

-----------------------------------------------------------------------------
(* Stop, by the GDB server or by a guest thread's exit_group *)

StopStart(a) ==
    /\ Lock(a)
    /\ todo' = [todo EXCEPT ![a] = Listed \ {a}]
    /\ Goto(a, "stop")
    /\ UNCHANGED <<eventVars, idleVars, signalVars, Listed, NeedToCheckXID, prepared, current,
                   CoreRunning, StartRunning, resume>>

\* StopThread of a running thread: Running.exchange(false) ...
StopExchange(a, t) ==
    /\ pc[a] = "stop" /\ Visit(a, t)
    /\ Running' = [Running EXCEPT ![t] = FALSE]
    /\ Goto(a, IF Running[t] THEN "stop_signal" ELSE "stop_early")
    /\ UNCHANGED <<WaitingToStart, EarlyExit, ThreadSleeping, idleVars, signalVars, listVars,
                   CoreRunning, StartRunning, resume>>

\* ... and the signal.
StopSignal(a) ==
    /\ pc[a] = "stop_signal"
    /\ SignalReason' = [SignalReason EXCEPT ![current[a]] = "Stop"]
    /\ pending' = [pending EXCEPT ![current[a]] = @ + 1]
    /\ Goto(a, "stop_early")
    /\ UNCHANGED <<eventVars, idleVars, listVars, loopVars, CoreRunning, StartRunning, resume>>

\* Mutant: threads that wait to start are not told.
StopEarlySkipped(a) ==
    /\ pc[a] = "stop_early"
    /\ Goto(a, "stop")
    /\ UNCHANGED <<eventVars, idleVars, signalVars, listVars, loopVars, CoreRunning, StartRunning, resume>>

\* A thread that waits to start is let go, to leave at once.
StopEarly(a) ==
    /\ pc[a] = "stop_early"
    /\ LET told == {t \in {current[a]} : WaitingToStart[t]} IN
       /\ EarlyExit' = [t \in Threads |-> EarlyExit[t] \/ t \in told]
       /\ StartRunning' = [t \in Threads |-> StartRunning[t] \/ t \in told]
    /\ Goto(a, "stop")
    /\ UNCHANGED <<Running, WaitingToStart, ThreadSleeping, idleVars, signalVars, listVars, loopVars,
                   CoreRunning, resume>>

\* Mutant: the GDB server's thread is taken for a guest thread.
StopEndSelf(a) ==
    /\ pc[a] = "stop" /\ todo[a] = {}
    /\ Unlock(a)
    /\ current' = [current EXCEPT ![a] = NoThread]
    /\ Goto(a, "stop_self")
    /\ UNCHANGED <<eventVars, idleVars, signalVars, Listed, NeedToCheckXID, prepared, todo,
                   CoreRunning, StartRunning, resume>>

\* The GDB server then waits; a guest thread stops itself last.
StopEnd(a) ==
    /\ pc[a] = "stop" /\ todo[a] = {}
    /\ Unlock(a)
    /\ current' = [current EXCEPT ![a] = NoThread]
    /\ Goto(a, IF a = Gdb THEN "wait_kill" ELSE "stop_self")
    /\ UNCHANGED <<eventVars, idleVars, signalVars, Listed, NeedToCheckXID, prepared, todo,
                   CoreRunning, StartRunning, resume>>

-----------------------------------------------------------------------------
(* What guest threads do *)

\* exit, and the end of exit_group: the thread stops itself.
Exit(t) ==
    /\ pc[t] \in {"guest", "stop_self"}
    /\ Running' = [Running EXCEPT ![t] = FALSE]
    /\ Goto(t, IF Running[t] THEN "exit" ELSE "exited")
    /\ UNCHANGED <<WaitingToStart, EarlyExit, ThreadSleeping, idleVars, signalVars, listVars, loopVars,
                   CoreRunning, StartRunning, resume>>

ExitSignal(t) ==
    /\ pc[t] = "exit"
    /\ SignalReason' = [SignalReason EXCEPT ![t] = "Stop"]
    /\ pending' = [pending EXCEPT ![t] = @ + 1]
    /\ Goto(t, "exited")
    /\ UNCHANGED <<eventVars, idleVars, listVars, loopVars, CoreRunning, StartRunning, resume>>

ExitGroup(t) == pc[t] = "guest" /\ StopStart(t)

\* clone: CreateThread
CreateThread(t, c) ==
    /\ pc[t] = "guest" /\ pc[c] = "absent" /\ c \notin Listed /\ CreationOwner = NoThread
    /\ Listed' = Listed \cup {c}
    /\ current' = [current EXCEPT ![t] = c]
    /\ Goto(t, "create")
    /\ UNCHANGED <<eventVars, idleVars, signalVars, CreationOwner, NeedToCheckXID, prepared, todo,
                   CoreRunning, StartRunning, resume>>

\* ... InitializeThread: the host thread is created ...
InitializeThread(t) ==
    /\ pc[t] = "create"
    /\ pc' = [pc EXCEPT ![t] = "wait_child", ![current[t]] = "enter"]
    /\ UNCHANGED <<eventVars, idleVars, signalVars, listVars, loopVars, CoreRunning, StartRunning, resume>>

\* ... it waits for it to be there, and the first time starts it.
ThreadWaiting(t) ==
    /\ pc[t] = "wait_child" /\ pc[current[t]] # "enter"
    /\ NeedToCheckXID' = FALSE
    /\ StartRunning' = [StartRunning EXCEPT ![current[t]] = @ \/ NeedToCheckXID]
    /\ Goto(t, "set_up")
    /\ UNCHANGED <<eventVars, idleVars, signalVars, Listed, CreationOwner, prepared, loopVars, CoreRunning, resume>>

\* ... CreateNewThread: thread area, instruction pointer and thread ids ...
SetUpThread(t) ==
    /\ pc[t] = "set_up"
    /\ prepared' = prepared \cup {current[t]}
    /\ Goto(t, "release")
    /\ UNCHANGED <<eventVars, idleVars, signalVars, Listed, CreationOwner, NeedToCheckXID, loopVars,
                   CoreRunning, StartRunning, resume>>

\* ... RunThread.
RunThread(t) ==
    /\ pc[t] = "release"
    /\ StartRunning' = [StartRunning EXCEPT ![current[t]] = TRUE]
    /\ current' = [current EXCEPT ![t] = NoThread]
    /\ Goto(t, "guest")
    /\ UNCHANGED <<eventVars, idleVars, signalVars, listVars, todo, CoreRunning, resume>>

-----------------------------------------------------------------------------
(* The GDB server *)

\* Pause: only when the core runs.
Pause ==
    /\ pc[Gdb] = "idle" /\ CoreRunning
    /\ Lock(Gdb)
    /\ todo' = [todo EXCEPT ![Gdb] = Listed]
    /\ Goto(Gdb, "pause")
    /\ UNCHANGED <<eventVars, idleVars, signalVars, Listed, NeedToCheckXID, prepared, current,
                   CoreRunning, StartRunning, resume>>

NotifyPause(t) ==
    /\ pc[Gdb] = "pause" /\ Visit(Gdb, t)
    /\ SignalReason' = [SignalReason EXCEPT ![t] = "Pause"]
    /\ Goto(Gdb, "pause_signal")
    /\ UNCHANGED <<eventVars, idleVars, pending, listVars, CoreRunning, StartRunning, resume>>

\* Mutant: a thread is marked for the pause and gets no signal.
NotifyPauseUnsent ==
    /\ pc[Gdb] = "pause_signal"
    /\ Goto(Gdb, "pause")
    /\ UNCHANGED <<eventVars, idleVars, signalVars, listVars, loopVars, CoreRunning, StartRunning, resume>>

NotifyPauseSignal ==
    /\ pc[Gdb] = "pause_signal"
    /\ pending' = [pending EXCEPT ![current[Gdb]] = IF Running[current[Gdb]] THEN @ + 1 ELSE @]
    /\ Goto(Gdb, "pause")
    /\ UNCHANGED <<eventVars, idleVars, SignalReason, listVars, loopVars, CoreRunning, StartRunning, resume>>

NotifyPauseEnd ==
    /\ pc[Gdb] = "pause" /\ todo[Gdb] = {}
    /\ Unlock(Gdb)
    /\ Goto(Gdb, "wait_idle")
    /\ UNCHANGED <<eventVars, idleVars, signalVars, Listed, NeedToCheckXID, prepared, loopVars,
                   CoreRunning, StartRunning, resume>>

\* Run, whether the core runs or not.
Run ==
    /\ pc[Gdb] = "idle"
    /\ Lock(Gdb)
    /\ SignalReason' = [t \in Threads |-> IF t \in Listed THEN "Return" ELSE SignalReason[t]]
    /\ todo' = [todo EXCEPT ![Gdb] = Listed]
    /\ Goto(Gdb, "run")
    /\ UNCHANGED <<eventVars, idleVars, pending, Listed, NeedToCheckXID, prepared, current,
                   CoreRunning, StartRunning, resume>>

RunNotify(t) ==
    /\ pc[Gdb] = "run" /\ Visit(Gdb, t)
    /\ StartRunning' = [StartRunning EXCEPT ![t] = TRUE]
    /\ UNCHANGED <<eventVars, idleVars, signalVars, listVars, CoreRunning, pc, resume>>

RunEnd ==
    /\ pc[Gdb] = "run" /\ todo[Gdb] = {}
    /\ Unlock(Gdb)
    /\ Goto(Gdb, "count")
    /\ UNCHANGED <<eventVars, idleVars, signalVars, Listed, NeedToCheckXID, prepared, loopVars,
                   CoreRunning, StartRunning, resume>>

\* WaitForThreadsToRun: NumThreads, kept as the set of them
NumThreads ==
    /\ pc[Gdb] = "count" /\ CreationOwner = NoThread
    /\ todo' = [todo EXCEPT ![Gdb] = Listed]
    /\ Goto(Gdb, "wait_run")
    /\ UNCHANGED <<eventVars, idleVars, signalVars, listVars, current, CoreRunning, StartRunning, resume>>

Kill == pc[Gdb] = "idle" /\ StopStart(Gdb)

-----------------------------------------------------------------------------
(* Waiting on IdleWaitCV *)

\* Mutant: idle with one thread left.
IdleButOne(a) ==
    IF pc[a] = "wait_run" THEN IdleWaitRefCount >= Cardinality(todo[a]) ELSE IdleWaitRefCount <= 1

\* What the waiter waits for.
Idle(a) ==
    IF pc[a] = "wait_run" THEN IdleWaitRefCount >= Cardinality(todo[a]) ELSE IdleWaitRefCount = 0

InWait(a) == pc[a] \in {"wait_idle", "wait_run", "wait_kill", "wait_exit"}

AfterWait(place) == CASE place \in {"wait_idle", "wait_run"} -> "idle"
                      [] place = "wait_kill" -> "done"
                      [] place = "wait_exit" -> "gone"

\* The waiter tests, with IdleWaitMutex held ...
WaitTest(a) ==
    /\ InWait(a) /\ a \notin tested \cup waiters /\ ~Idle(a)
    /\ tested' = tested \cup {a}
    /\ UNCHANGED <<IdleWaitRefCount, waiters, missed, eventVars, signalVars, listVars, loopVars,
                   CoreRunning, StartRunning, pc, resume>>

\* ... and then sleeps; a notification, which does not take IdleWaitMutex, can
\* come in between and is lost.
WaitBlock(a) ==
    /\ a \in tested
    /\ tested' = tested \ {a}
    /\ waiters' = waiters \cup {a}
    /\ UNCHANGED <<IdleWaitRefCount, missed, eventVars, signalVars, listVars, loopVars, CoreRunning,
                   StartRunning, pc, resume>>

WaitDone(a) ==
    /\ InWait(a) /\ a \notin tested \cup waiters /\ Idle(a)
    /\ CoreRunning' = (pc[a] = "wait_run")
    /\ todo' = [todo EXCEPT ![a] = {}]
    /\ current' = [current EXCEPT ![a] = NoThread]
    /\ Goto(a, AfterWait(pc[a]))
    /\ UNCHANGED <<eventVars, idleVars, signalVars, listVars, StartRunning, resume>>

-----------------------------------------------------------------------------

ExecutionThread(t) ==
    \/ Enter(t) \/ StartWait(t) \/ CheckEarlyExit(t) \/ Begin(t) \/ Start(t)
    \/ Leave(t) \/ LeaveCount(t) \/ LeaveNotify(t) \/ DestroyThread(t)

SleepThread(t) ==
    \/ SleepCount(t) \/ SleepNotify(t) \/ SleepFlag(t) \/ SleepWait(t)
    \/ WakeCount(t) \/ WakeFlag(t) \/ WakeNotify(t) \/ PauseReturn(t)

StopStep(a) ==
    \/ \E t \in Threads : StopExchange(a, t)
    \/ StopSignal(a) \/ StopEarly(a) \/ StopEnd(a)

CloneStep(t) == InitializeThread(t) \/ ThreadWaiting(t) \/ SetUpThread(t) \/ RunThread(t)

WaitStep(a) == WaitTest(a) \/ WaitBlock(a) \/ WaitDone(a)

\* The steps a thread takes of itself: the signal comes before anything else.
ThreadStep(t) ==
    \/ HandleSignalPause(t)
    \/ ExecutionThread(t) \/ SleepThread(t) \/ StopStep(t) \/ CloneStep(t) \/ WaitStep(t)
    \/ ExitSignal(t) \/ (pc[t] = "stop_self" /\ Exit(t))

GdbStep ==
    \/ \E t \in Threads : NotifyPause(t) \/ RunNotify(t)
    \/ NotifyPauseSignal \/ NotifyPauseEnd \/ RunEnd \/ NumThreads
    \/ StopStep(Gdb) \/ WaitStep(Gdb)

\* Assumption on the debugger, unless commands may overlap: it sends a command
\* when no thread is on its way somewhere, and continues what is stopped.
GdbMay == "gdb" \in Overlaps \/ \A t \in Threads : Settled(t)
RunMay == "gdb" \in Overlaps \/ ~CoreRunning

Command == GdbMay /\ (Pause \/ (RunMay /\ Run) \/ Kill)

\* Assumption on the guest, unless its calls may overlap: it clones and exits
\* while no command and no stop is under way, exit_group comes when no thread
\* is on its way somewhere, and the parent thread exits last.
GuestMay(t) ==
    "guest" \in Overlaps \/ (pc[Gdb] = "idle" /\ CreationOwner = NoThread /\ pending[t] = 0)
ExitMay(t) ==
    "guest" \in Overlaps \/ (pc[t] # "stop_self" /\ (t = Parent => Listed = {t}))
ExitGroupMay == "guest" \in Overlaps \/ \A u \in Threads : Settled(u)

GuestCall(t) ==
    /\ GuestMay(t)
    /\ \/ ExitMay(t) /\ Exit(t)
       \/ ExitGroupMay /\ ExitGroup(t)
       \/ \E c \in Threads : CreateThread(t, c)

\* RunUntilExit has returned: the process ends, with all its threads.
Ended == pc[Parent] = "gone"

\* Asleep for good: what a waits for holds and the notification is missed.
Stranded(a) == a \in missed \cap waiters /\ Idle(a)

Next ==
    \/ /\ ~Ended
       /\ \/ \E t \in Threads : ThreadStep(t) \/ GuestCall(t)
          \/ GdbStep \/ Command
    \/ (Ended \/ \E a \in Actors : Stranded(a)) /\ UNCHANGED vars

\* The host kernel runs every thread that can run and delivers its signals.
Fairness ==
    /\ \A t \in Threads : WF_vars(~Ended /\ ThreadStep(t))
    /\ WF_vars(~Ended /\ GdbStep)

Spec == Init /\ [][Next]_vars /\ Fairness

-----------------------------------------------------------------------------
(* Properties *)

Counted(t) == pc[t] \in Starting \cup InGuest \cup Waking \cup Leaving

\* The idle counter is the number of threads that are not idle: no path
\* through pause, stop and exit takes a thread off twice or leaves it on.
CountExact == IdleWaitRefCount = Cardinality({t \in Threads : Counted(t)})

\* Once Pause has returned, and until Run, no thread runs guest code.
PausedMeansStopped ==
    pc[Gdb] = "idle" /\ ~CoreRunning => \A t \in Threads : pc[t] \notin InGuest

\* A thread runs guest code only after its creator has set up its registers.
StartsPrepared == \A t \in Threads : pc[t] \in InGuest => t \in prepared

\* A thread has changed the counter and not yet notified.
Notifies(t) == pc[t] \in {"sleep_notify", "wake_flag", "wake_notify", "leave_notify"}

\* The one way to sleep on IdleWaitCV for good: whoever sleeps although what he
\* waits for holds is about to be notified, or the notification fell between
\* his test and his sleep.  No path changes the counter without notifying.
OnlyMissed ==
    \A a \in waiters : Idle(a) => a \in missed \/ \E t \in Threads : Notifies(t)

\* Every pause and continue command brings about what it waits for, and is
\* answered unless the notification came too early for it.
CommandsEnd == []<>(pc[Gdb] \in {"idle", "done"} \/ Ended \/ Stranded(Gdb))

\* A kill, and an exit_group, make every thread leave: the process ends, or
\* the parent thread alone is left, asleep on a notification it missed.
StopEnds ==
    \A a \in Actors : pc[a] = "stop" ~>
        \/ Ended
        \/ /\ Stranded(Parent) /\ pc[Parent] = "wait_exit"
           /\ \A t \in Threads \ {Parent} : pc[t] \in {"absent", "gone"}
=============================================================================
