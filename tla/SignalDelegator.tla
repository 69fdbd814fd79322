--------------------------- MODULE SignalDelegator ---------------------------
(***************************************************************************)
(* Signals of one guest thread: FEX::HLE::SignalDelegator, which keeps the *)
(* guest's actions and its signal mask and derives the host's from them,   *)
(* and the dispatcher, which interrupts the thread for a guest handler or  *)
(* for a pause and restores it afterwards.  The signals in Required are    *)
(* the emulator's own and must reach it whatever the guest asks for.       *)
(*                                                                         *)
(* The host's delivery of a signal and the thunk that handles it are one   *)
(* step.  SIGKILL and SIGSTOP, which no mask holds, and PendingSignals,    *)
(* which nothing sets, are left out.                                       *)
(*                                                                         *)
(* Where the thread is:                                                    *)
(*   "run"      in guest code or a system call that does not wait          *)
(*   "suspend"  in the host's sigsuspend                                   *)
(*   "eintr"    the host's sigsuspend has returned                         *)
(*   "pause"    in the pause handler, until it is resumed                  *)
(*   "stop"     leaves the core            "dead"  killed by a signal      *)
(***************************************************************************)
EXTENDS Integers, Sequences, FiniteSets

CONSTANTS
    Signals,
    Required,             \* the ones with a host handler that is required
    SIGNAL_FOR_PAUSE,
    DEFAULT_IGNORE,       \* the ones whose default is to be ignored
    Masks,                \* bound: the sets passed to sigprocmask
    SuspendMasks,         \* bound: the sets passed to sigsuspend
    Settable,             \* bound: the signals passed to sigaction
    Actions,              \* bound: the actions passed to it
    MaxFrames,            \* bound: guest handlers and callbacks at a time
    HandlersSetMask       \* guest handlers call sigprocmask and sigsuspend

ASSUME RequiredAssumption ==
    SIGNAL_FOR_PAUSE \in Required /\ Required \cup Settable \cup DEFAULT_IGNORE \subseteq Signals
ASSUME MaskAssumption == Masks \cup SuspendMasks \subseteq SUBSET Signals
ASSUME ActionAssumption ==
    Actions \subseteq [handler : {"DFL", "IGN", "guest"}, sa_mask : SUBSET Signals,
                       NODEFER : BOOLEAN, ONSTACK : BOOLEAN]
ASSUME BoundAssumption == MaxFrames \in Nat /\ HandlersSetMask \in BOOLEAN

VARIABLES
    GuestAction,           \* signal -> what the guest has asked for
    HostHandler,           \* signal -> "thunk", "IGN" or "DFL", the host's action
    CurrentSignalMask,     \* the mask the guest has asked for
    PreviousSuspendMask,
    HostMask,              \* the host's mask of the thread
    Saved,                 \* the mask the host's sigsuspend will restore
    Pending,               \* the host's pending signals
    where,
    stack,                 \* the guest stack in use: "main" or "alt"
    AltStack,              \* the guest has an alternative stack
    frames,                \* what the thread is interrupted in, innermost last
    SignalHandlerRefCounter

actions == <<GuestAction, HostHandler>>
masks == <<CurrentSignalMask, PreviousSuspendMask, HostMask, Saved>>
context == <<where, stack, AltStack, frames, SignalHandlerRefCounter>>
vars == <<actions, masks, Pending, context>>

DefaultAction == [handler |-> "DFL", sa_mask |-> {}, NODEFER |-> FALSE, ONSTACK |-> FALSE]

Places == {"run", "suspend", "eintr", "pause", "stop", "dead"}

TypeOK ==
    /\ GuestAction \in [Signals -> Actions \cup {DefaultAction}]
    /\ HostHandler \in [Signals -> {"thunk", "IGN", "DFL"}]
    /\ CurrentSignalMask \subseteq Signals /\ PreviousSuspendMask \subseteq Signals
    /\ HostMask \subseteq Signals /\ Saved \subseteq Signals /\ Pending \subseteq Signals
    /\ where \in Places
    /\ stack \in {"main", "alt"} /\ AltStack \in BOOLEAN
    /\ frames \in Seq([kind : {"guest", "callback", "pause"}, sa_mask : SUBSET Signals,
                       where : Places, stack : {"main", "alt"}, top : BOOLEAN])
    /\ SignalHandlerRefCounter \in Nat

\* The thread has registered its state: the guest's mask is the host's.
Init ==
    /\ GuestAction = [s \in Signals |-> DefaultAction]
    /\ HostHandler = [s \in Signals |-> IF s \in Required THEN "thunk" ELSE "DFL"]
    /\ CurrentSignalMask = {}
    /\ PreviousSuspendMask = {}
    /\ HostMask = {}
    /\ Saved = {}
    /\ Pending = {}
    /\ where = "run"
    /\ stack = "main"
    /\ AltStack = FALSE
    /\ frames = <<>>
    /\ SignalHandlerRefCounter = 0

Top == frames[Len(frames)]
InHandler == \E i \in DOMAIN frames : frames[i].kind = "guest"
MayFrame == Cardinality({i \in DOMAIN frames : frames[i].kind # "pause"}) < MaxFrames

Ignored(s, handler) == handler = "IGN" \/ (handler = "DFL" /\ s \in DEFAULT_IGNORE)

-----------------------------------------------------------------------------
(* System calls *)

\* UpdateHostThunk: what the host is asked to do with s.
UpdateHostThunk(s, action) ==
    IF action.handler = "guest" \/ s \in Required THEN "thunk" ELSE action.handler

\* The host forgets a pending signal that becomes ignored.
RegisterGuestSignalHandler(s, action) ==
    /\ where = "run"
    /\ GuestAction' = [GuestAction EXCEPT ![s] = action]
    /\ HostHandler' = [HostHandler EXCEPT ![s] = UpdateHostThunk(s, action)]
    /\ Pending' = IF Ignored(s, HostHandler'[s]) THEN Pending \ {s} ELSE Pending
    /\ UNCHANGED <<masks, context>>

\* Not while the thread runs on the alternative stack.
RegisterGuestSigAltStack ==
    /\ where = "run"
    /\ ~(AltStack /\ stack = "alt")
    /\ AltStack' \in BOOLEAN
    /\ UNCHANGED <<actions, masks, Pending, where, stack, frames, SignalHandlerRefCounter>>

NewMask(how, set) ==
    CASE how = "BLOCK" -> CurrentSignalMask \cup set
      [] how = "UNBLOCK" -> CurrentSignalMask \ set
      [] how = "SETMASK" -> set

\* The guest is told of all it has masked, the host masks the others.
GuestSigProcMask(how, set) ==
    /\ where = "run"
    /\ HandlersSetMask \/ ~InHandler
    /\ CurrentSignalMask' = NewMask(how, set)
    /\ HostMask' = CurrentSignalMask' \ Required
    /\ UNCHANGED <<actions, PreviousSuspendMask, Saved, Pending, context>>

\* The host's sigsuspend gets the set as it is, the pause signal included.
GuestSigSuspend(set) ==
    /\ where = "run"
    /\ HandlersSetMask \/ ~InHandler
    /\ PreviousSuspendMask' = CurrentSignalMask
    /\ CurrentSignalMask' = set
    /\ Saved' = HostMask
    /\ HostMask' = set
    /\ where' = "suspend"
    /\ UNCHANGED <<actions, Pending, stack, AltStack, frames, SignalHandlerRefCounter>>

\* Mutant: the guest keeps the mask of the suspend.
SuspendKeepsMask ==
    /\ where = "eintr"
    /\ where' = "run"
    /\ UNCHANGED <<actions, masks, Pending, stack, AltStack, frames, SignalHandlerRefCounter>>

\* ... and the rest of GuestSigSuspend, whatever has ended the wait.
SuspendReturns ==
    /\ where = "eintr"
    /\ CurrentSignalMask' = PreviousSuspendMask
    /\ where' = "run"
    /\ UNCHANGED <<actions, PreviousSuspendMask, HostMask, Saved, Pending, stack, AltStack,
                   frames, SignalHandlerRefCounter>>

-----------------------------------------------------------------------------
(* Signals *)

\* Anyone sends a signal.
Send(s) ==
    /\ where \notin {"stop", "dead"}
    /\ ~Ignored(s, HostHandler[s])
    /\ Pending' = Pending \cup {s}
    /\ UNCHANGED <<actions, masks, context>>

Deliverable(s) == s \in Pending \ HostMask /\ where \notin {"stop", "dead"}

\* What a signal interrupts: in sigsuspend the host has already arranged
\* for the old mask to come back and for the call to fail.
Interrupted == IF where = "suspend" THEN "eintr" ELSE where
uc_sigmask == IF where = "suspend" THEN Saved ELSE HostMask

\* The host continues with the mask that the thunk has left in the context.
ReturnFromThunk(s, mask) ==
    /\ HostMask' = mask
    /\ Saved' = {}
    /\ Pending' = Pending \ {s}

\* StoreThreadState and the counter, for code that runs on stack st.
StoreThreadState(kind, st, top) ==
    /\ frames' = Append(frames, [kind |-> kind, sa_mask |-> uc_sigmask, where |-> Interrupted,
                                 stack |-> stack, top |-> top])
    /\ stack' = st
    /\ SignalHandlerRefCounter' = SignalHandlerRefCounter + 1

\* Mutant: the handler starts at the end of the alternative stack whenever
\* it asks for it.
AltStackAlways(action) == action.ONSTACK /\ AltStack

\* The handler starts at the end of the alternative stack, unless the
\* thread runs on it already.  The code asks this of the RSP that was spilled
\* last, before it spills the current one: it may be stale, but it is on the
\* same stack, since only the delivery of a signal and the return from it
\* change the stack here, and both write the spilled RSP too.
TakesAltStack(action) == action.ONSTACK /\ AltStack /\ stack # "alt"

\* Mutant: the handler's mask holds what the guest has asked for.
MaskAsAsked(s, action) == action.sa_mask \cup (IF action.NODEFER THEN {} ELSE {s})

\* The host's mask while the handler runs.
HandlerMask(s, action) ==
    (action.sa_mask \cup (IF action.NODEFER THEN {} ELSE {s})) \ Required

\* HandleGuestSignal for a signal with a guest handler, which runs even if
\* it interrupts the pause handler.
DeliverToGuest(s) ==
    /\ Deliverable(s)
    /\ s # SIGNAL_FOR_PAUSE
    /\ HostHandler[s] = "thunk" /\ GuestAction[s].handler = "guest"
    /\ MayFrame
    /\ LET switch == TakesAltStack(GuestAction[s])
       IN  StoreThreadState("guest", IF switch THEN "alt" ELSE stack, switch)
    /\ ReturnFromThunk(s, HandlerMask(s, GuestAction[s]))
    /\ where' = "run"
    /\ UNCHANGED <<actions, CurrentSignalMask, PreviousSuspendMask, AltStack>>

\* The thunk returns: a host handler has dealt with the signal, or the guest
\* ignores it.  In sigsuspend this ends the wait.
HandledByHost(s) ==
    /\ Deliverable(s)
    /\ HostHandler[s] = "thunk" /\ s \in Required \ {SIGNAL_FOR_PAUSE}
    /\ ReturnFromThunk(s, uc_sigmask)
    /\ where' = Interrupted
    /\ UNCHANGED <<actions, CurrentSignalMask, PreviousSuspendMask, stack, AltStack, frames,
                   SignalHandlerRefCounter>>

\* The default action: the host kills the process, or the thunk restores it
\* and returns, for the signal to come again.
DefaultKills(s) ==
    /\ Deliverable(s)
    /\ HostHandler[s] = "DFL"
    /\ where' = "dead"
    /\ Pending' = Pending \ {s}
    /\ UNCHANGED <<actions, masks, stack, AltStack, frames, SignalHandlerRefCounter>>

RestoreDefault(s) ==
    /\ Deliverable(s)
    /\ s # SIGNAL_FOR_PAUSE
    /\ HostHandler[s] = "thunk" /\ GuestAction[s].handler = "DFL" /\ s \notin DEFAULT_IGNORE
    /\ HostHandler' = [HostHandler EXCEPT ![s] = "DFL"]
    /\ ReturnFromThunk(s, uc_sigmask)
    /\ where' = Interrupted
    /\ UNCHANGED <<GuestAction, CurrentSignalMask, PreviousSuspendMask, stack, AltStack,
                   frames, SignalHandlerRefCounter>>

\* A thread that is paused is told to stop, not to pause again.
Paused == \E i \in DOMAIN frames : frames[i].kind = "pause"

\* A pause stores the state to come back to, a stop drops all of it.
HandleSignalPause(reason) ==
    /\ Deliverable(SIGNAL_FOR_PAUSE)
    /\ IF reason = "Pause"
       THEN ~Paused /\ StoreThreadState("pause", stack, FALSE) /\ where' = "pause"
       ELSE frames' = <<>> /\ SignalHandlerRefCounter' = 0 /\ where' = "stop" /\ UNCHANGED stack
    /\ ReturnFromThunk(SIGNAL_FOR_PAUSE, uc_sigmask)
    /\ UNCHANGED <<actions, CurrentSignalMask, PreviousSuspendMask, AltStack>>

\* A thunk of a host library calls the guest back, and the guest returns.
CallbackPtr ==
    /\ where = "run"
    /\ MayFrame
    /\ StoreThreadState("callback", stack, FALSE)
    /\ UNCHANGED <<actions, masks, Pending, where, AltStack>>

\* Mutant: a resumed thread is not counted down.
RestoreUncounted(kinds) ==
    /\ frames # <<>> /\ Top.kind \in kinds
    /\ frames' = SubSeq(frames, 1, Len(frames) - 1)
    /\ stack' = Top.stack
    /\ HostMask' = IF Top.kind = "callback" THEN HostMask ELSE Top.sa_mask
    /\ where' = Top.where
    /\ SignalHandlerRefCounter' = SignalHandlerRefCounter - (IF Top.kind = "pause" THEN 0 ELSE 1)
    /\ UNCHANGED <<actions, CurrentSignalMask, PreviousSuspendMask, Saved, Pending, AltStack>>

\* RestoreThreadState and the counter.  A callback returns without a signal.
RestoreThreadState(kinds) ==
    /\ frames # <<>> /\ Top.kind \in kinds
    /\ frames' = SubSeq(frames, 1, Len(frames) - 1)
    /\ stack' = Top.stack
    /\ HostMask' = IF Top.kind = "callback" THEN HostMask ELSE Top.sa_mask
    /\ where' = Top.where
    /\ SignalHandlerRefCounter' = SignalHandlerRefCounter - 1
    /\ UNCHANGED <<actions, CurrentSignalMask, PreviousSuspendMask, Saved, Pending, AltStack>>

\* The guest handler returns to the instruction that raises SIGILL.
SignalReturn == where = "run" /\ RestoreThreadState({"guest"})
CallbackReturn == where = "run" /\ RestoreThreadState({"callback"})
\* The pause handler ends, by its own instruction or by a Return signal.
PauseReturn == where = "pause" /\ RestoreThreadState({"pause"})

-----------------------------------------------------------------------------

SystemCall ==
    \/ \E s \in Settable, a \in Actions : RegisterGuestSignalHandler(s, a)
    \/ RegisterGuestSigAltStack
    \/ \E how \in {"BLOCK", "UNBLOCK", "SETMASK"}, set \in Masks : GuestSigProcMask(how, set)
    \/ \E set \in SuspendMasks : GuestSigSuspend(set)
    \/ SuspendReturns

Delivery ==
    \/ \E s \in Signals : DeliverToGuest(s) \/ HandledByHost(s) \/ DefaultKills(s) \/ RestoreDefault(s)
    \/ \E reason \in {"Pause", "Stop"} : HandleSignalPause(reason)

Ended == where \in {"stop", "dead"} /\ UNCHANGED vars

Next ==
    \/ SystemCall
    \/ \E s \in Signals : Send(s)
    \/ Delivery
    \/ CallbackPtr
    \/ SignalReturn
    \/ CallbackReturn
    \/ PauseReturn
    \/ Ended

Spec == Init /\ [][Next]_vars

\* The host delivers a signal that stays pending and unmasked.
FairSpec == Spec /\ WF_vars(\E reason \in {"Pause", "Stop"} : HandleSignalPause(reason))

-----------------------------------------------------------------------------
(* Properties *)

\* No mask the guest asks for, no handler's mask, no return from one and no
\* action it registers keeps a required signal from the emulator.  A sigsuspend
\* whose set holds one does, but only while it waits: whatever ends the wait
\* unmasks it, before a handler or the pause handler runs.  The default action
\* does, but never for the pause signal.
RequiredHandled ==
    /\ where \in {"suspend", "dead"} \/ HostMask \cap Required = {}
    /\ \A s \in Required :
          HostHandler[s] = "thunk" \/ (GuestAction[s].handler = "DFL" /\ s # SIGNAL_FOR_PAUSE)

\* Outside of handlers and waits the host masks exactly what the guest has
\* masked, but for the required signals: handlers, pauses and suspends that
\* interrupt each other put everything back.
MaskAgrees ==
    where = "run" /\ frames = <<>> => HostMask = CurrentSignalMask \ Required

\* The counter that forbids to clear the code cache counts the interrupted
\* contexts that will return to it.
CountsFrames == SignalHandlerRefCounter = Len(frames)

\* Of the handlers that are active at most one was started at the end of the
\* alternative stack: the next one would overwrite its frame.
AltStackOnce == Cardinality({i \in DOMAIN frames : frames[i].top}) <= 1

\* A pause that was sent is taken, also by a thread that waits in a system
\* call or runs a handler, unless a signal kills it.  Not if the set passed to
\* sigsuspend holds the pause signal.
PauseArrives == SIGNAL_FOR_PAUSE \in Pending ~> SIGNAL_FOR_PAUSE \notin Pending \/ where = "dead"

\* A signal that the guest has blocked starts no handler, not even inside a
\* handler of another signal.
BlockedNotDelivered ==
    [][\A s \in Signals \ Required :
          where = "run" /\ s \in Pending \ Pending' /\ Len(frames') > Len(frames)
          => s \notin CurrentSignalMask]_vars
=============================================================================
