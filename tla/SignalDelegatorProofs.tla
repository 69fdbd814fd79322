------------------------ MODULE SignalDelegatorProofs ------------------------
(* Theorems about SignalDelegator: the types, the required signals, the     *)
(* counter of interrupted contexts and the agreement of the guest's mask     *)
(* with the host's.                                                          *)
EXTENDS SignalDelegator, SequenceTheorems, FiniteSetTheorems, TLAPS

Frames == [kind : {"guest", "callback", "pause"}, sa_mask : SUBSET Signals,
           where : Places, stack : {"main", "alt"}, top : BOOLEAN]

\* What the host will put back holds no required signal either.
SavedUnmasked ==
    /\ Saved \cap Required = {}
    /\ \A i \in 1 .. Len(frames) : frames[i].sa_mask \cap Required = {}

-----------------------------------------------------------------------------
(* Types and the counter *)

CountInv == TypeOK /\ CountsFrames

\* A context that is stored and counted keeps the types and the count.
LEMMA StoreKeepsCount ==
    ASSUME CountInv,
           NEW kind \in {"guest", "callback", "pause"}, NEW st \in {"main", "alt"},
           NEW top \in BOOLEAN, StoreThreadState(kind, st, top)
    PROVE  /\ frames' \in Seq(Frames) /\ stack' \in {"main", "alt"}
           /\ SignalHandlerRefCounter' \in Nat /\ CountsFrames'
  <1> DEFINE f == [kind |-> kind, sa_mask |-> uc_sigmask, where |-> Interrupted,
                   stack |-> stack, top |-> top]
  <1>1. f \in Frames
    BY DEF CountInv, TypeOK, Frames, Interrupted, uc_sigmask, Places
  <1>2. frames \in Seq(Frames)
    BY DEF CountInv, TypeOK, Frames
  <1>3. frames' = Append(frames, f)
    BY DEF StoreThreadState
  <1>4. frames' \in Seq(Frames) /\ Len(frames') = Len(frames) + 1
    <2> HIDE DEF f
    <2> QED BY <1>1, <1>2, <1>3
  <1> QED BY <1>4 DEF CountInv, TypeOK, CountsFrames, StoreThreadState

\* The innermost context is taken off and the others stay.
LEMMA PopLast ==
    ASSUME NEW S, NEW s \in Seq(S), s # <<>>
    PROVE  /\ SubSeq(s, 1, Len(s) - 1) \in Seq(S)
           /\ Len(s) \in Nat \ {0}
           /\ Len(SubSeq(s, 1, Len(s) - 1)) = Len(s) - 1
           /\ \A i \in 1 .. Len(s) - 1 : SubSeq(s, 1, Len(s) - 1)[i] = s[i]
  <1>1. Len(s) \in Nat \ {0} /\ \A i \in 1 .. Len(s) : s[i] \in S
    OBVIOUS
  <1>2. \A i \in 1 .. Len(s) - 1 : s[i] \in S
    BY <1>1
  <1>3. /\ SubSeq(s, 1, Len(s) - 1) \in Seq(S)
        /\ Len(SubSeq(s, 1, Len(s) - 1)) = IF 1 <= Len(s) - 1 THEN Len(s) - 1 - 1 + 1 ELSE 0
        /\ \A i \in 1 .. Len(s) - 1 - 1 + 1 : SubSeq(s, 1, Len(s) - 1)[i] = s[1 + i - 1]
    BY <1>1, <1>2, SubSeqProperties
  <1>4. Len(SubSeq(s, 1, Len(s) - 1)) = Len(s) - 1
    <2>1. Len(s) \in Nat /\ Len(s) >= 1
      BY <1>1
    <2> DEFINE n == Len(s)
               m == Len(SubSeq(s, 1, Len(s) - 1))
    <2>2. n \in Nat /\ n >= 1 /\ m = IF 1 <= n - 1 THEN n - 1 - 1 + 1 ELSE 0
      BY <1>3, <2>1
    <2> HIDE DEF n, m
    <2>3. m = n - 1
      BY <2>2
    <2> QED BY <2>3 DEF n, m
  <1>5. ASSUME NEW i \in 1 .. Len(s) - 1 PROVE SubSeq(s, 1, Len(s) - 1)[i] = s[i]
    <2>1. i \in 1 .. Len(s) - 1 - 1 + 1 /\ 1 + i - 1 = i
      BY <1>1, <1>5
    <2> QED BY <1>3, <2>1
  <1> QED BY <1>1, <1>3, <1>4, <1>5

\* A context that is restored was counted, so that the counter does not pass 0.
LEMMA RestoreKeepsCount ==
    ASSUME CountInv, NEW kinds, RestoreThreadState(kinds)
    PROVE  CountInv'
  <1>1. frames \in Seq(Frames) /\ frames # <<>>
    BY DEF CountInv, TypeOK, Frames, RestoreThreadState
  <1>2. Len(frames) \in Nat \ {0} /\ Top \in Frames
    BY <1>1 DEF Top
  <1>3. frames' = SubSeq(frames, 1, Len(frames) - 1)
    BY DEF RestoreThreadState
  <1>4. frames' \in Seq(Frames) /\ Len(frames') = Len(frames) - 1
    BY <1>1, <1>3, PopLast
  <1>5. Top.where \in Places /\ Top.stack \in {"main", "alt"} /\ Top.sa_mask \subseteq Signals
    BY <1>2 DEF Frames
  <1>6. HostMask' \subseteq Signals /\ where' \in Places /\ stack' \in {"main", "alt"}
    BY <1>5 DEF RestoreThreadState, CountInv, TypeOK
  <1>7. SignalHandlerRefCounter' \in Nat /\ CountsFrames'
    BY <1>2, <1>4 DEF RestoreThreadState, CountInv, TypeOK, CountsFrames
  <1>8. UNCHANGED <<GuestAction, HostHandler, CurrentSignalMask, PreviousSuspendMask, Saved,
                    Pending, AltStack>>
    BY DEF RestoreThreadState, actions
  <1> QED BY <1>4, <1>6, <1>7, <1>8 DEF CountInv, TypeOK, Frames

LEMMA CountInit == Init => CountInv
  <1> SUFFICES ASSUME Init PROVE CountInv
    OBVIOUS
  <1>1. frames \in Seq(Frames) /\ Len(frames) = 0
    BY DEF Init
  <1> QED BY <1>1 DEF Init, CountInv, TypeOK, CountsFrames, Places, Frames

LEMMA CountSystemCall == CountInv /\ SystemCall => CountInv'
  <1> SUFFICES ASSUME CountInv, SystemCall PROVE CountInv'
    OBVIOUS
  <1>1. ASSUME NEW s \in Settable, NEW a \in Actions, RegisterGuestSignalHandler(s, a)
        PROVE  CountInv'
    <2>1. UpdateHostThunk(s, a) \in {"thunk", "IGN", "DFL"}
      BY ActionAssumption DEF UpdateHostThunk
    <2> QED BY <1>1, <2>1, RequiredAssumption
            DEF RegisterGuestSignalHandler, CountInv, TypeOK, CountsFrames, masks, context
  <1>2. CASE RegisterGuestSigAltStack
    BY <1>2 DEF RegisterGuestSigAltStack, CountInv, TypeOK, CountsFrames, masks, actions
  <1>3. ASSUME NEW how \in {"BLOCK", "UNBLOCK", "SETMASK"}, NEW set \in Masks,
               GuestSigProcMask(how, set)
        PROVE  CountInv'
    <2>1. NewMask(how, set) \subseteq Signals
      BY <1>3, MaskAssumption DEF NewMask, CountInv, TypeOK
    <2> QED BY <1>3, <2>1 DEF GuestSigProcMask, CountInv, TypeOK, CountsFrames, actions, context
  <1>4. ASSUME NEW set \in SuspendMasks, GuestSigSuspend(set) PROVE CountInv'
    BY <1>4, MaskAssumption DEF GuestSigSuspend, CountInv, TypeOK, CountsFrames, actions, Places
  <1>5. CASE SuspendReturns
    BY <1>5 DEF SuspendReturns, CountInv, TypeOK, CountsFrames, actions, Places
  <1> QED BY <1>1, <1>2, <1>3, <1>4, <1>5 DEF SystemCall

LEMMA ThunkTypes ==
    ASSUME CountInv, NEW s, NEW mask, mask \subseteq Signals, ReturnFromThunk(s, mask)
    PROVE  HostMask' \subseteq Signals /\ Saved' \subseteq Signals /\ Pending' \subseteq Signals
  BY DEF CountInv, TypeOK, ReturnFromThunk

LEMMA CountDelivery == CountInv /\ Delivery => CountInv'
  <1> SUFFICES ASSUME CountInv, Delivery PROVE CountInv'
    OBVIOUS
  <1>0. uc_sigmask \subseteq Signals /\ Interrupted \in Places
    BY DEF uc_sigmask, Interrupted, CountInv, TypeOK, Places
  <1>1. ASSUME NEW s \in Signals, DeliverToGuest(s) PROVE CountInv'
    <2> DEFINE switch == TakesAltStack(GuestAction[s])
               st == IF switch THEN "alt" ELSE stack
    <2>1. switch \in BOOLEAN /\ st \in {"main", "alt"}
      BY DEF TakesAltStack, CountInv, TypeOK
    <2>2. StoreThreadState("guest", st, switch)
      BY <1>1 DEF DeliverToGuest
    <2>3. HandlerMask(s, GuestAction[s]) \subseteq Signals
      BY ActionAssumption DEF HandlerMask, CountInv, TypeOK, DefaultAction
    <2>4. HostMask' \subseteq Signals /\ Saved' \subseteq Signals /\ Pending' \subseteq Signals
      BY <1>1, <2>3, ThunkTypes DEF DeliverToGuest
    <2> HIDE DEF switch, st
    <2>5. /\ frames' \in Seq(Frames) /\ stack' \in {"main", "alt"}
          /\ SignalHandlerRefCounter' \in Nat /\ CountsFrames'
      BY <2>1, <2>2, StoreKeepsCount
    <2> QED BY <1>1, <2>4, <2>5 DEF DeliverToGuest, CountInv, TypeOK, actions, Places, Frames
  <1>2. ASSUME NEW s \in Signals, HandledByHost(s) PROVE CountInv'
    <2>1. HostMask' \subseteq Signals /\ Saved' \subseteq Signals /\ Pending' \subseteq Signals
      BY <1>0, <1>2, ThunkTypes DEF HandledByHost
    <2> QED BY <1>0, <1>2, <2>1 DEF HandledByHost, CountInv, TypeOK, CountsFrames, actions
  <1>3. ASSUME NEW s \in Signals, DefaultKills(s) PROVE CountInv'
    BY <1>3 DEF DefaultKills, CountInv, TypeOK, CountsFrames, actions, masks, Places
  <1>4. ASSUME NEW s \in Signals, RestoreDefault(s) PROVE CountInv'
    <2>1. HostMask' \subseteq Signals /\ Saved' \subseteq Signals /\ Pending' \subseteq Signals
      BY <1>0, <1>4, ThunkTypes DEF RestoreDefault
    <2> QED BY <1>0, <1>4, <2>1 DEF RestoreDefault, CountInv, TypeOK, CountsFrames
  <1>5. ASSUME NEW reason \in {"Pause", "Stop"}, HandleSignalPause(reason) PROVE CountInv'
    <2>1. HostMask' \subseteq Signals /\ Saved' \subseteq Signals /\ Pending' \subseteq Signals
      BY <1>0, <1>5, ThunkTypes DEF HandleSignalPause
    <2>2. CASE reason = "Pause"
      <3>1. StoreThreadState("pause", stack, FALSE) /\ stack \in {"main", "alt"}
        BY <1>5, <2>2 DEF HandleSignalPause, CountInv, TypeOK
      <3>2. /\ frames' \in Seq(Frames) /\ stack' \in {"main", "alt"}
            /\ SignalHandlerRefCounter' \in Nat /\ CountsFrames'
        BY <3>1, StoreKeepsCount
      <3> QED BY <1>5, <2>1, <2>2, <3>2
              DEF HandleSignalPause, CountInv, TypeOK, actions, Places, Frames
    <2>3. CASE reason # "Pause"
      BY <1>5, <2>1, <2>3 DEF HandleSignalPause, CountInv, TypeOK, CountsFrames, actions, Places
    <2> QED BY <2>2, <2>3
  <1> QED BY <1>1, <1>2, <1>3, <1>4, <1>5 DEF Delivery

LEMMA CountNext == CountInv /\ [Next]_vars => CountInv'
  <1> SUFFICES ASSUME CountInv, [Next]_vars PROVE CountInv'
    OBVIOUS
  <1>1. CASE SystemCall
    BY <1>1, CountSystemCall
  <1>2. ASSUME NEW s \in Signals, Send(s) PROVE CountInv'
    BY <1>2 DEF Send, CountInv, TypeOK, CountsFrames, actions, masks, context
  <1>3. CASE Delivery
    BY <1>3, CountDelivery
  <1>4. CASE CallbackPtr
    <2>1. StoreThreadState("callback", stack, FALSE) /\ stack \in {"main", "alt"}
      BY <1>4 DEF CallbackPtr, CountInv, TypeOK
    <2>2. /\ frames' \in Seq(Frames) /\ stack' \in {"main", "alt"}
          /\ SignalHandlerRefCounter' \in Nat /\ CountsFrames'
      BY <2>1, StoreKeepsCount
    <2> QED BY <1>4, <2>2 DEF CallbackPtr, CountInv, TypeOK, actions, masks, Frames
  <1>5. CASE SignalReturn \/ CallbackReturn \/ PauseReturn
    BY <1>5, RestoreKeepsCount DEF SignalReturn, CallbackReturn, PauseReturn
  <1>6. CASE UNCHANGED vars
    BY <1>6 DEF vars, actions, masks, context, CountInv, TypeOK, CountsFrames
  <1> QED BY <1>1, <1>2, <1>3, <1>4, <1>5, <1>6 DEF Next, Ended

\* The counter that forbids to clear the code cache counts the interrupted
\* contexts, however handlers, callbacks and pauses nest.
THEOREM CountsFramesAlways == Spec => [](TypeOK /\ CountsFrames)
  <1>1. Spec => []CountInv
    BY CountInit, CountNext, PTL DEF Spec
  <1> QED BY <1>1, PTL DEF CountInv

-----------------------------------------------------------------------------
(* The required signals *)

\* The contexts after one was stored: the old ones and the new one.
LEMMA Stored ==
    ASSUME CountInv, NEW kind \in {"guest", "callback", "pause"}, NEW st,
           NEW top \in BOOLEAN, StoreThreadState(kind, st, top)
    PROVE  /\ Len(frames) \in Nat /\ Len(frames') = Len(frames) + 1
           /\ \A i \in 1 .. Len(frames) : frames'[i] = frames[i]
           /\ frames'[Len(frames) + 1].kind = kind
           /\ frames'[Len(frames) + 1].sa_mask = uc_sigmask
           /\ frames'[Len(frames) + 1].where = Interrupted
           /\ frames'[Len(frames) + 1].stack = stack
           /\ frames'[Len(frames) + 1].top = top
  <1> DEFINE f == [kind |-> kind, sa_mask |-> uc_sigmask, where |-> Interrupted,
                   stack |-> stack, top |-> top]
  <1>1. f \in Frames
    BY DEF CountInv, TypeOK, Frames, Interrupted, uc_sigmask, Places
  <1>2. frames \in Seq(Frames) /\ frames' = Append(frames, f)
    BY DEF CountInv, TypeOK, Frames, StoreThreadState
  <1>3. /\ f.kind = kind /\ f.sa_mask = uc_sigmask /\ f.where = Interrupted
        /\ f.stack = stack /\ f.top = top
    OBVIOUS
  <1> HIDE DEF f
  <1>4. /\ Len(frames) \in Nat /\ Len(frames') = Len(frames) + 1
        /\ \A i \in 1 .. Len(frames) : frames'[i] = frames[i]
        /\ frames'[Len(frames) + 1] = f
    BY <1>1, <1>2, AppendProperties
  <1> QED BY <1>3, <1>4

\* The contexts after the innermost one was restored.
LEMMA Restored ==
    ASSUME CountInv, NEW kinds, RestoreThreadState(kinds)
    PROVE  /\ Len(frames) \in Nat \ {0} /\ Len(frames') = Len(frames) - 1
           /\ \A i \in 1 .. Len(frames') : frames'[i] = frames[i]
           /\ Top = frames[Len(frames)]
  <1>1. frames \in Seq(Frames) /\ frames # <<>> /\ frames' = SubSeq(frames, 1, Len(frames) - 1)
    BY DEF CountInv, TypeOK, Frames, RestoreThreadState
  <1>2. /\ Len(frames) \in Nat \ {0} /\ Len(frames') = Len(frames) - 1
        /\ \A i \in 1 .. Len(frames) - 1 : frames'[i] = frames[i]
    BY <1>1, PopLast
  <1> QED BY <1>2 DEF Top

RequiredInv == CountInv /\ RequiredHandled /\ SavedUnmasked

LEMMA RequiredInit == Init => RequiredInv
  <1> SUFFICES ASSUME Init PROVE RequiredInv
    OBVIOUS
  <1>1. CountInv
    BY CountInit
  <1>2. Len(frames) = 0
    BY DEF Init
  <1>3. SavedUnmasked
    BY <1>2 DEF Init, SavedUnmasked
  <1>4. RequiredHandled
    BY RequiredAssumption DEF Init, RequiredHandled
  <1> QED BY <1>1, <1>3, <1>4 DEF RequiredInv

\* Storing a context stores a mask without required signals.
LEMMA StoreKeepsUnmasked ==
    ASSUME RequiredInv, where # "dead", NEW kind \in {"guest", "callback", "pause"}, NEW st,
           NEW top \in BOOLEAN, StoreThreadState(kind, st, top)
    PROVE  \A i \in 1 .. Len(frames') : frames'[i].sa_mask \cap Required = {}
  <1>1. uc_sigmask \cap Required = {}
    BY DEF RequiredInv, RequiredHandled, SavedUnmasked, uc_sigmask
  <1>2. /\ Len(frames) \in Nat /\ Len(frames') = Len(frames) + 1
        /\ \A i \in 1 .. Len(frames) : frames'[i] = frames[i]
        /\ frames'[Len(frames) + 1].sa_mask = uc_sigmask
    BY Stored DEF RequiredInv
  <1> TAKE i \in 1 .. Len(frames')
  <1>3. i \in 1 .. Len(frames) \/ i = Len(frames) + 1
    BY <1>2
  <1> QED BY <1>1, <1>2, <1>3 DEF RequiredInv, SavedUnmasked

\* A delivered signal leaves a mask without required signals.
LEMMA ThunkUnmasked ==
    ASSUME NEW s, NEW mask, mask \cap Required = {}, ReturnFromThunk(s, mask)
    PROVE  HostMask' \cap Required = {} /\ Saved' \cap Required = {}
  BY DEF ReturnFromThunk

LEMMA RequiredDelivery == RequiredInv /\ Delivery => RequiredHandled' /\ SavedUnmasked'
  <1> SUFFICES ASSUME RequiredInv, Delivery PROVE RequiredHandled' /\ SavedUnmasked'
    OBVIOUS
  <1>a. where # "dead"
    BY DEF Delivery, DeliverToGuest, HandledByHost, DefaultKills, RestoreDefault, HandleSignalPause,
           Deliverable
  <1>0. uc_sigmask \cap Required = {}
    BY <1>a DEF RequiredInv, RequiredHandled, SavedUnmasked, uc_sigmask
  <1>1. ASSUME NEW s \in Signals, DeliverToGuest(s) PROVE RequiredHandled' /\ SavedUnmasked'
    <2> DEFINE switch == TakesAltStack(GuestAction[s])
               st == IF switch THEN "alt" ELSE stack
    <2>1. switch \in BOOLEAN
      BY DEF TakesAltStack, RequiredInv, CountInv, TypeOK
    <2>2. StoreThreadState("guest", st, switch)
      BY <1>1 DEF DeliverToGuest
    <2>3. HandlerMask(s, GuestAction[s]) \cap Required = {}
      BY DEF HandlerMask
    <2>4. HostMask' \cap Required = {} /\ Saved' \cap Required = {}
      BY <1>1, <2>3, ThunkUnmasked DEF DeliverToGuest
    <2> HIDE DEF switch, st
    <2>5. \A i \in 1 .. Len(frames') : frames'[i].sa_mask \cap Required = {}
      BY <1>a, <2>1, <2>2, StoreKeepsUnmasked
    <2> QED BY <1>1, <2>4, <2>5
            DEF DeliverToGuest, RequiredInv, RequiredHandled, SavedUnmasked, actions
  <1>2. ASSUME NEW s \in Signals, HandledByHost(s) PROVE RequiredHandled' /\ SavedUnmasked'
    <2>1. HostMask' \cap Required = {} /\ Saved' \cap Required = {}
      BY <1>0, <1>2, ThunkUnmasked DEF HandledByHost
    <2> QED BY <1>2, <2>1
            DEF HandledByHost, RequiredInv, RequiredHandled, SavedUnmasked, actions
  <1>3. ASSUME NEW s \in Signals, DefaultKills(s) PROVE RequiredHandled' /\ SavedUnmasked'
    BY <1>3 DEF DefaultKills, RequiredInv, RequiredHandled, SavedUnmasked, actions, masks
  <1>4. ASSUME NEW s \in Signals, RestoreDefault(s) PROVE RequiredHandled' /\ SavedUnmasked'
    <2>1. HostMask' \cap Required = {} /\ Saved' \cap Required = {}
      BY <1>0, <1>4, ThunkUnmasked DEF RestoreDefault
    <2> QED BY <1>4, <2>1, RequiredAssumption
            DEF RestoreDefault, RequiredInv, CountInv, TypeOK, RequiredHandled, SavedUnmasked
  <1>5. ASSUME NEW reason \in {"Pause", "Stop"}, HandleSignalPause(reason)
        PROVE  RequiredHandled' /\ SavedUnmasked'
    <2>1. HostMask' \cap Required = {} /\ Saved' \cap Required = {}
      BY <1>0, <1>5, ThunkUnmasked DEF HandleSignalPause
    <2>2. \A i \in 1 .. Len(frames') : frames'[i].sa_mask \cap Required = {}
      <3>1. CASE reason = "Pause"
        BY <1>a, <1>5, <3>1, StoreKeepsUnmasked DEF HandleSignalPause
      <3>2. CASE reason # "Pause"
        <4>1. frames' = <<>>
          BY <1>5, <3>2 DEF HandleSignalPause
        <4>2. Len(frames') = 0
          BY <4>1
        <4> QED BY <4>2
      <3> QED BY <3>1, <3>2
    <2> QED BY <1>5, <2>1, <2>2
            DEF HandleSignalPause, RequiredInv, RequiredHandled, SavedUnmasked, actions
  <1> QED BY <1>1, <1>2, <1>3, <1>4, <1>5 DEF Delivery

LEMMA RequiredRestore ==
    ASSUME RequiredInv, where \in {"run", "pause"}, NEW kinds, RestoreThreadState(kinds)
    PROVE  RequiredHandled' /\ SavedUnmasked'
  <1>1. /\ Len(frames) \in Nat \ {0} /\ Len(frames') = Len(frames) - 1
        /\ \A i \in 1 .. Len(frames') : frames'[i] = frames[i]
        /\ Top = frames[Len(frames)]
    BY Restored DEF RequiredInv
  <1>2. Top.sa_mask \cap Required = {}
    BY <1>1 DEF RequiredInv, SavedUnmasked
  <1>3. \A i \in 1 .. Len(frames') : frames'[i].sa_mask \cap Required = {}
    BY <1>1 DEF RequiredInv, SavedUnmasked
  <1> QED BY <1>2, <1>3
          DEF RestoreThreadState, RequiredInv, RequiredHandled, SavedUnmasked, actions

LEMMA RequiredNext == RequiredInv /\ [Next]_vars => RequiredInv'
  <1> SUFFICES ASSUME RequiredInv, [Next]_vars PROVE RequiredHandled' /\ SavedUnmasked'
    BY CountNext DEF RequiredInv
  <1> USE DEF RequiredInv, RequiredHandled, SavedUnmasked
  <1>1. ASSUME NEW s \in Settable, NEW a \in Actions, RegisterGuestSignalHandler(s, a)
        PROVE  RequiredHandled' /\ SavedUnmasked'
    BY <1>1, RequiredAssumption DEF RegisterGuestSignalHandler, UpdateHostThunk, CountInv, TypeOK,
       masks, context
  <1>2. CASE RegisterGuestSigAltStack
    BY <1>2 DEF RegisterGuestSigAltStack, masks, actions
  <1>3. ASSUME NEW how \in {"BLOCK", "UNBLOCK", "SETMASK"}, NEW set \in Masks,
               GuestSigProcMask(how, set)
        PROVE  RequiredHandled' /\ SavedUnmasked'
    BY <1>3 DEF GuestSigProcMask, actions, context
  <1>4. ASSUME NEW set \in SuspendMasks, GuestSigSuspend(set)
        PROVE  RequiredHandled' /\ SavedUnmasked'
    BY <1>4 DEF GuestSigSuspend, actions
  <1>5. CASE SuspendReturns
    BY <1>5 DEF SuspendReturns, actions
  <1>6. ASSUME NEW s \in Signals, Send(s) PROVE RequiredHandled' /\ SavedUnmasked'
    BY <1>6 DEF Send, actions, masks, context
  <1>7. CASE Delivery
    BY <1>7, RequiredDelivery
  <1>8. CASE CallbackPtr
    <2>1. \A i \in 1 .. Len(frames') : frames'[i].sa_mask \cap Required = {}
      BY <1>8, StoreKeepsUnmasked DEF CallbackPtr
    <2> QED BY <1>8, <2>1 DEF CallbackPtr, actions, masks
  <1>9. CASE SignalReturn \/ CallbackReturn \/ PauseReturn
    BY <1>9, RequiredRestore DEF SignalReturn, CallbackReturn, PauseReturn
  <1>10. CASE UNCHANGED vars
    BY <1>10 DEF vars, actions, masks, context
  <1> QED BY <1>1, <1>2, <1>3, <1>4, <1>5, <1>6, <1>7, <1>8, <1>9, <1>10
          DEF Next, SystemCall, Ended

\* Whatever sets the guest passes to sigsuspend, a required signal is masked on
\* the host only while a sigsuspend waits that holds it, through all nestings of
\* handlers, pauses and callbacks, and its handler is never lost to an action
\* the guest registers.
THEOREM RequiredHandledAlways == Spec => []RequiredHandled
  <1>1. RequiredInv /\ [Next]_vars => RequiredInv'
    BY RequiredNext
  <1>2. Spec => []RequiredInv
    BY <1>1, RequiredInit, PTL DEF Spec
  <1> QED BY <1>2, PTL DEF RequiredInv

-----------------------------------------------------------------------------
(* The guest's mask and the host's *)

\* The n outermost contexts are callbacks, whose return keeps the mask.
Callbacks(n) == \A j \in 1 .. n : frames[j].kind = "callback"

\* A context that will continue at place w with mask m, outside of handlers:
\* what it gets back is what the guest has asked for.
Agrees(w, m) ==
    /\ w = "run" => m = CurrentSignalMask \ Required
    /\ w = "eintr" => m = PreviousSuspendMask \ Required

Waiting == {"suspend", "eintr"}

\* Of the thread itself: guest code outside of handlers has no other context
\* than callbacks below it, and the masks agree there.
Outside ==
    /\ Callbacks(Len(frames)) => Agrees(where, HostMask)
    /\ where = "suspend" => Saved = PreviousSuspendMask \ Required
    /\ where \in Waiting => Callbacks(Len(frames))
    /\ where = "run" /\ ~InHandler => Callbacks(Len(frames))

\* The same of every context that was interrupted.
Inside ==
    \A i \in 1 .. Len(frames) :
        /\ frames[i].where # "suspend"
        /\ frames[i].kind = "callback" => frames[i].where = "run"
        /\ frames[i].kind # "callback" /\ Callbacks(i - 1) => Agrees(frames[i].where, frames[i].sa_mask)
        /\ frames[i].where = "eintr" => Callbacks(i - 1)
        /\ /\ frames[i].where = "run"
           /\ \A j \in 1 .. i - 1 : frames[j].kind # "guest"
           => Callbacks(i - 1)

MaskInv == CountInv /\ Outside /\ Inside

LEMMA MaskInit == Init => MaskInv
  <1> SUFFICES ASSUME Init PROVE MaskInv
    OBVIOUS
  <1>1. CountInv /\ Len(frames) = 0
    BY CountInit DEF Init
  <1>2. Outside
    BY <1>1 DEF Init, Outside, Callbacks, Agrees, Waiting
  <1>3. Inside
    BY <1>1 DEF Inside
  <1> QED BY <1>1, <1>2, <1>3 DEF MaskInv

\* InHandler in terms of positions.
LEMMA HandlerFrames ==
    ASSUME CountInv
    PROVE  /\ Len(frames) \in Nat
           /\ InHandler <=> \E j \in 1 .. Len(frames) : frames[j].kind = "guest"
  <1>1. frames \in Seq(Frames)
    BY DEF CountInv, TypeOK, Frames
  <1>2. Len(frames) \in Nat /\ DOMAIN frames = 1 .. Len(frames)
    BY <1>1
  <1> QED BY <1>2 DEF InHandler

\* An interrupted context keeps what was known of the thread.
LEMMA StoreKeepsInside ==
    ASSUME MaskInv, NEW kind \in {"guest", "callback", "pause"}, NEW st,
           NEW top \in BOOLEAN, StoreThreadState(kind, st, top),
           kind = "callback" => where = "run",
           UNCHANGED <<CurrentSignalMask, PreviousSuspendMask>>
    PROVE  Inside'
  <1>1. /\ Len(frames) \in Nat /\ Len(frames') = Len(frames) + 1
        /\ \A i \in 1 .. Len(frames) : frames'[i] = frames[i]
        /\ frames'[Len(frames) + 1].kind = kind
        /\ frames'[Len(frames) + 1].sa_mask = uc_sigmask
        /\ frames'[Len(frames) + 1].where = Interrupted
    BY Stored DEF MaskInv
  <1>2. InHandler <=> \E j \in 1 .. Len(frames) : frames[j].kind = "guest"
    BY HandlerFrames DEF MaskInv
  <1> SUFFICES ASSUME NEW i \in 1 .. Len(frames')
               PROVE  /\ frames'[i].where # "suspend"
                      /\ frames'[i].kind = "callback" => frames'[i].where = "run"
                      /\ frames'[i].kind # "callback" /\ Callbacks(i - 1)'
                         => Agrees(frames[i].where, frames[i].sa_mask)'
                      /\ frames'[i].where = "eintr" => Callbacks(i - 1)'
                      /\ /\ frames'[i].where = "run"
                         /\ \A j \in 1 .. i - 1 : frames'[j].kind # "guest"
                         => Callbacks(i - 1)'
    BY DEF Inside
  <1>3. \A j \in 1 .. i - 1 : frames'[j] = frames[j]
    BY <1>1
  <1>4. Callbacks(i - 1)' <=> Callbacks(i - 1)
    BY <1>3 DEF Callbacks
  <1>5. CASE i \in 1 .. Len(frames)
    <2>1. frames'[i] = frames[i]
      BY <1>1, <1>5
    <2> QED BY <1>3, <1>4, <1>5, <2>1 DEF MaskInv, Inside, Agrees
  <1>6. CASE i = Len(frames) + 1
    <2>1. i - 1 = Len(frames)
      BY <1>1, <1>6
    <2>2. Interrupted # "suspend" /\ (kind = "callback" => Interrupted = "run")
      BY DEF Interrupted
    <2>3. Callbacks(Len(frames)) => Agrees(Interrupted, uc_sigmask)
      BY DEF MaskInv, Outside, Agrees, Interrupted, uc_sigmask
    <2>4. Interrupted = "eintr" => Callbacks(Len(frames))
      BY DEF MaskInv, Outside, Interrupted, Waiting
    <2>5. /\ Interrupted = "run"
          /\ \A j \in 1 .. Len(frames) : frames[j].kind # "guest"
          => Callbacks(Len(frames))
      BY <1>2 DEF MaskInv, Outside, Interrupted
    <2>6. Agrees(Interrupted, uc_sigmask) => Agrees(frames[i].where, frames[i].sa_mask)'
      BY <1>1, <1>6 DEF Agrees
    <2> QED BY <1>1, <1>3, <1>4, <1>6, <2>1, <2>2, <2>3, <2>4, <2>5, <2>6
  <1> QED BY <1>1, <1>5, <1>6

\* A context that is restored is the thread's again.
LEMMA RestoreKeepsMask ==
    ASSUME MaskInv, NEW kinds, RestoreThreadState(kinds),
           Top.kind = "callback" => where = "run"
    PROVE  Outside' /\ Inside'
  <1>1. /\ Len(frames) \in Nat \ {0} /\ Len(frames') = Len(frames) - 1
        /\ \A i \in 1 .. Len(frames') : frames'[i] = frames[i]
        /\ Top = frames[Len(frames)]
    BY Restored DEF MaskInv
  <1>2. CountInv'
    BY RestoreKeepsCount DEF MaskInv
  <1>3. InHandler' <=> \E j \in 1 .. Len(frames) - 1 : frames[j].kind = "guest"
    <2>1. frames' \in Seq(Frames)
      BY <1>2 DEF CountInv, TypeOK, Frames
    <2>2. DOMAIN frames' = 1 .. Len(frames')
      BY <2>1
    <2> QED BY <1>1, <2>2 DEF InHandler
  <1>4. UNCHANGED <<CurrentSignalMask, PreviousSuspendMask, Saved>>
    BY DEF RestoreThreadState
  <1>5. Callbacks(Len(frames))' <=> Callbacks(Len(frames) - 1)
    BY <1>1 DEF Callbacks
  <1>6. where' = Top.where /\ HostMask' = IF Top.kind = "callback" THEN HostMask ELSE Top.sa_mask
    BY DEF RestoreThreadState
  <1>7. /\ Top.where # "suspend"
        /\ Top.kind = "callback" => Top.where = "run"
        /\ Top.kind # "callback" /\ Callbacks(Len(frames) - 1) => Agrees(Top.where, Top.sa_mask)
        /\ Top.where = "eintr" => Callbacks(Len(frames) - 1)
        /\ /\ Top.where = "run"
           /\ \A j \in 1 .. Len(frames) - 1 : frames[j].kind # "guest"
           => Callbacks(Len(frames) - 1)
    BY <1>1 DEF MaskInv, Inside
  <1>8. Outside'
    <2>1. Callbacks(Len(frames) - 1) => Agrees(where', HostMask')
      <3>1. CASE Top.kind = "callback"
        <4>1. Callbacks(Len(frames) - 1) => Callbacks(Len(frames))
          BY <1>1, <3>1 DEF Callbacks
        <4> QED BY <1>6, <1>7, <3>1, <4>1 DEF MaskInv, Outside
      <3>2. CASE Top.kind # "callback"
        BY <1>6, <1>7, <3>2
      <3> QED BY <3>1, <3>2
    <2>2. Agrees(where', HostMask') => Agrees(where, HostMask)'
      BY <1>4 DEF Agrees
    <2> QED BY <1>3, <1>5, <1>6, <1>7, <2>1, <2>2 DEF Outside, Waiting
  <1>9. Inside'
    <2> SUFFICES ASSUME NEW i \in 1 .. Len(frames')
                 PROVE  /\ frames'[i].where # "suspend"
                        /\ frames'[i].kind = "callback" => frames'[i].where = "run"
                        /\ frames'[i].kind # "callback" /\ Callbacks(i - 1)'
                           => Agrees(frames[i].where, frames[i].sa_mask)'
                        /\ frames'[i].where = "eintr" => Callbacks(i - 1)'
                        /\ /\ frames'[i].where = "run"
                           /\ \A j \in 1 .. i - 1 : frames'[j].kind # "guest"
                           => Callbacks(i - 1)'
      BY DEF Inside
    <2>1. i \in 1 .. Len(frames) /\ frames'[i] = frames[i]
      BY <1>1
    <2>2. \A j \in 1 .. i - 1 : frames'[j] = frames[j]
      BY <1>1
    <2>3. Callbacks(i - 1)' <=> Callbacks(i - 1)
      BY <2>2 DEF Callbacks
    <2> QED BY <1>4, <2>1, <2>2, <2>3 DEF MaskInv, Inside, Agrees
  <1> QED BY <1>8, <1>9

\* With only callbacks below it, the thread changes no context by its mask.
LEMMA CallbacksInside ==
    ASSUME MaskInv, Callbacks(Len(frames)), UNCHANGED frames
    PROVE  Inside'
  <1> SUFFICES ASSUME NEW i \in 1 .. Len(frames)
               PROVE  /\ frames[i].kind = "callback" /\ frames[i].where = "run"
                      /\ Callbacks(i - 1)'
    BY DEF Inside
  <1>1. Len(frames) \in Nat
    BY HandlerFrames DEF MaskInv
  <1> QED BY <1>1 DEF MaskInv, Inside, Callbacks

LEMMA MaskSystemCall ==
    ASSUME ~HandlersSetMask, MaskInv, SystemCall
    PROVE  Outside' /\ Inside'
  <1>0. Len(frames) \in Nat
    BY HandlerFrames DEF MaskInv
  <1>1. ASSUME UNCHANGED <<masks, where, frames>> PROVE Outside' /\ Inside'
    BY <1>1 DEF MaskInv, Outside, Inside, masks, Callbacks, Agrees, Waiting, InHandler
  <1>2. CASE \/ \E s \in Settable, a \in Actions : RegisterGuestSignalHandler(s, a)
             \/ RegisterGuestSigAltStack
    BY <1>1, <1>2 DEF RegisterGuestSignalHandler, RegisterGuestSigAltStack, context
  <1>3. ASSUME NEW how \in {"BLOCK", "UNBLOCK", "SETMASK"}, NEW set \in Masks,
               GuestSigProcMask(how, set)
        PROVE  Outside' /\ Inside'
    <2>1. Callbacks(Len(frames)) /\ UNCHANGED <<where, frames>> /\ where = "run"
      BY <1>3 DEF GuestSigProcMask, MaskInv, Outside, context
    <2>2. Inside'
      BY <2>1, CallbacksInside
    <2>3. Callbacks(Len(frames))' /\ Agrees(where, HostMask)'
      BY <1>3, <2>1 DEF GuestSigProcMask, Callbacks, Agrees
    <2> QED BY <2>1, <2>2, <2>3 DEF Outside, Waiting
  <1>4. ASSUME NEW set \in SuspendMasks, GuestSigSuspend(set) PROVE Outside' /\ Inside'
    <2>1. Callbacks(Len(frames)) /\ UNCHANGED frames /\ where = "run" /\ where' = "suspend"
      BY <1>4 DEF GuestSigSuspend, MaskInv, Outside
    <2>2. Inside'
      BY <2>1, CallbacksInside
    <2>3. Callbacks(Len(frames))' /\ Agrees(where, HostMask)'
      BY <1>4, <2>1 DEF Callbacks, Agrees
    <2>4. Saved' = PreviousSuspendMask' \ Required
      BY <1>4, <2>1 DEF GuestSigSuspend, MaskInv, Outside, Agrees
    <2> QED BY <2>1, <2>2, <2>3, <2>4 DEF Outside, Waiting
  <1>5. CASE SuspendReturns
    <2>1. Callbacks(Len(frames)) /\ UNCHANGED frames /\ where = "eintr" /\ where' = "run"
      BY <1>5 DEF SuspendReturns, MaskInv, Outside, Waiting
    <2>2. Inside'
      BY <2>1, CallbacksInside
    <2>3. Callbacks(Len(frames))' /\ Agrees(where, HostMask)'
      BY <1>5, <2>1 DEF SuspendReturns, Callbacks, Agrees, MaskInv, Outside
    <2> QED BY <2>1, <2>2, <2>3 DEF Outside, Waiting
  <1> QED BY <1>2, <1>3, <1>4, <1>5 DEF SystemCall

\* The thunk returns to where it came from, with the mask of that place.
LEMMA MaskReturn ==
    ASSUME MaskInv, NEW s, ReturnFromThunk(s, uc_sigmask), where' = Interrupted,
           UNCHANGED <<CurrentSignalMask, PreviousSuspendMask, frames>>
    PROVE  Outside' /\ Inside'
  <1>1. Inside'
    BY DEF MaskInv, Inside, Agrees, Callbacks
  <1>2. HostMask' = uc_sigmask
    BY DEF ReturnFromThunk
  <1>3. Callbacks(Len(frames))' <=> Callbacks(Len(frames))
    BY DEF Callbacks
  <1>4. Callbacks(Len(frames)) => Agrees(where, HostMask)'
    BY <1>2 DEF MaskInv, Outside, Agrees, Interrupted, uc_sigmask
  <1>5. InHandler' <=> InHandler
    BY DEF InHandler
  <1> QED BY <1>1, <1>3, <1>4, <1>5 DEF MaskInv, Outside, Interrupted, Waiting

LEMMA MaskDelivery ==
    ASSUME MaskInv, Delivery
    PROVE  Outside' /\ Inside'
  <1>0. CountInv'
    BY CountDelivery DEF MaskInv
  <1>1. ASSUME NEW s \in Signals, DeliverToGuest(s) PROVE Outside' /\ Inside'
    <2> DEFINE switch == TakesAltStack(GuestAction[s])
               st == IF switch THEN "alt" ELSE stack
    <2>1. switch \in BOOLEAN
      BY DEF TakesAltStack, MaskInv, CountInv, TypeOK
    <2>2. /\ StoreThreadState("guest", st, switch) /\ where' = "run"
          /\ UNCHANGED <<CurrentSignalMask, PreviousSuspendMask>>
      BY <1>1 DEF DeliverToGuest
    <2> HIDE DEF switch, st
    <2>3. Inside'
      BY <2>1, <2>2, StoreKeepsInside
    <2>4. /\ Len(frames) \in Nat /\ Len(frames') = Len(frames) + 1
          /\ frames'[Len(frames) + 1].kind = "guest"
      BY <2>1, <2>2, Stored DEF MaskInv
    <2>5. Len(frames) + 1 \in 1 .. Len(frames')
      BY <2>4
    <2>6. ~Callbacks(Len(frames))'
      BY <2>4, <2>5 DEF Callbacks
    <2>7. InHandler'
      <3>1. frames' \in Seq(Frames)
        BY <1>0 DEF CountInv, TypeOK, Frames
      <3>2. DOMAIN frames' = 1 .. Len(frames')
        BY <3>1
      <3> QED BY <2>4, <2>5, <3>2 DEF InHandler
    <2> QED BY <2>2, <2>3, <2>6, <2>7 DEF Outside, Waiting
  <1>2. ASSUME NEW s \in Signals, HandledByHost(s) \/ RestoreDefault(s) PROVE Outside' /\ Inside'
    BY <1>2, MaskReturn DEF HandledByHost, RestoreDefault
  <1>3. ASSUME NEW s \in Signals, DefaultKills(s) PROVE Outside' /\ Inside'
    BY <1>3 DEF DefaultKills, MaskInv, Outside, Inside, masks, Callbacks, Agrees, Waiting
  <1>4. ASSUME NEW reason \in {"Pause", "Stop"}, HandleSignalPause(reason)
        PROVE  Outside' /\ Inside'
    <2>1. UNCHANGED <<CurrentSignalMask, PreviousSuspendMask>> /\ where' \in {"pause", "stop"}
      BY <1>4 DEF HandleSignalPause
    <2>2. Outside'
      BY <2>1 DEF Outside, Agrees, Waiting
    <2>3. Inside'
      <3>1. CASE reason = "Pause"
        BY <1>4, <2>1, <3>1, StoreKeepsInside DEF HandleSignalPause
      <3>2. CASE reason # "Pause"
        <4>1. frames' = <<>>
          BY <1>4, <3>2 DEF HandleSignalPause
        <4>2. Len(frames') = 0
          BY <4>1
        <4> QED BY <4>2 DEF Inside
      <3> QED BY <3>1, <3>2
    <2> QED BY <2>2, <2>3
  <1> QED BY <1>1, <1>2, <1>3, <1>4 DEF Delivery

LEMMA MaskCallback ==
    ASSUME MaskInv, CallbackPtr
    PROVE  Outside' /\ Inside'
  <1>1. /\ StoreThreadState("callback", stack, FALSE) /\ where = "run" /\ where' = "run"
        /\ UNCHANGED <<CurrentSignalMask, PreviousSuspendMask, HostMask, Saved>>
    BY DEF CallbackPtr, masks
  <1>2. Inside'
    BY <1>1, StoreKeepsInside
  <1>3. /\ Len(frames) \in Nat /\ Len(frames') = Len(frames) + 1
        /\ \A i \in 1 .. Len(frames) : frames'[i] = frames[i]
        /\ frames'[Len(frames) + 1].kind = "callback"
    BY <1>1, Stored DEF MaskInv
  <1>4. Callbacks(Len(frames))' <=> Callbacks(Len(frames))
    BY <1>3 DEF Callbacks
  <1>5. InHandler => InHandler'
    <2>1. frames' \in Seq(Frames)
      BY <1>1, StoreKeepsCount DEF MaskInv, CountInv, TypeOK
    <2>2. DOMAIN frames' = 1 .. Len(frames')
      BY <2>1
    <2>3. InHandler <=> \E j \in 1 .. Len(frames) : frames[j].kind = "guest"
      BY HandlerFrames DEF MaskInv
    <2> QED BY <1>3, <2>2, <2>3 DEF InHandler
  <1>6. Callbacks(Len(frames)) => Agrees(where, HostMask)'
    BY <1>1 DEF MaskInv, Outside, Agrees
  <1> QED BY <1>1, <1>2, <1>4, <1>5, <1>6 DEF MaskInv, Outside, Waiting

LEMMA MaskNext ==
    ASSUME ~HandlersSetMask
    PROVE  MaskInv /\ [Next]_vars => MaskInv'
  <1> SUFFICES ASSUME MaskInv, [Next]_vars PROVE Outside' /\ Inside'
    BY CountNext DEF MaskInv
  <1>1. CASE SystemCall
    BY <1>1, MaskSystemCall
  <1>2. ASSUME UNCHANGED <<masks, where, frames>> PROVE Outside' /\ Inside'
    BY <1>2 DEF MaskInv, Outside, Inside, masks, Callbacks, Agrees, Waiting, InHandler
  <1>3. CASE (\E s \in Signals : Send(s)) \/ UNCHANGED vars
    BY <1>2, <1>3 DEF Send, context, vars
  <1>4. CASE Delivery
    BY <1>4, MaskDelivery
  <1>5. CASE CallbackPtr
    BY <1>5, MaskCallback
  <1>6. CASE SignalReturn \/ CallbackReturn \/ PauseReturn
    BY <1>6, RestoreKeepsMask DEF SignalReturn, CallbackReturn, PauseReturn, RestoreThreadState
  <1> QED BY <1>1, <1>3, <1>4, <1>5, <1>6 DEF Next, Ended

\* Guest handlers that leave their own mask alone: whatever handlers, pauses,
\* callbacks and suspends interrupt each other, the thread comes out with the
\* mask it has asked for.
THEOREM MaskAgreesAlways ==
    ASSUME ~HandlersSetMask
    PROVE  Spec => []MaskAgrees
  <1>1. MaskInv /\ [Next]_vars => MaskInv'
    BY MaskNext
  <1>2. MaskInv => MaskAgrees
    <2> SUFFICES ASSUME MaskInv, where = "run", frames = <<>>
                 PROVE  HostMask = CurrentSignalMask \ Required
      BY DEF MaskAgrees
    <2>1. Len(frames) = 0
      OBVIOUS
    <2> QED BY <2>1 DEF MaskInv, Outside, Callbacks, Agrees
  <1> QED BY <1>1, <1>2, MaskInit, PTL DEF Spec

-----------------------------------------------------------------------------
(* The alternative stack *)

\* Once a handler has started at the end of the alternative stack, the thread
\* and every context above it are on that stack and start no other there.
AltInv ==
    /\ CountInv
    /\ \A i \in 1 .. Len(frames) : frames[i].top => stack = "alt"
    /\ \A i, j \in 1 .. Len(frames) :
          i < j /\ frames[i].top => frames[j].stack = "alt" /\ ~frames[j].top

LEMMA AltInit == Init => AltInv
  <1> SUFFICES ASSUME Init PROVE AltInv
    OBVIOUS
  <1>1. CountInv /\ Len(frames) = 0
    BY CountInit DEF Init
  <1> QED BY <1>1 DEF AltInv

\* A context stored by a step that starts at the end of the alternative stack
\* only when the thread is not on it.
LEMMA AltStore ==
    ASSUME AltInv, NEW kind \in {"guest", "callback", "pause"}, NEW st, NEW top \in BOOLEAN,
           StoreThreadState(kind, st, top), CountInv',
           IF top THEN stack # "alt" /\ st = "alt" ELSE st = stack
    PROVE  AltInv'
  <1>1. /\ Len(frames) \in Nat /\ Len(frames') = Len(frames) + 1
        /\ \A i \in 1 .. Len(frames) : frames'[i] = frames[i]
        /\ frames'[Len(frames) + 1].stack = stack
        /\ frames'[Len(frames) + 1].top = top
    BY Stored DEF AltInv
  <1>2. stack' = st
    BY DEF StoreThreadState
  <1>3. \A i \in 1 .. Len(frames') : i \in 1 .. Len(frames) \/ i = Len(frames) + 1
    BY <1>1
  <1>4. ASSUME NEW i \in 1 .. Len(frames'), frames'[i].top PROVE stack' = "alt"
    BY <1>1, <1>2, <1>3, <1>4 DEF AltInv
  <1>5. ASSUME NEW i \in 1 .. Len(frames'), NEW j \in 1 .. Len(frames'), i < j, frames'[i].top
        PROVE  frames'[j].stack = "alt" /\ ~frames'[j].top
    <2>1. i \in 1 .. Len(frames) /\ frames'[i] = frames[i]
      BY <1>1, <1>5
    <2>2. stack = "alt"
      BY <1>5, <2>1 DEF AltInv
    <2>3. CASE j \in 1 .. Len(frames)
      BY <1>1, <1>5, <2>1, <2>3 DEF AltInv
    <2>4. CASE j = Len(frames) + 1
      BY <1>1, <2>2, <2>4
    <2> QED BY <1>3, <2>3, <2>4
  <1> QED BY <1>4, <1>5 DEF AltInv

LEMMA AltNext == AltInv /\ [Next]_vars => AltInv'
  <1> SUFFICES ASSUME AltInv, [Next]_vars PROVE AltInv'
    OBVIOUS
  <1>0. CountInv'
    BY CountNext DEF AltInv
  <1>1. ASSUME UNCHANGED <<stack, frames>> PROVE AltInv'
    BY <1>0, <1>1 DEF AltInv
  <1>2. CASE SystemCall \/ (\E s \in Signals : Send(s)) \/ UNCHANGED vars
    BY <1>1, <1>2 DEF SystemCall, RegisterGuestSignalHandler, RegisterGuestSigAltStack,
       GuestSigProcMask, GuestSigSuspend, SuspendReturns, Send, context, vars
  <1>3. ASSUME NEW s \in Signals, DeliverToGuest(s) PROVE AltInv'
    <2> DEFINE switch == TakesAltStack(GuestAction[s])
               st == IF switch THEN "alt" ELSE stack
    <2>1. switch \in BOOLEAN /\ IF switch THEN stack # "alt" /\ st = "alt" ELSE st = stack
      BY DEF TakesAltStack, AltInv, CountInv, TypeOK
    <2>2. StoreThreadState("guest", st, switch)
      BY <1>3 DEF DeliverToGuest
    <2> HIDE DEF switch, st
    <2> QED BY <1>0, <2>1, <2>2, AltStore
  <1>4. ASSUME NEW s \in Signals, HandledByHost(s) \/ DefaultKills(s) \/ RestoreDefault(s)
        PROVE  AltInv'
    BY <1>1, <1>4 DEF HandledByHost, DefaultKills, RestoreDefault
  <1>5. ASSUME NEW reason \in {"Pause", "Stop"}, HandleSignalPause(reason) PROVE AltInv'
    <2>1. CASE reason = "Pause"
      BY <1>0, <1>5, <2>1, AltStore DEF HandleSignalPause
    <2>2. CASE reason # "Pause"
      <3>1. frames' = <<>>
        BY <1>5, <2>2 DEF HandleSignalPause
      <3>2. Len(frames') = 0
        BY <3>1
      <3> QED BY <1>0, <3>2 DEF AltInv
    <2> QED BY <2>1, <2>2
  <1>6. CASE CallbackPtr
    BY <1>0, <1>6, AltStore DEF CallbackPtr
  <1>7. ASSUME NEW kinds, RestoreThreadState(kinds) PROVE AltInv'
    <2>1. /\ Len(frames) \in Nat \ {0} /\ Len(frames') = Len(frames) - 1
          /\ \A i \in 1 .. Len(frames') : frames'[i] = frames[i]
          /\ Top = frames[Len(frames)]
      BY <1>7, Restored DEF AltInv
    <2>2. stack' = frames[Len(frames)].stack
      BY <1>7, <2>1 DEF RestoreThreadState
    <2> QED BY <1>0, <2>1, <2>2 DEF AltInv
  <1>8. CASE SignalReturn \/ CallbackReturn \/ PauseReturn
    BY <1>7, <1>8 DEF SignalReturn, CallbackReturn, PauseReturn
  <1> QED BY <1>2, <1>3, <1>4, <1>5, <1>6, <1>8 DEF Next, Delivery, Ended

\* Handlers that interrupt each other never overwrite the frame of one that
\* started at the end of the alternative stack.
THEOREM AltStackOnceAlways == Spec => []AltStackOnce
  <1>1. AltInv => AltStackOnce
    <2> SUFFICES ASSUME AltInv PROVE AltStackOnce
      OBVIOUS
    <2> DEFINE T == {i \in DOMAIN frames : frames[i].top}
    <2>1. frames \in Seq(Frames)
      BY DEF AltInv, CountInv, TypeOK, Frames
    <2>2. DOMAIN frames = 1 .. Len(frames) /\ Len(frames) \in Nat
      BY <2>1
    <2>3. \A i, j \in T : i = j
      BY <2>2 DEF AltInv
    <2>4. CASE T = {}
      BY <2>4, FS_EmptySet DEF AltStackOnce
    <2>5. CASE T # {}
      <3>1. PICK i \in T : TRUE
        BY <2>5
      <3>2. T = {i}
        BY <2>3, <3>1
      <3>3. Cardinality(T) = 1
        BY <3>2, FS_Singleton
      <3> QED BY <3>3 DEF AltStackOnce
    <2> QED BY <2>4, <2>5
  <1> QED BY <1>1, AltInit, AltNext, PTL DEF Spec
=============================================================================
