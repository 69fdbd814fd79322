-------------------------- MODULE MCSignalDelegator --------------------------
(* Small instances of SignalDelegator: a signal of the guest, SIGSEGV,       *)
(* which the emulator needs as well, and the pause signal.                   *)
EXTENDS SignalDelegator

CONSTANTS usr, segv, pause

Handler(mask, onstack) ==
    [handler |-> "guest", sa_mask |-> mask, NODEFER |-> FALSE, ONSTACK |-> onstack]
OnAltStack == Handler({}, TRUE)
Nodefer == [Handler({usr, segv, pause}, FALSE) EXCEPT !.NODEFER = TRUE]
Ignore == [DefaultAction EXCEPT !.handler = "IGN"]
SomeActions == {OnAltStack, Nodefer, Ignore}
=============================================================================
