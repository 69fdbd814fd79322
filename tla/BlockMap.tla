------------------------------- MODULE BlockMap -------------------------------
(***************************************************************************)
(* What a lookup cache promises the dispatcher and the linker: a lookup    *)
(* reads one map from guest addresses to translated blocks.  A block is    *)
(* found from its insertion until it is erased or everything is cleared,   *)
(* however often the levels of the cache evict and reload it.              *)
(***************************************************************************)

CONSTANTS Addrs, HostCodes, NoAddr, NoHost

VARIABLES
    blocks,     \* guest address -> what a lookup returns
    erasing     \* address that an Erase under way is for, or NoAddr

Empty == [a \in Addrs |-> NoHost]

Init == blocks = Empty /\ erasing = NoAddr

\* A block is inserted only where there is none.
Insert(a, h) ==
    /\ erasing = NoAddr /\ blocks[a] = NoHost
    /\ blocks' = [blocks EXCEPT ![a] = h]
    /\ UNCHANGED erasing

Clear == erasing = NoAddr /\ blocks' = Empty /\ UNCHANGED erasing

\* A compilation that finds the code buffer full drops all blocks first.
ClearAndInsert(a, h) ==
    /\ erasing = NoAddr /\ blocks[a] = NoHost
    /\ blocks' = [Empty EXCEPT ![a] = h]
    /\ UNCHANGED erasing

\* The block may go away from the start of an Erase on, and has gone when the
\* Erase ends.
BeginErase(a) ==
    /\ erasing = NoAddr /\ erasing' = a
    /\ blocks' \in {blocks, [blocks EXCEPT ![a] = NoHost]}

EndErase ==
    /\ erasing # NoAddr /\ erasing' = NoAddr
    /\ blocks' = [blocks EXCEPT ![erasing] = NoHost]

Next ==
    \/ \E a \in Addrs :
          BeginErase(a) \/ \E h \in HostCodes : Insert(a, h) \/ ClearAndInsert(a, h)
    \/ Clear \/ EndErase

Spec == Init /\ [][Next]_<<blocks, erasing>>
=============================================================================
