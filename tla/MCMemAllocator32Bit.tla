------------------------- MODULE MCMemAllocator32Bit -------------------------
(* Small instances of MemAllocator32Bit: a segment that needs two pages and  *)
(* fills one, of which the guest may unmap, move or extend either.           *)
EXTENDS MemAllocator32Bit

OnePage == [s \in Segments |-> 1]
TwoPages == [s \in Segments |-> 2]
=============================================================================
