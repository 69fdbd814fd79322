------------------------ MODULE MCThreadPoolAllocator ------------------------
(* Small instances of ThreadPoolAllocator: an IR allocator and a decoder of  *)
(* different sizes.                                                          *)
EXTENDS ThreadPoolAllocator, TLC

CONSTANTS c1, c2

TwoSizes == (c1 :> 1) @@ (c2 :> 2)
BufferSymmetry == Permutations(Buffers)
=============================================================================
