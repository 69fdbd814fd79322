------------------------- MODULE MCCodeInvalidation -------------------------
(* Small instances of CodeInvalidation: two pages, one block that lies on   *)
(* the first page and one that lies on both.                                *)
EXTENDS CodeInvalidation, TLC

CONSTANTS t1, t2, p1, p2, b1, b2

BothSpans == (b1 :> {p1}) @@ (b2 :> {p1, p2})
WideSpan == b2 :> {p1, p2}
OwnSpans == (b1 :> {p1}) @@ (b2 :> {p2})
ThreadSymmetry == Permutations(Threads)
=============================================================================
