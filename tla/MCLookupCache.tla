---------------------------- MODULE MCLookupCache ----------------------------
(* Small instances of LookupCache.  Pages are 2 bytes, the L2 directory has  *)
(* 4 pages and L1 has 2 entries, so that blocks alias in L1 and in L2.       *)
EXTENDS LookupCache

\* 9 and 17 alias in L2 (17 - 9 is VirtualMemSize) and all three in L1;
\* 13 needs a page of its own.
HighAddrs == {9, 13, 17}
\* 3 is the page index of 14.
LowAddrs == {3, 9, 14}
NullAddrs == {0, 8, 12}

Next3 == [a \in {9, 13, 17} |-> IF a = 9 THEN 13 ELSE IF a = 13 THEN 17 ELSE 9]
NextLow == [a \in {3, 9, 14} |-> IF a = 9 THEN 14 ELSE 9]
NextNull == [a \in {0, 8, 12} |-> IF a = 8 THEN 12 ELSE 8]

OneBuffer == [h \in {1, 2, 3} |-> 0]
TwoBuffers == [h \in {1, 2, 3} |-> IF h = 3 THEN 1 ELSE 0]
=============================================================================
