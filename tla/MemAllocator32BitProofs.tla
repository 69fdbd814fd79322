----------------------- MODULE MemAllocator32BitProofs -----------------------
(***************************************************************************)
(* Proofs about MemAllocator32Bit, for any number of threads, any address  *)
(* space, any lengths and any segments: what the search returns, that      *)
(* every page the guest was given is marked, and that neither a search nor *)
(* a mremap takes a page that is in use.                                   *)
(***************************************************************************)
EXTENDS MemAllocator32Bit, NaturalsInduction, WellFoundedInduction, TLAPS

-----------------------------------------------------------------------------
(* Least and greatest elements *)

LEMMA LeastNatural ==
    ASSUME NEW T, T \subseteq Nat, T # {}
    PROVE  \E x \in T : \A y \in T : x =< y
<1>1. IsWellFoundedOn(OpToRel(<, Nat), Nat)
  BY NatLessThanWellFounded
<1>2. PICK x \in T : \A y \in T : ~(<<y, x>> \in OpToRel(<, Nat))
  BY <1>1, WFMin
<1>3. \A y \in T : <<y, x>> \in Nat \X Nat /\ (y < x => <<y, x>> \in OpToRel(<, Nat))
  BY DEF OpToRel
<1>4. \A y \in T : ~(y < x)
  BY <1>2, <1>3
<1> QED BY <1>4

LEMMA MinIn ==
    ASSUME NEW T, T \subseteq Nat, T # {}
    PROVE  Min(T) \in T /\ \A y \in T : Min(T) =< y
  BY LeastNatural DEF Min

LEMMA MaxIn ==
    ASSUME NEW m \in Int, NEW T, T \subseteq Int, \A x \in T : x =< m, T # {}
    PROVE  Max(T) \in T /\ \A y \in T : Max(T) >= y
<1> DEFINE D == {m - x : x \in T}
<1>1. \A x \in T : x \in Int /\ m - x \in Nat
  OBVIOUS
<1>2. D \subseteq Nat /\ D # {}
  BY <1>1
<1>3. \E d \in D : \A e \in D : d =< e
  BY <1>2, LeastNatural
<1>4. PICK x \in T : \A e \in D : m - x =< e
  BY <1>3
<1>5. ASSUME NEW y \in T PROVE x >= y
  <2>1. m - x =< m - y
    BY <1>4
  <2> QED BY <1>1, <2>1
<1>6. \E z \in T : \A y \in T : z >= y
  BY <1>5
<1> QED BY <1>6 DEF Max

-----------------------------------------------------------------------------
(* What the search returns *)

\* The tests of one range that fail, and one round of FindPageRange_TopDown.
Taken(s, n) == {o \in 0 .. n - 1 : s - o \in MappedPages}

Round(f, s, n) ==
    IF s < BASE_KEY \/ s > TOP_KEY THEN 0
    ELSE IF Taken(s, n) = {} THEN s - n
    ELSE f[s - (Min(Taken(s, n)) + 1)]

\* The top pages of the free ranges at or below s, and the answer.
Tops(s, n) == {x \in BASE_KEY .. s : From(x - n + 1, n) \cap MappedPages = {}}
Highest(s, n) == IF Tops(s, n) = {} THEN 0 ELSE Max(Tops(s, n)) - n
Answer(n) == [s \in Int |-> IF s < BASE_KEY \/ s > TOP_KEY THEN 0 ELSE Highest(s, n)]

LEMMA Keys == BASE_KEY \in Nat /\ BASE_KEY > 1 /\ TOP_KEY \in Nat /\ TOP_KEY32BIT \in Pages
  BY KeyAssumption

\* A range is free if no test of it fails.
LEMMA TakenIsUsed ==
    ASSUME NEW s \in Int, NEW n \in Nat \ {0}
    PROVE  Taken(s, n) = {} <=> From(s - n + 1, n) \cap MappedPages = {}
<1>1. ASSUME NEW o \in Taken(s, n) PROVE s - o \in From(s - n + 1, n) \cap MappedPages
  BY <1>1 DEF Taken, From
<1>2. ASSUME NEW x \in From(s - n + 1, n) \cap MappedPages PROVE s - x \in Taken(s, n)
  BY <1>2 DEF Taken, From
<1> QED BY <1>1, <1>2

\* The greatest of the tops, when the range at s is free.
LEMMA TopsHere ==
    ASSUME NEW s \in Int, s >= BASE_KEY, NEW n \in Nat \ {0}, Taken(s, n) = {}
    PROVE  Highest(s, n) = s - n
<1>1. s \in Tops(s, n)
  BY TakenIsUsed, Keys DEF Tops
<1>2. Tops(s, n) \subseteq Int /\ \A x \in Tops(s, n) : x =< s
  BY Keys DEF Tops
<1>3. Max(Tops(s, n)) \in Tops(s, n) /\ Max(Tops(s, n)) >= s
  BY <1>1, <1>2, MaxIn
<1>4. Max(Tops(s, n)) = s
  BY <1>2, <1>3
<1> QED BY <1>1, <1>4 DEF Highest

\* Every range whose top lies above the first page that is taken, counted
\* from s downwards, holds that page: the scan may go on below it.
LEMMA TopsBelow ==
    ASSUME NEW s \in Int, NEW n \in Nat \ {0}, Taken(s, n) # {}
    PROVE  /\ Min(Taken(s, n)) \in 0 .. n - 1
           /\ Tops(s, n) = Tops(s - (Min(Taken(s, n)) + 1), n)
<1> DEFINE m == Min(Taken(s, n))
<1>1. Taken(s, n) \subseteq Nat /\ Taken(s, n) \subseteq 0 .. n - 1
  BY DEF Taken
<1>2. m \in Taken(s, n)
  BY <1>1, MinIn
<1>3. m \in 0 .. n - 1 /\ s - m \in MappedPages
  BY <1>2 DEF Taken
<1> HIDE DEF m
<1>4. ASSUME NEW x \in Tops(s, n) PROVE x =< s - (m + 1)
  <2>1. x \in Int /\ x =< s /\ From(x - n + 1, n) \cap MappedPages = {}
    BY <1>4, Keys DEF Tops
  <2>2. s - m \notin From(x - n + 1, n)
    BY <1>3, <2>1
  <2> QED BY <1>3, <2>1, <2>2 DEF From
<1>5. Tops(s, n) = Tops(s - (m + 1), n)
  BY <1>3, <1>4, Keys DEF Tops
<1> QED BY <1>3, <1>5 DEF m

\* The answer satisfies the equation that defines the scan.
LEMMA AnswerIsScan ==
    ASSUME NEW n \in Nat \ {0}
    PROVE  Answer(n) = [s \in Int |-> Round(Answer(n), s, n)]
<1> SUFFICES ASSUME NEW s \in Int PROVE Answer(n)[s] = Round(Answer(n), s, n)
  BY DEF Answer
<1>1. CASE s < BASE_KEY \/ s > TOP_KEY
  BY <1>1 DEF Answer, Round
<1>2. CASE ~(s < BASE_KEY \/ s > TOP_KEY) /\ Taken(s, n) = {}
  BY <1>2, TopsHere, Keys DEF Answer, Round
<1>3. CASE ~(s < BASE_KEY \/ s > TOP_KEY) /\ Taken(s, n) # {}
  <2> DEFINE next == s - (Min(Taken(s, n)) + 1)
  <2>1. Min(Taken(s, n)) \in 0 .. n - 1 /\ Tops(s, n) = Tops(next, n)
    BY <1>3, TopsBelow
  <2>2. next \in Int /\ next < s
    BY <2>1
  <2> HIDE DEF next
  <2>3. Highest(next, n) = Highest(s, n)
    BY <2>1 DEF Highest
  <2>4. next < BASE_KEY => Tops(next, n) = {}
    BY <2>2, Keys DEF Tops
  <2>5. next < BASE_KEY => Highest(next, n) = 0
    BY <2>4 DEF Highest
  <2>6. Answer(n)[next] = Highest(next, n)
    BY <1>3, <2>2, <2>5, Keys DEF Answer
  <2>7. Round(Answer(n), s, n) = Answer(n)[next]
    BY <1>3 DEF Round, next
  <2>8. Answer(n)[s] = Highest(s, n)
    BY <1>3 DEF Answer
  <2> QED BY <2>3, <2>6, <2>7, <2>8
<1> QED BY <1>1, <1>2, <1>3

\* ... and nothing else does: the least place where another solution differed
\* would have to have one below it.
LEMMA ScanIsAnswer ==
    ASSUME NEW n \in Nat \ {0}, NEW f, f = [s \in Int |-> Round(f, s, n)], NEW start \in Int
    PROVE  f[start] = Answer(n)[start]
<1> DEFINE Differs == {s \in Nat : f[s] # Answer(n)[s]}
<1>0. /\ \A s \in Int : f[s] = Round(f, s, n)
      /\ \A s \in Int : Answer(n)[s] = Round(Answer(n), s, n)
  BY AnswerIsScan
<1>1. ASSUME NEW s \in Int, s < BASE_KEY \/ s > TOP_KEY PROVE f[s] = Answer(n)[s]
  BY <1>0, <1>1 DEF Round
<1>2. Differs = {}
  <2> SUFFICES ASSUME Differs # {} PROVE FALSE
    OBVIOUS
  <2>1. PICK s \in Differs : \A y \in Differs : s =< y
    BY LeastNatural
  <2>2. s \in Nat /\ s \in Int /\ f[s] # Answer(n)[s]
    BY <2>1
  <2>3. ~(s < BASE_KEY \/ s > TOP_KEY)
    BY <1>1, <2>2
  <2>4. Taken(s, n) # {}
    BY <1>0, <2>2, <2>3 DEF Round
  <2> DEFINE next == s - (Min(Taken(s, n)) + 1)
  <2>5. next \in Int /\ next < s
    BY <2>2, <2>4, TopsBelow
  <2>6. f[s] = f[next] /\ Answer(n)[s] = Answer(n)[next]
    BY <1>0, <2>2, <2>3, <2>4 DEF Round
  <2> HIDE DEF next
  <2>7. f[next] # Answer(n)[next]
    BY <2>2, <2>6
  <2>8. next \in Nat
    BY <1>1, <2>5, <2>7, Keys
  <2>9. next \in Differs
    BY <2>7, <2>8
  <2> QED BY <2>1, <2>2, <2>5, <2>9
<1>3. CASE start \in Nat
  BY <1>2, <1>3
<1>4. CASE start \notin Nat
  BY <1>1, <1>4, Keys
<1> QED BY <1>3, <1>4

\* FindPageRange_TopDown, in closed form: from wherever it starts.
LEMMA SearchAnswer ==
    ASSUME NEW start \in Int, NEW n \in Nat \ {0}
    PROVE  FindPageRange_TopDown(start, n) =
             IF start < BASE_KEY \/ start > TOP_KEY THEN 0 ELSE Highest(start, n)
<1> DEFINE Scan == CHOOSE f : f = [s \in Int |-> Round(f, s, n)]
<1>1. FindPageRange_TopDown(start, n) = Scan[start]
  BY DEF FindPageRange_TopDown, Round, Taken
<1>2. Scan = [s \in Int |-> Round(Scan, s, n)]
  BY AnswerIsScan
<1> HIDE DEF Scan
<1>3. Scan[start] = Answer(n)[start]
  BY <1>2, ScanIsAnswer
<1> QED BY <1>1, <1>3 DEF Answer

\* A range that was found lies below the top page, and its upper pages but
\* for the first one below them are not marked.
LEMMA FoundRange ==
    ASSUME NEW start \in Int, NEW n \in Nat \ {0}
    PROVE  LET r == FindPageRange_TopDown(start, n)
           IN  r \in Int /\ (r # 0 => r + n =< TOP_KEY /\ From(r + 1, n) \cap MappedPages = {})
<1>1. CASE start < BASE_KEY \/ start > TOP_KEY \/ Tops(start, n) = {}
  BY <1>1, SearchAnswer DEF Highest
<1>2. CASE ~(start < BASE_KEY \/ start > TOP_KEY) /\ Tops(start, n) # {}
  <2> DEFINE m == Max(Tops(start, n))
  <2>1. Tops(start, n) \subseteq Int /\ \A x \in Tops(start, n) : x =< start
    BY Keys DEF Tops
  <2>2. m \in Tops(start, n)
    BY <1>2, <2>1, MaxIn
  <2>3. FindPageRange_TopDown(start, n) = m - n
    BY <1>2, SearchAnswer DEF Highest
  <2> HIDE DEF m
  <2>4. m \in Int /\ m =< TOP_KEY /\ From(m - n + 1, n) \cap MappedPages = {}
    BY <1>2, <2>1, <2>2, Keys DEF Tops
  <2> QED BY <2>3, <2>4, Keys
<1> QED BY <1>1, <1>2

LEMMA LengthsPositive == \A n \in Lengths : n \in Nat \ {0}
  BY KeyAssumption

\* In every state, from wherever it starts and for every length, the scan of
\* FindPageRange_TopDown returns the page below the highest run of unmarked
\* pages, and 0 when there is none: skipping to the page below the first one
\* that is taken misses no room.
THEOREM FindsHighestAlways == Spec => []FindsHighest
<1>1. FindsHighest
  <2> SUFFICES ASSUME NEW start \in Pages \cup {TOP_KEY}, NEW n \in Lengths
               PROVE  FindPageRange_TopDown(start, n) = Highest(start, n)
    BY DEF FindsHighest, Highest, Tops
  <2>1. start \in Int /\ start >= BASE_KEY /\ start =< TOP_KEY
    BY Keys, LengthsPositive, KeyAssumption DEF Pages
  <2> QED BY <2>1, SearchAnswer, LengthsPositive, Keys
<1> QED BY <1>1, PTL

-----------------------------------------------------------------------------
(* Threads and their calls *)

PageType == [kind : {"free", "guest", "foreign", "shm", "moved", "held"},
             seg : Segments \cup Threads \cup {NoSegment}, at : Int]

\* No page of a segment lies below the address where its first page would be.
Below(p, x) == OfSegment(x) => x.at =< p

PageOK(p, x) == x \in PageType /\ Below(p, x)

CallType == [op : {"none", "mmap", "mremap", "shmat"}, n : Nat, bottom : Int, top : Int,
             Wrapped : BOOLEAN, seg : Segments \cup {NoSegment}, REMAP : BOOLEAN, old : Int,
             oldn : Int, DONTUNMAP : BOOLEAN]

\* What a thread that is in a call has asked for.
Request(c) ==
    /\ c.op # "none" /\ c.n # 0
    /\ c.op = "shmat" => c.seg \in Segments
    /\ c.op = "mremap" => c.old \in Pages /\ c.oldn >= 1 /\ From(c.old, c.oldn) \subseteq Pages

\* The mutex is held by the thread that searches, only mremap is between its
\* parts, and the place it has found is below the top page.
ControlInv ==
    /\ AllocMutex \in Threads \cup {NoThread}
    /\ pc \in [Threads -> {"idle", "scan", "place", "move"}]
    /\ call \in [Threads -> CallType]
    /\ \A t \in Threads :
          /\ (AllocMutex = t) <=> (pc[t] = "scan")
          /\ pc[t] # "idle" => Request(call[t])
          /\ pc[t] \in {"place", "move"} => call[t].op = "mremap"
          /\ pc[t] = "move" => From(call[t].bottom, call[t].n) \subseteq Pages

HostOK == Host \in [Pages -> PageType] /\ \A p \in Pages : Below(p, Host[p])

MemInv ==
    /\ HostOK
    /\ MappedPages \subseteq 0 .. TOP_KEY
    /\ PageToShm \in [Pages -> Segments \cup {NoSegment}]
    /\ LastScanLocation \in Pages \cup {TOP_KEY}

Inv == ControlInv /\ MemInv

LEMMA PagesAreInts == Pages \subseteq Nat /\ Pages \subseteq 0 .. TOP_KEY /\ TOP_KEY \in Int
  BY Keys DEF Pages

LEMMA Kinds ==
    /\ Free.kind = "free" /\ Guest.kind = "guest"
    /\ \A t : Held(t).kind = "held" /\ Held(t).seg = t
    /\ \A s, a : Shm(s, a).kind = "shm" /\ Shm(s, a).seg = s /\ Shm(s, a).at = a
    /\ \A s, a : Moved(s, a).kind = "moved" /\ Moved(s, a).seg = s /\ Moved(s, a).at = a
  BY DEF Free, Guest, Held, Shm, Moved, Page

LEMMA PageTypes ==
    /\ Free \in PageType /\ Guest \in PageType
    /\ \A t \in Threads : Held(t) \in PageType
    /\ \A s \in Segments, p \in Pages : Shm(s, p) \in PageType
    /\ \A x \in PageType, a \in Int : Moved(x.seg, a) \in PageType
<1>1. Pages \subseteq Int
  BY PagesAreInts
<1> QED BY <1>1 DEF Free, Guest, Held, Shm, Moved, Page, PageType

LEMMA PlainPages ==
    /\ \A p : PageOK(p, Free) /\ PageOK(p, Guest)
    /\ \A t \in Threads : \A p : PageOK(p, Held(t))
    /\ \A s \in Segments, p \in Pages, q \in Int : q >= p => PageOK(q, Shm(s, p))
  BY PageTypes, Kinds DEF PageOK, Below, OfSegment

LEMMA NoCallType == NoCall \in CallType
  BY DEF NoCall, CallType

LEMMA InvInit == Init => Inv
<1> SUFFICES ASSUME Init PROVE Inv
  OBVIOUS
<1>1. ControlInv
  BY NoCallType, SegmentAssumption DEF Init, ControlInv
<1>2. /\ Page("foreign", NoSegment, 0) \in PageType /\ Free \in PageType
      /\ ~OfSegment(Page("foreign", NoSegment, 0)) /\ ~OfSegment(Free)
  BY PageTypes, Kinds DEF Page, PageType, OfSegment
<1>3. HostOK
  BY <1>2 DEF Init, HostOK, Below
<1>4. MappedPages \subseteq 0 .. TOP_KEY
  <2>1. BASE_KEY - 1 < TOP_KEY
    BY Keys DEF Pages
  <2> QED BY <2>1, Keys DEF Init, Reserved
<1> QED BY <1>1, <1>3, <1>4 DEF Init, Inv, MemInv

\* A step that moves one thread on with the request c.
LEMMA ControlKept ==
    ASSUME ControlInv, NEW t \in Threads, NEW l \in {"idle", "scan", "place", "move"}, NEW c \in CallType,
           pc' = [pc EXCEPT ![t] = l], call' = [call EXCEPT ![t] = c],
           l # "idle" => Request(c), l \in {"place", "move"} => c.op = "mremap",
           l = "move" => From(c.bottom, c.n) \subseteq Pages,
           AllocMutex \in {t, NoThread}, AllocMutex' = IF l = "scan" THEN t ELSE NoThread
    PROVE  ControlInv'
<1>1. pc'[t] = l /\ call'[t] = c /\ \A u \in Threads \ {t} : pc'[u] = pc[u] /\ call'[u] = call[u]
  BY DEF ControlInv
<1>2. pc' \in [Threads -> {"idle", "scan", "place", "move"}] /\ call' \in [Threads -> CallType]
  BY DEF ControlInv
<1>3. \A u \in Threads \ {t} : AllocMutex # u /\ AllocMutex' # u
  BY SegmentAssumption
<1>4. \A u \in Threads :
          /\ (AllocMutex' = u) <=> (pc'[u] = "scan")
          /\ pc'[u] # "idle" => Request(call'[u])
          /\ pc'[u] \in {"place", "move"} => call'[u].op = "mremap"
          /\ pc'[u] = "move" => From(call'[u].bottom, call'[u].n) \subseteq Pages
  BY <1>1, <1>3, SegmentAssumption DEF ControlInv
<1>5. AllocMutex' \in Threads \cup {NoThread}
  OBVIOUS
<1> QED BY <1>2, <1>4, <1>5 DEF ControlInv

\* The end of a search: the thread that held the mutex returns.
LEMMA ReturnKept ==
    ASSUME ControlInv, NEW t \in Threads, pc[t] = "scan", NEW low \in Int, Return(t, low),
           low # 0 => From(low, call[t].n) \subseteq Pages
    PROVE  ControlInv'
<1>1. AllocMutex = t /\ AllocMutex' = NoThread /\ call[t] \in CallType /\ Request(call[t])
  BY DEF ControlInv, Return
<1>2. CASE call[t].op = "mremap" /\ low # 0
  <2> DEFINE c == [call[t] EXCEPT !.bottom = low]
  <2>1. pc' = [pc EXCEPT ![t] = "move"] /\ call' = [call EXCEPT ![t] = c]
    BY <1>2 DEF Return
  <2>2. c \in CallType
    BY <1>1 DEF CallType
  <2>3. c.op = "mremap" /\ c.bottom = low /\ c.n = call[t].n /\ c.old = call[t].old /\ c.oldn = call[t].oldn
    BY <1>1, <1>2 DEF CallType
  <2>4. Request(c)
    BY <1>1, <1>2, <2>3 DEF Request
  <2> HIDE DEF c
  <2> QED BY <1>1, <1>2, <2>1, <2>2, <2>3, <2>4, ControlKept
<1>3. CASE ~(call[t].op = "mremap" /\ low # 0)
  <2>1. pc' = [pc EXCEPT ![t] = "idle"] /\ call' = [call EXCEPT ![t] = NoCall]
    BY <1>3 DEF Return
  <2> QED BY <1>1, <2>1, NoCallType, ControlKept
<1> QED BY <1>2, <1>3

\* The range a search tries.
LEMMA CandidateRange ==
    ASSUME NEW c \in CallType, Request(c)
    PROVE  LET try == Candidate(c)
           IN  /\ try.bottom \in Int /\ try.low \in Int
               /\ try.low # 0 => try.low + c.n =< TOP_KEY /\ From(try.low + 1, c.n) \cap MappedPages = {}
               /\ try.low >= BASE_KEY => From(try.low, c.n) \subseteq Pages /\ try.low \in Pages
<1>0. c.n \in Nat \ {0} /\ c.bottom \in Int /\ c.top \in Int
  BY DEF CallType, Request
<1> DEFINE first == FindPageRange_TopDown(c.bottom, c.n)
           second == FindPageRange_TopDown(c.top, c.n)
           try == Candidate(c)
<1>1. /\ first \in Int
      /\ first # 0 => first + c.n =< TOP_KEY /\ From(first + 1, c.n) \cap MappedPages = {}
      /\ second \in Int
      /\ second # 0 => second + c.n =< TOP_KEY /\ From(second + 1, c.n) \cap MappedPages = {}
  BY <1>0, FoundRange
<1>2. /\ first # 0 => try.bottom = c.bottom /\ try.low = first
      /\ first = 0 => try.bottom = c.top /\ try.low = second
  BY DEF Candidate
<1> HIDE DEF first, second, try
<1>3. /\ try.bottom \in Int /\ try.low \in Int
      /\ try.low # 0 => try.low + c.n =< TOP_KEY /\ From(try.low + 1, c.n) \cap MappedPages = {}
  BY <1>0, <1>1, <1>2
<1>4. ASSUME try.low >= BASE_KEY PROVE From(try.low, c.n) \subseteq Pages /\ try.low \in Pages
  BY <1>0, <1>3, <1>4, Keys DEF From, Pages
<1> QED BY <1>3, <1>4 DEF try

\* A search that goes on still asks for the same.
LEMMA RetryKept ==
    ASSUME NEW c \in CallType, Request(c), NEW try, try.bottom \in Int, try.low \in Int
    PROVE  Retry(c, try) \in CallType /\ Request(Retry(c, try))
<1>0. TOP_KEY \in Int /\ BASE_KEY \in Int /\ c.n \in Int
  BY Keys DEF CallType
<1>1. ASSUME NEW b \in Int, NEW w \in BOOLEAN
      PROVE  [c EXCEPT !.bottom = b, !.Wrapped = w] \in CallType /\ Request([c EXCEPT !.bottom = b, !.Wrapped = w])
  BY <1>1 DEF CallType, Request
<1>2. ASSUME NEW b \in Int
      PROVE  [c EXCEPT !.bottom = b] \in CallType /\ Request([c EXCEPT !.bottom = b])
  BY <1>2 DEF CallType, Request
<1>3. CASE try.low + c.n = TOP_KEY
  <2>1. Retry(c, try) = [c EXCEPT !.bottom = IF c.op = "shmat" THEN TOP_KEY ELSE BASE_KEY, !.Wrapped = TRUE]
    BY <1>3 DEF Retry
  <2> QED BY <1>0, <1>1, <2>1
<1>4. CASE try.low + c.n # TOP_KEY /\ c.op = "shmat"
  <2>1. Retry(c, try) = [c EXCEPT !.bottom = try.bottom + c.n]
    BY <1>4 DEF Retry
  <2> QED BY <1>0, <1>2, <2>1
<1>5. CASE try.low + c.n # TOP_KEY /\ c.op # "shmat"
  <2>1. Retry(c, try) = [c EXCEPT !.bottom = try.bottom - 1]
    BY <1>5 DEF Retry
  <2> QED BY <1>0, <1>2, <2>1
<1> QED BY <1>3, <1>4, <1>5

-----------------------------------------------------------------------------
(* Type correctness *)

\* Pages get a new state.
LEMMA SetHostType ==
    ASSUME MemInv, NEW S, NEW x, \A p \in S \cap Pages : PageOK(p, x), SetHost(S, x)
    PROVE  HostOK'
<1>1. \A p \in Pages : PageOK(p, Host'[p])
  BY DEF MemInv, HostOK, SetHost, PageOK
<1>2. Host' = [p \in Pages |-> Host'[p]]
  BY DEF SetHost
<1> QED BY <1>1, <1>2 DEF HostOK, PageOK

LEMMA RangeType == ASSUME NEW p, NEW n, From(p, n) \subseteq Pages PROVE From(p, n) \subseteq 0 .. TOP_KEY
  BY PagesAreInts

LEMMA SearchSafe ==
    ASSUME Inv, NEW t \in Threads, SearchStep(t)
    PROVE  Inv'
<1> DEFINE c == call[t]
           try == Candidate(c)
           range == From(try.low, c.n)
<1>0. pc[t] = "scan" /\ c \in CallType /\ Request(c)
  BY DEF SearchStep, MapFound, RefuseFound, NothingFound, Inv, ControlInv
<1>1. /\ try.bottom \in Int /\ try.low \in Int
      /\ try.low >= BASE_KEY => range \subseteq Pages /\ try.low \in Pages
  BY <1>0, CandidateRange
<1>2. CASE MapFound(t)
  <2>1. /\ try.low >= BASE_KEY /\ SetHost(range, NewPage(t, try.low)) /\ MappedPages' = MappedPages \cup range
        /\ LastScanLocation' = try.low /\ Return(t, try.low)
        /\ PageToShm' = IF c.op = "shmat" THEN [PageToShm EXCEPT ![try.low] = c.seg] ELSE PageToShm
    BY <1>2 DEF MapFound
  <2>2. c.op \in {"mmap", "mremap", "shmat"} /\ (c.op = "shmat" => c.seg \in Segments)
    BY <1>0 DEF CallType, Request
  <2> HIDE DEF try, range
  <2>3. range \subseteq Pages /\ try.low \in Pages
    BY <1>1, <2>1
  <2>4. \A p \in range : PageOK(p, NewPage(t, try.low))
    <3>1. \A p \in range : p \in Int /\ p >= try.low
      BY <2>3, PagesAreInts DEF range, From
    <3>2. CASE c.op = "shmat"
      BY <2>2, <2>3, <3>1, <3>2, PlainPages DEF NewPage
    <3>3. CASE c.op # "shmat"
      BY <2>2, <3>3, PlainPages DEF NewPage
    <3> QED BY <3>2, <3>3
  <2>5. HostOK'
    BY <2>1, <2>4, SetHostType DEF Inv
  <2>6. PageToShm' \in [Pages -> Segments \cup {NoSegment}]
    BY <2>1, <2>2, <2>3 DEF Inv, MemInv
  <2>7. MemInv'
    BY <2>1, <2>3, <2>5, <2>6, PagesAreInts DEF Inv, MemInv
  <2>8. ControlInv'
    BY <1>0, <1>1, <2>1, <2>3, ReturnKept DEF Inv, range
  <2> QED BY <2>7, <2>8 DEF Inv
<1>3. CASE RefuseFound(t)
  <2>1. UNCHANGED <<Host, MappedPages, PageToShm, LastScanLocation>>
    BY <1>3 DEF RefuseFound
  <2>2. CASE call' = [call EXCEPT ![t] = Retry(c, try)] /\ UNCHANGED <<AllocMutex, pc>>
    <3>1. Retry(c, try) \in CallType /\ Request(Retry(c, try))
      BY <1>0, <1>1, RetryKept
    <3>2. AllocMutex = t /\ AllocMutex' = t /\ pc' = [pc EXCEPT ![t] = "scan"]
      BY <1>0, <2>2 DEF Inv, ControlInv
    <3> HIDE DEF c, try
    <3>3. ControlInv'
      BY <2>2, <3>1, <3>2, ControlKept DEF Inv
    <3> QED BY <2>1, <3>3 DEF Inv, MemInv, HostOK
  <2>3. CASE Return(t, 0)
    <3>1. ControlInv'
      BY <1>0, <2>3, ReturnKept DEF Inv
    <3> QED BY <2>1, <3>1 DEF Inv, MemInv, HostOK
  <2> QED BY <1>3, <2>2, <2>3 DEF RefuseFound
<1>4. CASE NothingFound(t)
  <2>1. ControlInv'
    BY <1>0, <1>4, ReturnKept DEF Inv, NothingFound
  <2> QED BY <1>4, <2>1 DEF Inv, MemInv, HostOK, NothingFound
<1> QED BY <1>2, <1>3, <1>4 DEF SearchStep

\* A thread starts a search.
LEMMA SearchStarts ==
    ASSUME Inv, NEW t \in Threads, AllocMutex = NoThread, NEW c \in CallType, Request(c), Search(t, c),
           UNCHANGED <<Host, MappedPages, PageToShm, LastScanLocation>>
    PROVE  Inv'
<1>1. ControlInv'
  BY ControlKept DEF Inv, Search
<1> QED BY <1>1 DEF Inv, MemInv, HostOK

\* A call that only changes the memory.
LEMMA MemoryCall ==
    ASSUME Inv, NEW M, MappedPages' = M, M \subseteq 0 .. TOP_KEY,
           HostOK', PageToShm' \in [Pages -> Segments \cup {NoSegment}],
           UNCHANGED <<LastScanLocation, AllocMutex, pc, call>>
    PROVE  Inv'
  BY DEF Inv, MemInv, ControlInv

LEMMA MapCallSafe ==
    ASSUME Inv, NEW t \in Threads, MapCall(t)
    PROVE  Inv'
<1>1. CASE mmap(t)
  <2>0. AllocMutex = NoThread
    BY <1>1 DEF mmap, Call
  <2>1. PICK n \in Lengths : \E top \in {TOP_KEY, TOP_KEY32BIT} :
            Search(t, [NoCall EXCEPT !.op = "mmap", !.n = n, !.top = top,
                                     !.bottom = IF LastScanLocation >= top THEN top ELSE LastScanLocation])
    BY <1>1 DEF mmap
  <2>2. PICK top \in {TOP_KEY, TOP_KEY32BIT} :
            Search(t, [NoCall EXCEPT !.op = "mmap", !.n = n, !.top = top,
                                     !.bottom = IF LastScanLocation >= top THEN top ELSE LastScanLocation])
    BY <2>1
  <2> DEFINE b == IF LastScanLocation >= top THEN top ELSE LastScanLocation
             c == [NoCall EXCEPT !.op = "mmap", !.n = n, !.top = top, !.bottom = b]
  <2>3. n \in Nat \ {0} /\ top \in Int /\ b \in Int
    BY LengthsPositive, PagesAreInts, Keys DEF Inv, MemInv
  <2> HIDE DEF b
  <2>4. c.op = "mmap" /\ c.n = n
    BY NoCallType DEF CallType
  <2>5. c \in CallType
    BY <2>3, NoCallType DEF CallType
  <2> HIDE DEF c
  <2>6. Request(c)
    BY <2>3, <2>4 DEF Request
  <2> QED BY <1>1, <2>0, <2>2, <2>5, <2>6, SearchStarts DEF mmap, b, c
<1>2. CASE mmapFixed(t)
  <2>1. PICK p \in Pages : \E n \in Lengths :
          From(p, n) \subseteq Pages /\ SetHost(From(p, n), Guest) /\ MappedPages' = MappedPages \cup From(p, n)
    BY <1>2 DEF mmapFixed
  <2>2. PICK n \in Lengths :
          From(p, n) \subseteq Pages /\ SetHost(From(p, n), Guest) /\ MappedPages' = MappedPages \cup From(p, n)
    BY <2>1
  <2>3. HostOK'
    BY <2>2, SetHostType, PlainPages DEF Inv
  <2>4. MappedPages \cup From(p, n) \subseteq 0 .. TOP_KEY
    BY <2>2, RangeType DEF Inv, MemInv
  <2> QED BY <1>2, <2>2, <2>3, <2>4, MemoryCall DEF mmapFixed, Inv, MemInv
<1>3. CASE munmap(t)
  <2>1. PICK p \in Pages : \E n \in Lengths :
          From(p, n) \subseteq Pages /\ SetHost(From(p, n), Free) /\ MappedPages' = MappedPages \ From(p, n)
    BY <1>3 DEF munmap
  <2>2. PICK n \in Lengths :
          From(p, n) \subseteq Pages /\ SetHost(From(p, n), Free) /\ MappedPages' = MappedPages \ From(p, n)
    BY <2>1
  <2>3. HostOK'
    BY <2>2, SetHostType, PlainPages DEF Inv
  <2>4. MappedPages \ From(p, n) \subseteq 0 .. TOP_KEY
    BY DEF Inv, MemInv
  <2> QED BY <1>3, <2>2, <2>3, <2>4, MemoryCall DEF munmap, Inv, MemInv
<1> QED BY <1>1, <1>2, <1>3 DEF MapCall

LEMMA RemapType ==
    ASSUME NEW old \in Pages, NEW oldn \in Lengths, NEW n \in Lengths, NEW keep \in BOOLEAN,
           From(old, oldn) \subseteq Pages
    PROVE  /\ Remap(old, oldn, n, keep) \in CallType /\ Request(Remap(old, oldn, n, keep))
           /\ Remap(old, oldn, n, keep).op = "mremap"
<1>1. old \in Int /\ oldn \in Int /\ oldn >= 1 /\ n \in Nat \ {0}
  BY PagesAreInts, LengthsPositive
<1> DEFINE c == Remap(old, oldn, n, keep)
<1>2. c \in CallType
  BY <1>1, NoCallType DEF Remap, CallType
<1>3. c.op = "mremap" /\ c.n = n /\ c.old = old /\ c.oldn = oldn
  BY NoCallType DEF Remap, CallType
<1> QED BY <1>1, <1>2, <1>3 DEF Request

\* mremap leaves the mutex to find a place.
LEMMA PlaceKept ==
    ASSUME Inv, NEW t \in Threads, Call(t), NEW c \in CallType, Request(c), c.op = "mremap", Place(t, c),
           UNCHANGED AllocMutex
    PROVE  ControlInv'
  BY ControlKept DEF Inv, Place, Call

LEMMA HostMoveType ==
    ASSUME MemInv, NEW old \in Pages, NEW oldn, NEW new \in Int, NEW n \in Int, NEW keep,
           HostMove(old, oldn, new, n, keep)
    PROVE  HostOK'
<1> DEFINE x == Host[old]
           y == Shifted(x, new - old)
<1>1. x \in PageType /\ Below(old, x) /\ old \in Int /\ x.at \in Int
  BY PagesAreInts DEF MemInv, HostOK, PageType
<1>2. ASSUME NEW p \in From(new, n) PROVE PageOK(p, y)
  <2>1. p \in Int /\ p >= new
    BY <1>2 DEF From
  <2>2. CASE OfSegment(x)
    <3>1. y = Moved(x.seg, x.at + (new - old)) /\ x.at + (new - old) \in Int
      BY <1>1, <2>2 DEF Shifted
    <3>2. y \in PageType
      <4>1. \A z \in PageType, a \in Int : Moved(z.seg, a) \in PageType
        BY PageTypes
      <4> HIDE DEF x, y
      <4> QED BY <1>1, <3>1, <4>1
    <3>5. y.at = x.at + (new - old)
      BY <3>1, Kinds
    <3>3. x.at =< old
      BY <1>1, <2>2 DEF Below
    <3>4. y.at =< p
      BY <1>1, <2>1, <3>3, <3>5
    <3> QED BY <3>2, <3>4 DEF PageOK, Below
  <2>3. CASE ~OfSegment(x)
    BY <2>3, PlainPages DEF Shifted
  <2> QED BY <2>2, <2>3
<1> HIDE DEF y
<1>3. Host' = [p \in Pages |-> IF p \in From(new, n) THEN y
                              ELSE IF p \in From(old, oldn) /\ ~keep THEN Free ELSE Host[p]]
  BY DEF HostMove, y
<1>4. \A p \in Pages : PageOK(p, Host[p]) /\ PageOK(p, Free)
  BY PlainPages DEF MemInv, HostOK, PageOK
<1>5. \A p \in Pages : PageOK(p, Host'[p])
  BY <1>2, <1>3, <1>4
<1> QED BY <1>3, <1>5 DEF HostOK, PageOK

\* What mremap adds to a mapping.
LEMMA GrownType ==
    ASSUME MemInv, NEW old \in Pages, NEW p \in Int, p >= old
    PROVE  PageOK(p, Grown(Host[old]))
<1>1. Host[old] \in PageType /\ Below(old, Host[old]) /\ old \in Int /\ Host[old].at \in Int
  BY PagesAreInts DEF MemInv, HostOK, PageType
<1> QED BY <1>1, PlainPages DEF Grown, PageOK, Below

\* mremapExtend, with its arguments.
Extends(old, oldn, n) ==
    /\ n >= oldn /\ From(old, n) \subseteq Pages
    /\ AllFree(From(old + oldn, n - oldn))
    /\ SetHost(From(old + oldn, n - oldn), Grown(Host[old]))
    /\ MappedPages' = MappedPages \cup From(old, n)

LEMMA ExtendArguments ==
    ASSUME NEW t, mremapExtend(t)
    PROVE  \E old \in Pages : \E oldn, n \in Lengths : Extends(old, oldn, n)
  BY DEF mremapExtend, Extends

\* mremapShrink, with its arguments.
Shrinks(t, old, oldn, n) ==
    /\ n < oldn /\ From(old, oldn) \subseteq Pages
    /\ SetHost(From(old + n, oldn - n), Free) /\ Rob(t, From(old + n, oldn - n))
    /\ MappedPages' = MappedPages \ From(old + n, oldn - n)

LEMMA ShrinkArguments ==
    ASSUME NEW t, mremapShrink(t)
    PROVE  \E old \in Pages : \E oldn, n \in Lengths : Shrinks(t, old, oldn, n)
  BY DEF mremapShrink, Shrinks

\* MREMAP_FIXED, with its arguments.
Fixes(t, old, new, oldn, n, keep) ==
    /\ From(old, oldn) \cup From(new, n) \subseteq Pages
    /\ HostMove(old, oldn, new, n, keep)
    /\ Rob(t, From(old, oldn) \cup From(new, n))
    /\ MappedPages' = (IF keep THEN MappedPages ELSE MappedPages \ From(old, oldn)) \cup From(new, n)
    /\ Place(t, Remap(old, oldn, n, keep))

LEMMA FixedArguments ==
    ASSUME NEW t, mremapFixed(t)
    PROVE  \E old, new \in Pages : \E oldn, n \in Lengths : \E keep \in BOOLEAN :
              Fixes(t, old, new, oldn, n, keep)
  BY DEF mremapFixed, Fixes

LEMMA RemapCallSafe ==
    ASSUME Inv, NEW t \in Threads, RemapCall(t)
    PROVE  Inv'
<1>1. CASE mremapShrink(t)
  <2>1. PICK S : SetHost(S, Free) /\ MappedPages' = MappedPages \ S
    BY <1>1 DEF mremapShrink
  <2>2. HostOK'
    BY <2>1, SetHostType, PlainPages DEF Inv
  <2>3. MappedPages \ S \subseteq 0 .. TOP_KEY
    BY DEF Inv, MemInv
  <2> QED BY <1>1, <2>1, <2>2, <2>3, MemoryCall DEF mremapShrink, Inv, MemInv
<1>2. CASE mremapExtend(t)
  <2>1. PICK old \in Pages : \E oldn, n \in Lengths : Extends(old, oldn, n)
    BY <1>2, ExtendArguments
  <2>2. PICK oldn, n \in Lengths : Extends(old, oldn, n)
    BY <2>1
  <2>3. old \in Int /\ oldn \in Nat /\ n \in Nat
    BY PagesAreInts, LengthsPositive
  <2>4. \A p \in From(old + oldn, n - oldn) : p \in Int /\ p >= old
    BY <2>3 DEF From
  <2>5. \A p \in From(old + oldn, n - oldn) : PageOK(p, Grown(Host[old]))
    BY <2>4, GrownType DEF Inv
  <2>6. HostOK'
    BY <2>2, <2>5, SetHostType DEF Extends, Inv
  <2>7. MappedPages \cup From(old, n) \subseteq 0 .. TOP_KEY
    BY <2>2, RangeType DEF Extends, Inv, MemInv
  <2> QED BY <1>2, <2>2, <2>6, <2>7, MemoryCall DEF mremapExtend, Extends, Inv, MemInv
<1>3. CASE mremapAway(t)
  <2>1. PICK old \in Pages : \E oldn, n \in Lengths, keep \in BOOLEAN :
          From(old, oldn) \subseteq Pages /\ Place(t, Remap(old, oldn, n, keep))
    BY <1>3 DEF mremapAway
  <2>2. PICK oldn \in Lengths : \E n \in Lengths, keep \in BOOLEAN :
          From(old, oldn) \subseteq Pages /\ Place(t, Remap(old, oldn, n, keep))
    BY <2>1
  <2>3. PICK n \in Lengths : \E keep \in BOOLEAN :
          From(old, oldn) \subseteq Pages /\ Place(t, Remap(old, oldn, n, keep))
    BY <2>2
  <2>4. PICK keep \in BOOLEAN : From(old, oldn) \subseteq Pages /\ Place(t, Remap(old, oldn, n, keep))
    BY <2>3
  <2>5. ControlInv'
    BY <1>3, <2>4, RemapType, PlaceKept DEF mremapAway
  <2> QED BY <1>3, <2>5 DEF mremapAway, Inv, MemInv, HostOK
<1>4. CASE mremapFixed(t)
  <2>1. PICK old, new \in Pages : \E oldn, n \in Lengths : \E keep \in BOOLEAN :
              Fixes(t, old, new, oldn, n, keep)
    BY <1>4, FixedArguments
  <2>2. PICK oldn, n \in Lengths : \E keep \in BOOLEAN : Fixes(t, old, new, oldn, n, keep)
    BY <2>1
  <2>3. PICK keep \in BOOLEAN : Fixes(t, old, new, oldn, n, keep)
    BY <2>2
  <2>4. new \in Int /\ n \in Int
    BY PagesAreInts, LengthsPositive
  <2>5. ControlInv'
    BY <1>4, <2>3, RemapType, PlaceKept DEF mremapFixed, Fixes
  <2>6. HostOK'
    BY <2>3, <2>4, HostMoveType DEF Fixes, Inv
  <2>7. MappedPages' \subseteq 0 .. TOP_KEY
    BY <2>3, RangeType DEF Fixes, Inv, MemInv
  <2> QED BY <1>4, <2>5, <2>6, <2>7 DEF mremapFixed, Inv, MemInv
<1> QED BY <1>1, <1>2, <1>3, <1>4 DEF RemapCall

LEMMA RemapStepSafe ==
    ASSUME Inv, NEW t \in Threads, RemapStep(t)
    PROVE  Inv'
<1>1. CASE mremapPlace(t)
  <2> DEFINE c == [call[t] EXCEPT !.top = TOP_KEY, !.bottom = LastScanLocation]
  <2>1. call[t] \in CallType /\ Request(call[t]) /\ TOP_KEY \in Int /\ LastScanLocation \in Int
    BY <1>1, PagesAreInts DEF mremapPlace, Inv, ControlInv, MemInv
  <2>2. c \in CallType /\ Request(c)
    BY <2>1 DEF CallType, Request
  <2> QED BY <1>1, <2>2, SearchStarts DEF mremapPlace
<1>2. CASE mremapMove(t) \/ mremapFail(t)
  <2>1. pc[t] = "move" /\ AllocMutex = NoThread /\ From(call[t].bottom, call[t].n) \subseteq Pages
    BY <1>2 DEF mremapMove, mremapFail, Inv, ControlInv
  <2>2. ControlInv'
    BY <1>2, <2>1, NoCallType, ControlKept DEF mremapMove, mremapFail, Inv
  <2>3. HostOK'
    <3>1. /\ call[t].old \in Pages /\ call[t].bottom \in Int /\ call[t].n \in Int /\ MemInv
      BY <1>2, <2>1 DEF Inv, ControlInv, Request, CallType
    <3>2. CASE mremapMove(t)
      BY <3>1, <3>2, HostMoveType DEF mremapMove
    <3>3. CASE mremapFail(t) /\ UNCHANGED Host
      BY <3>3 DEF Inv, MemInv, HostOK
    <3>4. CASE mremapFail(t) /\ ~UNCHANGED Host
      BY <3>1, <3>4, SetHostType, PlainPages DEF mremapFail
    <3> QED BY <1>2, <3>2, <3>3, <3>4
  <2>4. MappedPages' \subseteq 0 .. TOP_KEY
    BY <1>2, <2>1, RangeType DEF mremapMove, mremapFail, Inv, MemInv
  <2> QED BY <1>2, <2>2, <2>3, <2>4 DEF mremapMove, mremapFail, Inv, MemInv
<1> QED BY <1>1, <1>2 DEF RemapStep

LEMMA ShmCallSafe ==
    ASSUME Inv, NEW t \in Threads, ShmCall(t)
    PROVE  Inv'
<1>1. CASE shmat(t)
  <2>0. PICK s \in Segments : \E remap \in BOOLEAN :
          Search(t, [NoCall EXCEPT !.op = "shmat", !.seg = s, !.n = SegPages[s], !.REMAP = remap,
                                   !.top = TOP_KEY, !.bottom = LastScanLocation])
    BY <1>1 DEF shmat
  <2>2. SegPages[s] \in Nat \ {0} /\ TOP_KEY \in Int /\ LastScanLocation \in Int
    <3>1. SegPages[s] \in Nat \ {0}
      BY SegmentAssumption
    <3>2. TOP_KEY \in Int /\ LastScanLocation \in Int
      BY PagesAreInts DEF Inv, MemInv
    <3> QED BY <3>1, <3>2
  <2>1. PICK remap \in BOOLEAN :
          Search(t, [NoCall EXCEPT !.op = "shmat", !.seg = s, !.n = SegPages[s], !.REMAP = remap,
                                   !.top = TOP_KEY, !.bottom = LastScanLocation])
    BY <2>0
  <2> DEFINE c == [NoCall EXCEPT !.op = "shmat", !.seg = s, !.n = SegPages[s], !.REMAP = remap,
                                 !.top = TOP_KEY, !.bottom = LastScanLocation]
  <2>3. c.op = "shmat" /\ c.n = SegPages[s] /\ c.seg = s
    BY NoCallType DEF CallType
  <2>4. c \in CallType
    BY <2>2, NoCallType DEF CallType
  <2> HIDE DEF c
  <2>5. Request(c)
    BY <2>2, <2>3 DEF Request
  <2> QED BY <1>1, <2>1, <2>4, <2>5, SearchStarts DEF shmat, Call, c
<1>2. CASE shmatAddr(t)
  <2>1. PICK s \in Segments : \E p \in Pages :
          /\ From(p, SegPages[s]) \subseteq Pages /\ SetHost(From(p, SegPages[s]), Shm(s, p))
          /\ MappedPages' = MappedPages \cup From(p, SegFloor[s]) /\ PageToShm' = [PageToShm EXCEPT ![p] = s]
    BY <1>2 DEF shmatAddr
  <2>2. PICK p \in Pages :
          /\ From(p, SegPages[s]) \subseteq Pages /\ SetHost(From(p, SegPages[s]), Shm(s, p))
          /\ MappedPages' = MappedPages \cup From(p, SegFloor[s]) /\ PageToShm' = [PageToShm EXCEPT ![p] = s]
    BY <2>1
  <2>3. HostOK'
    <3>1. \A q \in From(p, SegPages[s]) : q \in Int /\ q >= p
      BY PagesAreInts, SegmentAssumption DEF From
    <3>2. \A q \in From(p, SegPages[s]) : PageOK(q, Shm(s, p))
      BY <3>1, PlainPages
    <3> QED BY <2>2, <3>2, SetHostType DEF Inv
  <2>4. p \in Int /\ SegPages[s] \in Nat /\ SegFloor[s] \in {SegPages[s] - 1, SegPages[s]}
    BY SegmentAssumption, PagesAreInts
  <2>5. From(p, SegFloor[s]) \subseteq From(p, SegPages[s])
    BY <2>4 DEF From
  <2>6. MappedPages \cup From(p, SegFloor[s]) \subseteq 0 .. TOP_KEY
    BY <2>2, <2>5, RangeType DEF Inv, MemInv
  <2>7. PageToShm' \in [Pages -> Segments \cup {NoSegment}]
    BY <2>2 DEF Inv, MemInv
  <2> QED BY <1>2, <2>2, <2>3, <2>6, <2>7, MemoryCall DEF shmatAddr
<1>3. CASE shmdt(t)
  <2>1. PICK p \in Pages :
          /\ \E S : SetHost(S, Free)
          /\ PageToShm' = [PageToShm EXCEPT ![p] = NoSegment]
    BY <1>3 DEF shmdt
  <2>2. HostOK'
    BY <2>1, SetHostType, PlainPages DEF Inv
  <2>3. PageToShm' \in [Pages -> Segments \cup {NoSegment}]
    BY <2>1 DEF Inv, MemInv
  <2> QED BY <1>3, <2>2, <2>3, MemoryCall DEF shmdt, Inv, MemInv
<1> QED BY <1>1, <1>2, <1>3 DEF ShmCall

LEMMA InvNext == Inv /\ [Next]_vars => Inv'
<1> SUFFICES ASSUME Inv, [Next]_vars PROVE Inv'
  OBVIOUS
<1>1. CASE Next
  BY <1>1, SearchSafe, MapCallSafe, RemapCallSafe, RemapStepSafe, ShmCallSafe DEF Next
<1>2. CASE UNCHANGED vars
  BY <1>2 DEF vars, Inv, ControlInv, MemInv, HostOK
<1> QED BY <1>1, <1>2

LEMMA InvAlways == Spec => []Inv
  BY InvInit, InvNext, PTL DEF Spec

\* Type correctness: the bitmap stays within the 32-bit space, the next
\* search starts on a page that it may use, and the mutex is held by exactly
\* the thread that searches, through all the errors and retries.
THEOREM TypeOKAlways == Spec => []TypeOK
<1> DEFINE Flag == robbed \in BOOLEAN
<1>1. Inv /\ Flag => TypeOK
  BY DEF Inv, ControlInv, MemInv, HostOK, TypeOK, PageType
<1>2. Init => Flag
  BY DEF Init
<1>3. Flag /\ [Next]_vars => Flag'
  <2> SUFFICES ASSUME Flag, [Next]_vars PROVE Flag'
    OBVIOUS
  <2>1. CASE UNCHANGED vars
    BY <2>1 DEF vars
  <2>2. ASSUME NEW t \in Threads, NEW S, Rob(t, S) PROVE Flag'
    BY <2>2, Zenon DEF Rob
  <2>3. ASSUME NEW t \in Threads,
               SearchStep(t) \/ MapCall(t) \/ RemapCall(t) \/ RemapStep(t) \/ ShmCall(t)
        PROVE  UNCHANGED robbed \/ \E S : Rob(t, S)
    <3>1. CASE SearchStep(t)
      BY <3>1 DEF SearchStep, MapFound, RefuseFound, NothingFound
    <3>2. CASE MapCall(t)
      BY <3>2 DEF MapCall, mmap, mmapFixed, munmap
    <3>3. CASE RemapCall(t)
      BY <3>3 DEF RemapCall, mremapShrink, mremapExtend, mremapAway, mremapFixed
    <3>4. CASE RemapStep(t)
      BY <3>4 DEF RemapStep, mremapPlace, mremapMove, mremapFail
    <3>5. CASE ShmCall(t)
      BY <3>5 DEF ShmCall, shmat, shmatAddr, shmdt
    <3> QED BY <2>3, <3>1, <3>2, <3>3, <3>4, <3>5
  <2> QED BY <2>1, <2>2, <2>3 DEF Next
<1> QED BY <1>1, <1>2, <1>3, InvAlways, PTL DEF Spec

-----------------------------------------------------------------------------
(* Every page the guest was given is marked *)

\* A segment is found by the address it is attached at.
Attached == \A p \in Pages : Kind(p) = "shm" /\ Host[p].at = p => PageToShm[p] = Host[p].seg

\* The guest has it.
Given(p) == Kind(p) \in {"guest", "shm", "moved"}

\* A step that gives the pages S to the guest and takes back the pages R.
LEMMA TrackedBy ==
    ASSUME Tracked, NEW R, R \subseteq Pages, NEW S, MappedPages' = (MappedPages \ R) \cup S,
           \A p \in Pages : Given(p)' => p \in S \/ (Host'[p] = Host[p] /\ p \notin R),
           Attached'
    PROVE  Tracked'
<1>1. \A p \in Reserved : p \notin R
  BY Keys DEF Reserved, Pages
<1>2. ASSUME NEW p \in Pages, Given(p)' PROVE p \in MappedPages' \/ Ragged(p)'
  <2>1. CASE p \in S
    BY <2>1
  <2>2. CASE Host'[p] = Host[p] /\ p \notin R
    BY <1>2, <2>2 DEF Tracked, Given, Kind, Ragged
  <2> QED BY <1>2, <2>1, <2>2
<1> QED BY <1>1, <1>2 DEF Tracked, Attached, Given

\* A step that unmarks no page.
LEMMA TrackedMore ==
    ASSUME Tracked, MappedPages \subseteq MappedPages', Attached',
           \A p \in Pages : Given(p)' => p \in MappedPages' \/ Ragged(p)' \/ Host'[p] = Host[p]
    PROVE  Tracked'
<1>1. ASSUME NEW p \in Pages, Given(p)' PROVE p \in MappedPages' \/ Ragged(p)'
  <2>1. CASE Host'[p] = Host[p]
    BY <1>1, <2>1 DEF Tracked, Given, Kind, Ragged
  <2> QED BY <1>1, <2>1
<1> QED BY <1>1 DEF Tracked, Attached, Given

\* It attaches no segment and detaches none.
LEMMA AttachedKept ==
    ASSUME Tracked, UNCHANGED PageToShm, \A p \in Pages : Host'[p] = Host[p] \/ Kind(p)' # "shm"
    PROVE  Attached'
  BY DEF Tracked, Attached, Kind

\* A segment is attached at p.
LEMMA AttachedNow ==
    ASSUME Tracked, MemInv, NEW p \in Pages, NEW s, NEW S, p \in S, SetHost(S, Shm(s, p)),
           PageToShm' = [PageToShm EXCEPT ![p] = s]
    PROVE  Attached'
<1> SUFFICES ASSUME NEW q \in Pages, Host'[q].kind = "shm", Host'[q].at = q PROVE PageToShm'[q] = Host'[q].seg
  BY DEF Attached, Kind
<1>1. CASE q \in S
  <2>1. Host'[q] = Shm(s, p)
    BY <1>1 DEF SetHost
  <2> QED BY <2>1, Kinds DEF MemInv
<1>2. CASE q \notin S
  <2>1. Host'[q] = Host[q] /\ PageToShm'[q] = PageToShm[q]
    BY <1>2 DEF SetHost, MemInv
  <2> QED BY <2>1 DEF Tracked, Kind
<1> QED BY <1>1, <1>2

LEMMA TrackedUnchanged ==
    ASSUME Tracked, UNCHANGED <<Host, MappedPages, PageToShm>>
    PROVE  Tracked'
  BY DEF Tracked, Kind, Ragged

LEMMA TrackedSearch ==
    ASSUME Inv, Tracked, NEW t \in Threads, SearchStep(t)
    PROVE  Tracked'
<1>1. CASE RefuseFound(t) \/ NothingFound(t)
  BY <1>1, TrackedUnchanged DEF RefuseFound, NothingFound
<1>2. CASE MapFound(t)
  <2> DEFINE c == call[t]
             try == Candidate(c)
             range == From(try.low, c.n)
  <2>0. c \in CallType /\ Request(c)
    BY <1>2 DEF MapFound, Inv, ControlInv
  <2>1. /\ try.low >= BASE_KEY /\ SetHost(range, NewPage(t, try.low)) /\ MappedPages' = MappedPages \cup range
        /\ PageToShm' = IF c.op = "shmat" THEN [PageToShm EXCEPT ![try.low] = c.seg] ELSE PageToShm
    BY <1>2 DEF MapFound
  <2>2. try.low \in Pages /\ try.low \in Int /\ c.n \in Nat \ {0} /\ c.op \in {"mmap", "mremap", "shmat"}
    BY <2>0, <2>1, CandidateRange DEF CallType, Request
  <2>3. try.low \in range
    BY <2>2 DEF From
  <2> HIDE DEF try, range
  <2>4. Attached'
    <3>1. CASE c.op = "shmat"
      <4>1. NewPage(t, try.low) = Shm(c.seg, try.low)
        BY <3>1 DEF NewPage
      <4>2. SetHost(range, Shm(c.seg, try.low)) /\ PageToShm' = [PageToShm EXCEPT ![try.low] = c.seg]
        BY <2>1, <3>1, <4>1
      <4>3. MemInv
        BY DEF Inv
      <4> HIDE DEF c
      <4> QED BY <2>2, <2>3, <4>2, <4>3, AttachedNow
    <3>2. CASE c.op # "shmat"
      <4>1. NewPage(t, try.low).kind # "shm"
        BY <2>2, <3>2, Kinds DEF NewPage
      <4> QED BY <2>1, <3>2, <4>1, AttachedKept DEF SetHost, Kind
    <3> QED BY <3>1, <3>2
  <2>5. \A p \in Pages : p \notin range => Host'[p] = Host[p]
    BY <2>1 DEF SetHost
  <2> QED BY <2>1, <2>4, <2>5, TrackedMore
<1> QED BY <1>1, <1>2 DEF SearchStep

\* Pages become guest pages and are marked, or become free and are unmarked.
LEMMA TrackedRange ==
    ASSUME Tracked, NEW S, S \subseteq Pages, UNCHANGED PageToShm,
           \/ SetHost(S, Guest) /\ MappedPages' = MappedPages \cup S
           \/ SetHost(S, Free) /\ MappedPages' = MappedPages \ S
    PROVE  Tracked'
<1>1. Attached'
  BY AttachedKept, Kinds DEF SetHost, Kind
<1>2. CASE SetHost(S, Guest) /\ MappedPages' = MappedPages \cup S
  <2>1. MappedPages' = (MappedPages \ {}) \cup S
    BY <1>2
  <2> QED BY <1>1, <1>2, <2>1, TrackedBy DEF SetHost
<1>3. CASE SetHost(S, Free) /\ MappedPages' = MappedPages \ S
  <2>1. MappedPages' = (MappedPages \ S) \cup {}
    BY <1>3
  <2>2. \A p \in Pages : IF p \in S THEN ~Given(p)' ELSE Host'[p] = Host[p]
    BY <1>3, Kinds DEF SetHost, Kind, Given
  <2> QED BY <1>1, <2>1, <2>2, TrackedBy
<1> QED BY <1>2, <1>3

\* The host has moved a mapping.
LEMMA TrackedMove ==
    ASSUME Tracked, NEW old, NEW oldn, NEW new, NEW n, NEW keep \in BOOLEAN,
           From(old, oldn) \subseteq Pages, HostMove(old, oldn, new, n, keep), UNCHANGED PageToShm,
           MappedPages' = (IF keep THEN MappedPages ELSE MappedPages \ From(old, oldn)) \cup From(new, n)
    PROVE  Tracked'
<1> DEFINE R == IF keep THEN {} ELSE From(old, oldn)
<1>1. \A p \in Pages : Host'[p] = IF p \in From(new, n) THEN Shifted(Host[old], new - old)
                                  ELSE IF p \in From(old, oldn) /\ ~keep THEN Free ELSE Host[p]
  BY DEF HostMove
<1>2. Attached'
  <2>1. Shifted(Host[old], new - old).kind # "shm" /\ Free.kind # "shm"
    BY Kinds DEF Shifted
  <2> QED BY <1>1, <2>1, AttachedKept DEF Kind
<1>3. \A p \in Pages : Given(p)' => p \in From(new, n) \/ (Host'[p] = Host[p] /\ p \notin R)
  BY <1>1, Kinds DEF Kind, Given
<1>4. R \subseteq Pages /\ MappedPages' = (MappedPages \ R) \cup From(new, n)
  OBVIOUS
<1> HIDE DEF R
<1> QED BY <1>2, <1>3, <1>4, TrackedBy

LEMMA TrackedCall ==
    ASSUME Inv, Tracked, NEW t \in Threads, MapCall(t) \/ RemapCall(t)
    PROVE  Tracked'
<1>1. CASE mmap(t) \/ mremapAway(t)
  BY <1>1, TrackedUnchanged DEF mmap, mremapAway
<1>2. CASE mmapFixed(t)
  <2>1. PICK S : S \subseteq Pages /\ SetHost(S, Guest) /\ MappedPages' = MappedPages \cup S
    BY <1>2 DEF mmapFixed
  <2> QED BY <1>2, <2>1, TrackedRange DEF mmapFixed
<1>3. CASE munmap(t)
  <2>1. PICK S : S \subseteq Pages /\ SetHost(S, Free) /\ MappedPages' = MappedPages \ S
    BY <1>3 DEF munmap
  <2> QED BY <1>3, <2>1, TrackedRange DEF munmap
<1>4. CASE mremapShrink(t)
  <2>1. PICK old \in Pages : \E oldn, n \in Lengths : Shrinks(t, old, oldn, n)
    BY <1>4, ShrinkArguments
  <2>2. PICK oldn, n \in Lengths : Shrinks(t, old, oldn, n)
    BY <2>1
  <2>3. old \in Int /\ oldn \in Nat /\ n \in Nat
    BY PagesAreInts, LengthsPositive
  <2>4. From(old + n, oldn - n) \subseteq From(old, oldn)
    BY <2>3 DEF From
  <2> QED BY <1>4, <2>2, <2>4, TrackedRange DEF mremapShrink, Shrinks
<1>5. CASE mremapExtend(t)
  <2>1. PICK old \in Pages : \E oldn, n \in Lengths : Extends(old, oldn, n)
    BY <1>5, ExtendArguments
  <2>2. PICK oldn, n \in Lengths : Extends(old, oldn, n)
    BY <2>1
  <2>3. old \in Int /\ oldn \in Nat \ {0} /\ n \in Nat
    BY PagesAreInts, LengthsPositive
  <2> DEFINE S == From(old + oldn, n - oldn)
             x == Grown(Host[old])
  <2>4. S \subseteq From(old, n) /\ \A p \in S : p \in Int /\ p > old
    BY <2>3 DEF From
  <2>5. \A p \in Pages : Host'[p] = IF p \in S THEN x ELSE Host[p]
    BY <2>2 DEF Extends, SetHost
  <2>6. \A p \in S : ~(x.kind = "shm" /\ x.at = p)
    <3>1. Below(old, Host[old]) /\ Host[old].at \in Int
      BY DEF Inv, MemInv, HostOK, PageType
    <3>2. x.kind = "shm" => x = Host[old] /\ OfSegment(Host[old])
      BY Kinds DEF Grown, OfSegment
    <3> HIDE DEF S, x
    <3> QED BY <2>3, <2>4, <3>1, <3>2 DEF Below
  <2> HIDE DEF S, x
  <2>7. Attached'
    <3> SUFFICES ASSUME NEW p \in Pages, Host'[p].kind = "shm", Host'[p].at = p
                 PROVE  PageToShm'[p] = Host'[p].seg
      BY DEF Attached, Kind
    <3>1. p \notin S /\ Host'[p] = Host[p]
      BY <2>5, <2>6
    <3> QED BY <1>5, <3>1 DEF Tracked, Kind, mremapExtend
  <2>8. MappedPages' = MappedPages \cup From(old, n)
    BY <2>2 DEF Extends
  <2> QED BY <2>4, <2>5, <2>7, <2>8, TrackedMore
<1>6. CASE mremapFixed(t)
  <2>1. PICK old, new \in Pages : \E oldn, n \in Lengths : \E keep \in BOOLEAN :
              Fixes(t, old, new, oldn, n, keep)
    BY <1>6, FixedArguments
  <2>2. PICK oldn, n \in Lengths : \E keep \in BOOLEAN : Fixes(t, old, new, oldn, n, keep)
    BY <2>1
  <2>3. PICK keep \in BOOLEAN : Fixes(t, old, new, oldn, n, keep)
    BY <2>2
  <2> QED BY <1>6, <2>3, TrackedMove DEF Fixes, mremapFixed
<1> QED BY <1>1, <1>2, <1>3, <1>4, <1>5, <1>6 DEF MapCall, RemapCall

LEMMA TrackedRemap ==
    ASSUME Inv, Tracked, NEW t \in Threads, RemapStep(t)
    PROVE  Tracked'
<1>1. CASE mremapPlace(t)
  BY <1>1, TrackedUnchanged DEF mremapPlace
<1>2. CASE mremapMove(t)
  <2>1. From(call[t].old, call[t].oldn) \subseteq Pages /\ call[t].DONTUNMAP \in BOOLEAN
    BY <1>2 DEF mremapMove, Inv, ControlInv, Request, CallType
  <2> QED BY <1>2, <2>1, TrackedMove DEF mremapMove
<1>3. CASE mremapFail(t)
  <2>1. \A p \in Pages : Host'[p] = Host[p] \/ Host'[p] = Free
    BY <1>3 DEF mremapFail, SetHost
  <2>2. UNCHANGED <<MappedPages, PageToShm>>
    BY <1>3 DEF mremapFail
  <2>3. \A p \in Pages : Host'[p] = Host[p] \/ (Kind(p)' # "shm" /\ ~Given(p)')
    BY <2>1, Kinds DEF Kind, Given
  <2>4. Attached'
    BY <2>2, <2>3, AttachedKept
  <2> QED BY <2>2, <2>3, <2>4, TrackedMore
<1> QED BY <1>1, <1>2, <1>3 DEF RemapStep

LEMMA TrackedShm ==
    ASSUME Inv, Tracked, NEW t \in Threads, ShmCall(t)
    PROVE  Tracked'
<1>1. CASE shmat(t)
  BY <1>1, TrackedUnchanged DEF shmat
<1>2. CASE shmatAddr(t)
  <2>1. PICK s \in Segments : \E p \in Pages :
          /\ SetHost(From(p, SegPages[s]), Shm(s, p))
          /\ MappedPages' = MappedPages \cup From(p, SegFloor[s]) /\ PageToShm' = [PageToShm EXCEPT ![p] = s]
    BY <1>2 DEF shmatAddr
  <2>2. PICK p \in Pages :
          /\ SetHost(From(p, SegPages[s]), Shm(s, p))
          /\ MappedPages' = MappedPages \cup From(p, SegFloor[s]) /\ PageToShm' = [PageToShm EXCEPT ![p] = s]
    BY <2>1
  <2>3. p \in From(p, SegPages[s])
    BY SegmentAssumption, PagesAreInts DEF From
  <2>4. Attached'
    BY <2>2, <2>3, AttachedNow DEF Inv
  <2>5. p \in Int /\ SegPages[s] \in Nat /\ SegFloor[s] \in {SegPages[s] - 1, SegPages[s]}
    BY SegmentAssumption, PagesAreInts
  <2>6. ASSUME NEW q \in Pages, q \in From(p, SegPages[s]) PROVE q \in MappedPages' \/ Ragged(q)'
    <3>1. Host'[q] = Shm(s, p)
      BY <2>2, <2>6 DEF SetHost
    <3>2. Host'[q].kind = "shm" /\ Host'[q].at = p /\ Host'[q].seg = s
      BY <3>1, Kinds
    <3>3. q \in Int /\ q >= p /\ q =< p + SegPages[s] - 1
      BY <2>5, <2>6, PagesAreInts DEF From
    <3>4. q \in From(p, SegFloor[s]) \/ q - p \in SegFloor[s] .. SegPages[s] - 1
      BY <2>5, <3>3 DEF From
    <3> QED BY <2>2, <3>2, <3>4 DEF Ragged, Kind
  <2>7. \A q \in Pages : q \in From(p, SegPages[s]) \/ Host'[q] = Host[q]
    BY <2>2 DEF SetHost
  <2> QED BY <2>2, <2>4, <2>6, <2>7, TrackedMore
<1>3. CASE shmdt(t)
  <2>1. PICK p \in Pages :
          /\ SetHost({q \in InPlace(p) : Host[q].seg = Host[Min(InPlace(p))].seg}, Free)
          /\ PageToShm' = [PageToShm EXCEPT ![p] = NoSegment]
    BY <1>3 DEF shmdt
  <2>2. \A q \in Pages : Host'[q] = IF q \in InPlace(p) /\ Host[q].seg = Host[Min(InPlace(p))].seg
                                    THEN Free ELSE Host[q]
    BY <2>1 DEF SetHost
  <2>3. ASSUME NEW q \in Pages, Host'[q].kind = "shm", Host'[q].at = q PROVE PageToShm'[q] = Host'[q].seg
    <3>1. Host'[q] = Host[q] /\ ~(q \in InPlace(p) /\ Host[q].seg = Host[Min(InPlace(p))].seg)
      BY <2>2, <2>3, Kinds
    <3>2. PageToShm[q] = Host[q].seg
      BY <2>3, <3>1 DEF Tracked, Kind
    <3>3. q # p
      <4> SUFFICES ASSUME q = p PROVE FALSE
        OBVIOUS
      <4>1. p \in InPlace(p)
        BY <2>3, <3>1 DEF InPlace, OfSegment
      <4>2. InPlace(p) \subseteq Nat /\ \A r \in InPlace(p) : p =< r
        BY PagesAreInts DEF InPlace, Inv, MemInv, HostOK, Below
      <4>3. Min(InPlace(p)) \in InPlace(p) /\ Min(InPlace(p)) =< p
        BY <4>1, <4>2, MinIn
      <4>4. Min(InPlace(p)) = p
        BY <4>1, <4>2, <4>3
      <4> QED BY <3>1, <4>1, <4>4
    <3> QED BY <2>1, <3>1, <3>2, <3>3 DEF Inv, MemInv
  <2>4. Attached'
    BY <2>3 DEF Attached, Kind
  <2>5. UNCHANGED MappedPages
    BY <1>3 DEF shmdt
  <2>6. \A q \in Pages : Given(q)' => Host'[q] = Host[q]
    BY <2>2, Kinds DEF Kind, Given
  <2> QED BY <2>4, <2>5, <2>6, TrackedMore
<1> QED BY <1>1, <1>2, <1>3 DEF ShmCall

\* Whatever the guest maps, unmaps, moves and attaches, and whichever of the
\* host's calls fail: each page the guest has is marked in MappedPages and so
\* is what is reserved, so that no search starts on one, but for the last page
\* of a segment that shmat was told where to attach and whose size it rounds
\* down; and a segment whose first page was neither moved nor replaced is
\* known to shmdt.
THEOREM TrackedAlways == Spec => []Tracked
<1>1. Init => Tracked
  <2> SUFFICES ASSUME Init PROVE Tracked
    OBVIOUS
  <2>1. Page("foreign", NoSegment, 0).kind = "foreign"
    BY DEF Page
  <2>2. \A p \in Pages : Kind(p) \in {"free", "foreign"}
    BY <2>1, Kinds DEF Init, Kind
  <2>3. \A p \in Pages : Kind(p) # "shm" /\ Kind(p) \notin {"guest", "shm", "moved"}
    BY <2>2
  <2> QED BY <2>3 DEF Init, Tracked
<1>2. Inv /\ Tracked /\ [Next]_vars => Tracked'
  <2> SUFFICES ASSUME Inv, Tracked, [Next]_vars PROVE Tracked'
    OBVIOUS
  <2>1. CASE Next
    BY <2>1, TrackedSearch, TrackedCall, TrackedRemap, TrackedShm DEF Next
  <2>2. CASE UNCHANGED vars
    BY <2>2, TrackedUnchanged DEF vars
  <2> QED BY <2>1, <2>2
<1> QED BY <1>1, <1>2, InvAlways, PTL DEF Spec

-----------------------------------------------------------------------------
(* The place of a mremap *)

\* A mremap that is about to move still has the place it reserved, unless a
\* call has named pages that a mremap holds.
HeldInv ==
    ~robbed => \A t \in Threads :
                  pc[t] = "move" => \A p \in From(call[t].bottom, call[t].n) : Host[p] = Held(t)

\* A step of t that changes a page that another thread holds robs it.
Spares(t) ==
    ~robbed' => /\ ~robbed
                /\ \A p \in Pages : Host'[p] = Host[p] \/ \A u \in Threads \ {t} : Host[p] # Held(u)

LEMMA HeldKept ==
    ASSUME Inv, HeldInv, NEW t \in Threads, \A u \in Threads \ {t} : pc'[u] = pc[u] /\ call'[u] = call[u],
           Spares(t),
           pc'[t] = "move" => \A p \in From(call'[t].bottom, call'[t].n) : Host'[p] = Held(t)
    PROVE  HeldInv'
<1> SUFFICES ASSUME ~robbed', NEW u \in Threads, pc'[u] = "move",
                    NEW p \in From(call'[u].bottom, call'[u].n)
             PROVE  Host'[p] = Held(u)
  BY DEF HeldInv
<1>1. CASE u = t
  BY <1>1
<1>2. CASE u # t
  <2>1. pc[u] = "move" /\ p \in From(call[u].bottom, call[u].n) /\ ~robbed
    BY <1>2 DEF Spares
  <2>2. p \in Pages /\ Host[p] = Held(u)
    BY <2>1 DEF HeldInv, Inv, ControlInv
  <2> QED BY <1>2, <2>2 DEF Spares
<1> QED BY <1>1, <1>2

LEMMA HeldApart == \A t, u : /\ Held(t) # Free /\ Held(t) # Guest
                             /\ t # u => Held(t) # Held(u)
                             /\ ~OfSegment(Held(t))
  BY Kinds DEF OfSegment

LEMMA HostUnchangedSpares ==
    ASSUME NEW t, UNCHANGED <<Host, robbed>>
    PROVE  Spares(t)
  BY DEF Spares

\* The pages that a call names are recorded.
LEMMA RobSpares ==
    ASSUME NEW t, NEW S, Rob(t, S), \A p \in Pages : Host'[p] = Host[p] \/ p \in S
    PROVE  Spares(t)
<1> SUFFICES ASSUME ~robbed' PROVE /\ ~robbed
                                   /\ \A p \in S : ~(Kind(p) = "held" /\ Host[p] # Held(t))
  <2>1. ASSUME NEW p \in S, ~(Kind(p) = "held" /\ Host[p] # Held(t)), NEW u \in Threads \ {t}
        PROVE  Host[p] # Held(u)
    BY <2>1, HeldApart, Kinds DEF Kind
  <2> QED BY <2>1 DEF Spares
<1> QED BY DEF Rob

LEMMA HeldSearch ==
    ASSUME Inv, HeldInv, NEW t \in Threads, SearchStep(t)
    PROVE  HeldInv'
<1>0. pc[t] = "scan"
  BY DEF SearchStep, MapFound, RefuseFound, NothingFound
<1>1. ASSUME NEW low, Return(t, low)
      PROVE  /\ \A u \in Threads \ {t} : pc'[u] = pc[u] /\ call'[u] = call[u]
             /\ pc'[t] = "move" => call[t].op = "mremap" /\ low # 0 /\ call'[t].bottom = low /\ call'[t].n = call[t].n
  BY <1>1 DEF Return, Inv, ControlInv, CallType
<1>2. CASE MapFound(t)
  <2> DEFINE low == Candidate(call[t]).low
             range == From(low, call[t].n)
  <2>1. Rob(t, range) /\ SetHost(range, NewPage(t, low)) /\ Return(t, low) /\ low >= BASE_KEY
    BY <1>2 DEF MapFound
  <2>2. range \subseteq Pages
    BY <1>0, <2>1, CandidateRange DEF Inv, ControlInv
  <2> HIDE DEF low
  <2>3. call[t].op = "mremap" => NewPage(t, low) = Held(t)
    BY DEF NewPage
  <2>4. \A p \in Pages : Host'[p] = IF p \in range THEN NewPage(t, low) ELSE Host[p]
    BY <2>1 DEF SetHost
  <2>5. Spares(t)
    BY <2>1, <2>4, RobSpares
  <2>6. pc'[t] = "move" => \A p \in From(call'[t].bottom, call'[t].n) : Host'[p] = Held(t)
    BY <1>1, <2>1, <2>2, <2>3, <2>4
  <2> QED BY <1>1, <2>1, <2>5, <2>6, HeldKept
<1>3. CASE RefuseFound(t)
  <2>1. Spares(t)
    BY <1>3, HostUnchangedSpares DEF RefuseFound
  <2>2. CASE Return(t, 0)
    BY <1>1, <2>1, <2>2, HeldKept
  <2>3. CASE call' = [call EXCEPT ![t] = Retry(call[t], Candidate(call[t]))] /\ UNCHANGED pc
    BY <1>0, <2>1, <2>3, HeldKept DEF Inv, ControlInv
  <2> QED BY <1>3, <2>2, <2>3 DEF RefuseFound
<1>4. CASE NothingFound(t)
  <2>1. Spares(t)
    BY <1>4, HostUnchangedSpares DEF NothingFound
  <2> QED BY <1>1, <1>4, <2>1, HeldKept DEF NothingFound
<1> QED BY <1>2, <1>3, <1>4 DEF SearchStep

\* Steps that leave the memory alone.
LEMMA HeldControl ==
    ASSUME Inv, HeldInv, NEW t \in Threads,
           mmap(t) \/ mremapAway(t) \/ mremapPlace(t) \/ shmat(t)
    PROVE  HeldInv'
<1>1. Spares(t)
  BY HostUnchangedSpares DEF mmap, mremapAway, mremapPlace, shmat
<1>2. PICK l \in {"scan", "place"} : pc' = [pc EXCEPT ![t] = l]
  BY DEF mmap, mremapAway, mremapPlace, shmat, Search, Place
<1>3. \E c : call' = [call EXCEPT ![t] = c]
  BY DEF mmap, mremapAway, mremapPlace, shmat, Search, Place
<1> QED BY <1>1, <1>2, <1>3, HeldKept DEF Inv, ControlInv

\* Calls that name the pages they change, and those that change only free
\* pages or those of a segment.
LEMMA HeldMemory ==
    ASSUME Inv, HeldInv, NEW t \in Threads,
           mmapFixed(t) \/ munmap(t) \/ mremapShrink(t) \/ mremapExtend(t) \/ shmatAddr(t) \/ shmdt(t)
    PROVE  HeldInv'
<1>1. UNCHANGED <<pc, call>> /\ pc[t] = "idle"
  BY DEF mmapFixed, munmap, mremapShrink, mremapExtend, shmatAddr, shmdt, Call
<1>2. ASSUME Spares(t) PROVE HeldInv'
  BY <1>1, <1>2, HeldKept
<1>3. CASE mmapFixed(t) \/ munmap(t) \/ mremapShrink(t) \/ shmatAddr(t)
  <2>1. PICK S : Rob(t, S) /\ \E x : SetHost(S, x)
    BY <1>3 DEF mmapFixed, munmap, mremapShrink, shmatAddr
  <2>2. \A p \in Pages : Host'[p] = Host[p] \/ p \in S
    BY <2>1 DEF SetHost
  <2> QED BY <1>2, <2>1, <2>2, RobSpares
<1>4. CASE mremapExtend(t)
  <2>1. PICK S : AllFree(S) /\ \E x : SetHost(S, x)
    BY <1>4 DEF mremapExtend
  <2>2. \A p \in Pages : Host'[p] = Host[p] \/ Host[p] = Free
    BY <2>1 DEF SetHost, AllFree
  <2>3. Spares(t)
    BY <1>4, <2>2, HeldApart DEF Spares, mremapExtend
  <2> QED BY <1>2, <2>3
<1>5. CASE shmdt(t)
  <2>1. PICK p \in Pages : SetHost({q \in InPlace(p) : Host[q].seg = Host[Min(InPlace(p))].seg}, Free)
    BY <1>5 DEF shmdt
  <2>2. \A q \in Pages : Host'[q] = Host[q] \/ OfSegment(Host[q])
    BY <2>1 DEF SetHost, InPlace
  <2>3. Spares(t)
    BY <1>5, <2>2, HeldApart DEF Spares, shmdt
  <2> QED BY <1>2, <2>3
<1> QED BY <1>3, <1>4, <1>5

\* The host moves a mapping: between pages that the call names, or over the
\* thread's own place.
LEMMA MoveSpares ==
    ASSUME NEW t \in Threads, NEW old, NEW oldn, NEW new, NEW n, NEW keep, NEW S,
           HostMove(old, oldn, new, n, keep), From(old, oldn) \subseteq S, Rob(t, S),
           ~robbed => \A p \in From(new, n) : p \in S \/ Host[p] = Held(t)
    PROVE  Spares(t)
<1>1. \A p \in Pages : Host'[p] = Host[p] \/ p \in From(new, n) \/ p \in S
  BY DEF HostMove
<1> SUFFICES ASSUME ~robbed'
             PROVE  ~robbed /\ \A p \in Pages : Host'[p] = Host[p] \/ \A u \in Threads \ {t} : Host[p] # Held(u)
  BY DEF Spares
<1>2. ~robbed /\ \A p \in S : ~(Kind(p) = "held" /\ Host[p] # Held(t))
  BY DEF Rob
<1>3. \A p \in S, u \in Threads \ {t} : Host[p] # Held(u)
  BY <1>2, HeldApart, Kinds DEF Kind
<1>4. \A u \in Threads \ {t} : Held(t) # Held(u)
  BY HeldApart
<1> QED BY <1>1, <1>2, <1>3, <1>4

LEMMA HeldNext ==
    ASSUME Inv, HeldInv, [Next]_vars
    PROVE  HeldInv'
<1>1. CASE UNCHANGED vars
  BY <1>1 DEF vars, HeldInv
<1>2. ASSUME NEW t \in Threads, mremapFixed(t) PROVE HeldInv'
  <2>1. PICK old, new \in Pages : \E oldn, n \in Lengths : \E keep \in BOOLEAN :
              Fixes(t, old, new, oldn, n, keep)
    BY <1>2, FixedArguments
  <2>2. PICK oldn, n \in Lengths : \E keep \in BOOLEAN : Fixes(t, old, new, oldn, n, keep)
    BY <2>1
  <2>3. PICK keep \in BOOLEAN : Fixes(t, old, new, oldn, n, keep)
    BY <2>2
  <2>4. pc'[t] = "place" /\ \A u \in Threads \ {t} : pc'[u] = pc[u] /\ call'[u] = call[u]
    BY <2>3 DEF Fixes, Place, Inv, ControlInv
  <2>5. Spares(t)
    BY <2>3, MoveSpares DEF Fixes
  <2> QED BY <2>4, <2>5, HeldKept
<1>3. ASSUME NEW t \in Threads, mremapMove(t) \/ mremapFail(t) PROVE HeldInv'
  <2>1. pc[t] = "move" /\ pc'[t] = "idle" /\ \A u \in Threads \ {t} : pc'[u] = pc[u] /\ call'[u] = call[u]
    BY <1>3 DEF mremapMove, mremapFail, Inv, ControlInv
  <2>2. ~robbed => \A p \in From(call[t].bottom, call[t].n) : Host[p] = Held(t)
    BY <2>1 DEF HeldInv
  <2>3. CASE mremapMove(t)
    <3>1. Spares(t)
      BY <2>2, <2>3, MoveSpares DEF mremapMove
    <3> QED BY <2>1, <3>1, HeldKept
  <2>4. CASE mremapFail(t)
    <3>1. UNCHANGED robbed /\ \A p \in Pages : Host'[p] = Host[p] \/ p \in From(call[t].bottom, call[t].n)
      BY <2>4 DEF mremapFail, SetHost
    <3>2. \A u \in Threads \ {t} : Held(t) # Held(u)
      BY HeldApart
    <3>3. Spares(t)
      BY <2>2, <3>1, <3>2 DEF Spares
    <3> QED BY <2>1, <3>3, HeldKept
  <2> QED BY <1>3, <2>3, <2>4
<1> QED BY <1>1, <1>2, <1>3, HeldSearch, HeldControl, HeldMemory
        DEF Next, MapCall, RemapCall, RemapStep, ShmCall

\* A search takes only free pages, although FindPageRange_TopDown returns a
\* page other than the ones it tested; shmat with SHM_REMAP takes that page and
\* what is not marked.  A mremap moves over its own place, although it let go
\* of AllocMutex after it reserved it, as long as no call has named pages that
\* a mremap holds, of which the guest knows nothing.
THEOREM NoClobberAlways == Spec => NoClobber
<1> DEFINE Kept(t, p) ==
              pc'[t] # pc[t] /\ Host'[p] # Host[p] =>
                 /\ pc[t] = "scan" =>
                       \/ Host[p] = Free
                       \/ call[t].REMAP /\ (p = LastScanLocation' \/ p \notin MappedPages)
                 /\ pc[t] = "move" /\ ~robbed =>
                       Host[p] = Held(t) \/ p \in From(call[t].old, call[t].oldn)
<1>1. Init => HeldInv
  BY DEF Init, HeldInv
<1>2. Inv /\ HeldInv /\ [Next]_vars => HeldInv'
  BY HeldNext
<1>3. Inv /\ HeldInv /\ [Next]_vars => [\A t \in Threads, p \in Pages : Kept(t, p)]_vars
  <2> SUFFICES ASSUME Inv, HeldInv, Next, NEW t \in Threads, NEW p \in Pages,
                      pc[t] \in {"scan", "move"}, pc'[t] # pc[t], Host'[p] # Host[p]
               PROVE  Kept(t, p)
    OBVIOUS
  <2> HIDE DEF Kept
  <2>1. PICK u \in Threads : SearchStep(u) \/ MapCall(u) \/ RemapCall(u) \/ RemapStep(u) \/ ShmCall(u)
    BY DEF Next
  <2>2. \E l : pc' = [pc EXCEPT ![u] = l]
    <3>1. UNCHANGED pc => pc' = [pc EXCEPT ![u] = pc[u]]
      BY DEF Inv, ControlInv
    <3> QED BY <2>1, <3>1 DEF SearchStep, MapFound, RefuseFound, NothingFound, Return, MapCall, mmap, mmapFixed,
               munmap, RemapCall, mremapShrink, mremapExtend, mremapAway, mremapFixed, RemapStep, mremapPlace,
               mremapMove, mremapFail, ShmCall, shmat, shmatAddr, shmdt, Search, Place
  <2>3. u = t
    BY <2>2 DEF Inv, ControlInv
  <2>4. ~MapCall(t) /\ ~RemapCall(t) /\ ~ShmCall(t) /\ ~mremapPlace(t)
    BY DEF MapCall, mmap, mmapFixed, munmap, RemapCall, mremapShrink, mremapExtend, mremapAway, mremapFixed,
           mremapPlace, ShmCall, shmat, shmatAddr, shmdt, Call
  <2>5. CASE SearchStep(t)
    <3>1. MapFound(t) /\ pc[t] = "scan"
      BY <2>5 DEF SearchStep, MapFound, RefuseFound, NothingFound
    <3> DEFINE low == Candidate(call[t]).low
    <3>2. /\ low >= BASE_KEY /\ p \in From(low, call[t].n) /\ LastScanLocation' = low
          /\ Host[p] = Free \/ call[t].REMAP
      BY <3>1 DEF MapFound, SetHost, AllFree
    <3>3. call[t] \in CallType /\ Request(call[t])
      BY <3>1 DEF Inv, ControlInv
    <3>4. low \in Int /\ call[t].n \in Nat /\ (low # 0 => From(low + 1, call[t].n) \cap MappedPages = {})
      BY <3>3, CandidateRange DEF CallType
    <3> HIDE DEF low
    <3>5. p = low \/ p \in From(low + 1, call[t].n)
      BY <3>2, <3>4 DEF From
    <3>6. p = low \/ p \notin MappedPages
      BY <3>2, <3>4, <3>5, Keys
    <3> QED BY <3>1, <3>2, <3>6 DEF Kept
  <2>6. CASE mremapMove(t) \/ mremapFail(t)
    <3>1. pc[t] = "move" /\ (~robbed => \A q \in From(call[t].bottom, call[t].n) : Host[q] = Held(t))
      BY <2>6 DEF mremapMove, mremapFail, HeldInv
    <3>2. p \in From(call[t].bottom, call[t].n) \/ p \in From(call[t].old, call[t].oldn)
      BY <2>6 DEF mremapMove, mremapFail, HostMove, SetHost
    <3> QED BY <3>1, <3>2 DEF Kept
  <2> QED BY <2>1, <2>3, <2>4, <2>5, <2>6 DEF RemapStep
<1> QED BY <1>1, <1>2, <1>3, InvAlways, PTL DEF Spec, NoClobber
==============================================================================
