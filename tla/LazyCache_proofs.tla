---------------------------- MODULE LazyCache_proofs ----------------------------
(***************************************************************************)
(* Proofs about LazyCache, for any set of callers.                         *)
(***************************************************************************)
EXTENDS LazyCache, SequenceTheorems, TLAPS

\* A caller is neither the absence of one nor an outcome of get() without a value.
Apart == NoOne \notin Callers /\ Callers \cap {"nothing", "closed", "failed"} = {}

-----------------------------------------------------------------------------
\* The inductive invariant

\* Who builds and who waits are different callers, each once, and have nothing yet.
Queue ==
  /\ \A i, j \in DOMAIN waiting : waiting[i] = waiting[j] => i = j
  /\ \A i \in DOMAIN waiting : waiting[i] # holder /\ got[waiting[i]] = "nothing"
  /\ holder # NoOne => got[holder] = "nothing" /\ cached = NoOne

\* What a caller got is the cached value, or one that was dropped; its builder got it too.
Values ==
  /\ cached # NoOne => got[cached] = cached /\ cached \notin dropped
  /\ \A v \in dropped : got[v] = v
  /\ \A c \in Callers : got[c] \in Callers => got[c] = cached \/ got[c] \in dropped

\* An open engine is the cached value's, unless that value is broken or dropped.
Engines == \A v \in open : v \in broken \/ v \in dropped \/ v = cached

\* After the close, only callers that were inside go on, and get a value of theirs.
Closing ==
  closed =>
    /\ holder # NoOne => holder \in inside
    /\ \A i \in DOMAIN waiting : waiting[i] \in inside
    /\ cached \in open \ broken => cached \in inside /\ \A c \in Callers : got[c] = cached => c \in inside

IInv == TypeOK /\ Queue /\ Values /\ Engines /\ Closing

-----------------------------------------------------------------------------
\* The initial states

\* Nobody has called get() yet.
LEMMA Start == ASSUME Apart, Init PROVE IInv
<1> USE DEF Init
<1>1. DOMAIN waiting = {} /\ waiting \in Seq(Callers)
  OBVIOUS
<1>2. TypeOK
  BY <1>1 DEF TypeOK
<1>3. Queue /\ Engines /\ Closing
  BY <1>1 DEF Queue, Engines, Closing
<1>4. Values
  BY DEF Values, Apart
<1> QED
  BY <1>2, <1>3, <1>4 DEF IInv

-----------------------------------------------------------------------------
\* One step each

\* A call of get().
LEMMA GetStep == ASSUME Apart, IInv, NEW c \in Callers, Get(c) PROVE IInv'
<1> USE DEF Apart, IInv, Get, Refused
<1>1. waiting \in Seq(Callers) /\ got \in [Callers -> Callers \cup {"nothing", "closed", "failed"}]
  BY DEF TypeOK
<1>2. \A i \in DOMAIN waiting : waiting[i] # c
  BY DEF Waiters
<1>3. CASE closed
  <2>1. TypeOK'
    BY <1>3 DEF TypeOK
  <2>2. Queue' /\ Engines'
    BY <1>1, <1>2, <1>3 DEF Queue, Engines, TypeOK
  <2>3. Values'
    BY <1>1, <1>3 DEF Values, TypeOK
  <2>4. Closing'
    BY <1>1, <1>3 DEF Closing, TypeOK
  <2> QED
    BY <2>1, <2>2, <2>3, <2>4
<1>4. CASE ~closed /\ cached # NoOne
  <2>1. TypeOK'
    BY <1>4 DEF TypeOK
  <2>2. Queue' /\ Engines' /\ Closing'
    BY <1>1, <1>2, <1>4 DEF Queue, Engines, Closing, TypeOK
  <2>3. Values'
    BY <1>1, <1>4 DEF Values, TypeOK
  <2> QED
    BY <2>1, <2>2, <2>3
<1>5. CASE ~closed /\ cached = NoOne /\ holder = NoOne /\ waiting = <<>>
  <2>1. TypeOK'
    BY <1>5 DEF TypeOK
  <2>2. Queue' /\ Values' /\ Engines' /\ Closing'
    BY <1>1, <1>2, <1>5 DEF Queue, Values, Engines, Closing, TypeOK
  <2> QED
    BY <2>1, <2>2
<1>6. CASE ~closed /\ cached = NoOne /\ ~(holder = NoOne /\ waiting = <<>>)
  <2>1. waiting' = Append(waiting, c) /\ UNCHANGED <<got, holder, closed, cached, open, broken, dropped, inside>>
    BY <1>6
  <2>2. waiting' \in Seq(Callers) /\ DOMAIN waiting' = DOMAIN waiting \cup {Len(waiting) + 1}
          /\ Len(waiting) + 1 \notin DOMAIN waiting
    BY <1>1, <2>1
  <2>3. waiting'[Len(waiting) + 1] = c /\ \A i \in DOMAIN waiting : waiting'[i] = waiting[i]
    BY <1>1, <2>1
  <2>4. TypeOK'
    BY <2>1, <2>2 DEF TypeOK
  <2>5. Queue'
    BY <1>2, <2>1, <2>2, <2>3 DEF Queue
  <2>6. Values' /\ Engines' /\ Closing'
    BY <1>6, <2>1 DEF Values, Engines, Closing
  <2> QED
    BY <2>4, <2>5, <2>6
<1> QED
  BY <1>3, <1>4, <1>5, <1>6

\* The lock is released to the next in the queue.
LEMMA WakeStep == ASSUME Apart, IInv, Wake PROVE IInv'
<1> USE DEF Apart, IInv, Wake, FoundAgain
<1> DEFINE h == Head(waiting)
<1>1. waiting \in Seq(Callers) /\ got \in [Callers -> Callers \cup {"nothing", "closed", "failed"}]
        /\ waiting # <<>> /\ holder = NoOne
  BY DEF TypeOK
<1>2. h \in Callers /\ h = waiting[1] /\ 1 \in DOMAIN waiting
  BY <1>1
<1>3. waiting' \in Seq(Callers)
        /\ \A i \in DOMAIN waiting' : i + 1 \in DOMAIN waiting /\ i + 1 # 1 /\ waiting'[i] = waiting[i + 1]
  BY <1>1
<1>3a. \A i \in DOMAIN waiting' : i \in Nat
  BY <1>3
<1>4. \A i \in DOMAIN waiting' : waiting'[i] # h
  BY <1>2, <1>3 DEF Queue
<1>5. \A i, j \in DOMAIN waiting' : waiting'[i] = waiting'[j] => i = j
  <2> SUFFICES ASSUME NEW i \in DOMAIN waiting', NEW j \in DOMAIN waiting', waiting'[i] = waiting'[j]
               PROVE i = j
    OBVIOUS
  <2>1. i + 1 = j + 1
    BY <1>3 DEF Queue
  <2> QED
    BY <2>1, <1>3a
<1>6. got[h] = "nothing" /\ (closed => h \in inside)
  BY <1>2 DEF Queue, Closing
<1>7. CASE cached # NoOne
  <2>1. TypeOK'
    BY <1>1, <1>2, <1>3, <1>7 DEF TypeOK
  <2>2. Queue'
    BY <1>1, <1>3, <1>4, <1>5, <1>7 DEF Queue, TypeOK
  <2>3. Values' /\ Engines'
    BY <1>1, <1>2, <1>6, <1>7 DEF Values, Engines, TypeOK
  <2>4. Closing'
    BY <1>1, <1>3, <1>6, <1>7 DEF Closing, TypeOK
  <2> QED
    BY <2>1, <2>2, <2>3, <2>4
<1>8. CASE cached = NoOne
  <2>1. TypeOK'
    BY <1>2, <1>3, <1>8 DEF TypeOK
  <2>2. Queue'
    BY <1>1, <1>2, <1>3, <1>4, <1>5, <1>6, <1>8 DEF Queue
  <2>3. Values' /\ Engines' /\ Closing'
    BY <1>3, <1>6, <1>8 DEF Values, Engines, Closing
  <2> QED
    BY <2>1, <2>2, <2>3
<1> QED
  BY <1>7, <1>8

\* A construction that ends.
LEMMA BuildEndsStep == ASSUME Apart, IInv, BuildEnds PROVE IInv'
<1> USE DEF Apart, IInv, BuildEnds
<1>1. holder \in Callers /\ cached = NoOne /\ got[holder] = "nothing"
        /\ got \in [Callers -> Callers \cup {"nothing", "closed", "failed"}]
  BY DEF TypeOK, Queue
<1>2. holder \notin dropped /\ (closed => holder \in inside)
  BY <1>1 DEF Values, Closing
<1>3. TypeOK'
  BY <1>1 DEF TypeOK
<1>4. Queue'
  BY <1>1 DEF Queue, TypeOK
<1>5. Values' /\ Engines'
  BY <1>1, <1>2 DEF Values, Engines, TypeOK
<1>6. Closing'
  BY <1>1, <1>2 DEF Closing, Values, TypeOK
<1> QED
  BY <1>3, <1>4, <1>5, <1>6

\* A construction that raises.
LEMMA BuildFailsStep == ASSUME Apart, IInv, BuildFails PROVE IInv'
<1> USE DEF Apart, IInv, BuildFails
<1>1. holder \in Callers /\ cached = NoOne /\ got[holder] = "nothing"
        /\ got \in [Callers -> Callers \cup {"nothing", "closed", "failed"}] /\ open \subseteq Callers
  BY DEF TypeOK, Queue
<1>2. holder \notin dropped
  BY <1>1 DEF Values
<1>3. TypeOK'
  BY <1>1 DEF TypeOK
<1>4. Queue'
  BY <1>1 DEF Queue, TypeOK
<1>5. Values' /\ Engines'
  BY <1>1, <1>2 DEF Values, Engines, TypeOK
<1>6. Closing'
  BY <1>1 DEF Closing, TypeOK
<1> QED
  BY <1>3, <1>4, <1>5, <1>6

\* An invalidation.
LEMMA InvalidateStep == ASSUME Apart, IInv, Invalidate PROVE IInv'
<1> USE DEF Apart, IInv, Invalidate
<1>1. TypeOK'
  BY DEF TypeOK
<1>2. Queue' /\ Engines'
  BY DEF Queue, Engines
<1>3. Values'
  BY DEF Values
<1>4. Closing'
  BY DEF Closing, TypeOK
<1> QED
  BY <1>1, <1>2, <1>3, <1>4

\* The close.
LEMMA CloseStep == ASSUME Apart, IInv, Close PROVE IInv'
<1> USE DEF Apart, IInv, Close
<1>1. Waiters \subseteq Callers /\ \A i \in DOMAIN waiting : waiting[i] \in Waiters
  BY DEF Waiters, TypeOK
<1>2. TypeOK'
  BY <1>1 DEF TypeOK
<1>3. Queue' /\ Values'
  BY DEF Queue, Values
<1>4. Engines'
  BY DEF Engines
<1>5. cached' \notin open' \ broken'
  BY DEF TypeOK
<1>6. Closing'
  BY <1>1, <1>5 DEF Closing
<1> QED
  BY <1>2, <1>3, <1>4, <1>6

-----------------------------------------------------------------------------
\* The theorems

\* The inductive invariant: the callers in get() are told apart, what was got is cached or was
\* dropped, and after the close only who was inside goes on.
THEOREM Invariance == ASSUME Apart PROVE Spec => []IInv
<1>1. Init => IInv
  BY Start
<1>2. IInv /\ [Next]_vars => IInv'
  <2> SUFFICES ASSUME IInv, [Next]_vars PROVE IInv'
    OBVIOUS
  <2>1. CASE \E c \in Callers : Get(c)
    BY <2>1, GetStep
  <2>2. CASE Wake
    BY <2>2, WakeStep
  <2>3. CASE BuildEnds
    BY <2>3, BuildEndsStep
  <2>4. CASE BuildFails
    BY <2>4, BuildFailsStep
  <2>5. CASE Invalidate
    BY <2>5, InvalidateStep
  <2>6. CASE Close
    BY <2>6, CloseStep
  <2>7. CASE UNCHANGED vars
    BY <2>7 DEF vars, IInv, TypeOK, Queue, Values, Engines, Closing
  <2> QED
    BY <2>1, <2>2, <2>3, <2>4, <2>5, <2>6, <2>7 DEF Next
<1> QED
  BY <1>1, <1>2, PTL DEF Spec

\* All callers of get() share one value, up to an invalidation: no key is ever built twice for
\* callers that use it at the same time.
THEOREM Sharing == ASSUME Apart PROVE Spec => []OneValue
<1>1. IInv => OneValue
  BY DEF IInv, Values, OneValue
<1> QED
  BY <1>1, Invariance, PTL

\* After the close at most one engine is left open unnoticed, that of a caller that was inside.
THEOREM Disposal == ASSUME Apart PROVE Spec => []LittleLeftOpen
<1>1. IInv => LittleLeftOpen
  BY DEF IInv, Engines, Closing, LittleLeftOpen
<1> QED
  BY <1>1, Invariance, PTL
=================================================================================
