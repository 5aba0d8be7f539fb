-------------------------- MODULE TimerQueueProofs --------------------------
(***************************************************************************)
(* The timer heap is a heap, sleeps expire in order and not early, and the *)
(* timerfd is armed in time: for all light threads, durations and clocks.  *)
(* The loops of the heap are recursive functions; what they compute is     *)
(* proved by the least number principle.                                   *)
(***************************************************************************)
EXTENDS TimerQueue, SequenceTheorems, WellFoundedInduction, TLAPS

----------------------------------------------------------------------------
(* Loops.                                                                  *)

(* A set of numbers has a least one.                                       *)
LEMMA Least ==
    ASSUME NEW T, T \subseteq Nat, T # {}
    PROVE  \E n \in T : \A k \in T : n <= k
<1> DEFINE R == OpToRel(<, Nat)
<1>1. IsWellFoundedOn(R, Nat)
  BY NatLessThanWellFounded
<1>2. \A n, k \in Nat : <<k, n>> \in R <=> k < n
  BY DEF OpToRel
<1> HIDE DEF R
<1>3. PICK n \in T : \A k \in T : ~(<<k, n>> \in R)
  BY <1>1, WFMin
<1>4. ASSUME NEW k \in T PROVE n <= k
  <2>1. n \in Nat /\ k \in Nat /\ ~(k < n)
    BY <1>2, <1>3
  <2> QED
    BY <2>1
<1> QED
  BY <1>4

(* f does what while (x \notin stop) x = next[x]; return res[x]; does.     *)
IsLoop(f, D, next, stop, res) ==
    f = [x \in D |-> IF x \in stop THEN res[x] ELSE f[next[x]]]

(* Sets the loop does not leave, and what it reaches from x.               *)
Closed(P, next, stop) == \A z \in P : z \notin stop => next[z] \in P

Reached(x, D, next, stop) ==
    {y \in stop : \A P \in SUBSET D : x \in P /\ Closed(P, next, stop) => y \in P}

(* A recursion of this form has a solution.                                *)
LEMMA LoopExists ==
    ASSUME NEW D, NEW next \in [D -> D], NEW stop \in SUBSET D, NEW res
    PROVE  \E f : IsLoop(f, D, next, stop, res)
<1> DEFINE E(x) == Reached(x, D, next, stop)
           f == [x \in D |-> IF x \in stop THEN res[x]
                             ELSE CHOOSE r : \E y \in E(x) : r = res[y]]
<1>1. ASSUME NEW x \in D, x \notin stop PROVE E(x) = E(next[x])
  <2>1. ASSUME NEW y \in E(next[x]) PROVE y \in E(x)
    BY <1>1, <2>1 DEF Reached, Closed
  <2>2. ASSUME NEW y \in E(x) PROVE y \in E(next[x])
    <3>1. SUFFICES ASSUME NEW P \in SUBSET D, next[x] \in P, Closed(P, next, stop)
                   PROVE  y \in P
      BY <2>2 DEF Reached
    <3>2. Closed(P \cup {x}, next, stop)
      BY <3>1 DEF Closed
    <3>3. y \in P \cup {x} /\ y \in stop
      BY <2>2, <3>2 DEF Reached
    <3> QED
      BY <1>1, <3>3
  <2> QED
    BY <2>1, <2>2
<1>2. ASSUME NEW x \in stop PROVE E(x) = {x}
  <2>1. Closed({x}, next, stop)
    BY <1>2 DEF Closed
  <2> QED
    BY <1>2, <2>1 DEF Reached
<1>3. ASSUME NEW x \in D, x \notin stop PROVE f[x] = f[next[x]]
  <2>1. f[x] = CHOOSE r : \E y \in E(next[x]) : r = res[y]
    BY <1>1, <1>3
  <2>2. CASE next[x] \in stop
    <3>1. E(next[x]) = {next[x]}
      BY <1>2, <2>2
    <3>2. f[x] = CHOOSE r : \E y \in {next[x]} : r = res[y]
      BY <2>1, <3>1
    <3> HIDE DEF f
    <3>3. f[x] = res[next[x]]
      BY <3>2
    <3> USE DEF f
    <3> QED
      BY <1>3, <2>2, <3>3
  <2>3. CASE next[x] \notin stop
    BY <1>3, <2>1, <2>3
  <2> QED
    BY <2>2, <2>3
<1>4. f = [x \in D |-> f[x]]
  OBVIOUS
<1>5. \A x \in D : x \in stop => f[x] = res[x]
  OBVIOUS
<1> HIDE DEF f
<1>6. \A x \in D : f[x] = IF x \in stop THEN res[x] ELSE f[next[x]]
  BY <1>3, <1>5
<1>7. IsLoop(f, D, next, stop, res)
  BY <1>4, <1>6 DEF IsLoop
<1> QED
  BY <1>7

(* Every turn of the loop lowers m, and from x the loop ends in P.         *)
CountsDown(P, next, stop, m) == \A x \in P : x \notin stop => m[next[x]] < m[x]

EndsIn(P, f, x, stop, res) == \E y \in P : y \in stop /\ f[x] = res[y]

(* A loop that counts down ends, and keeps what its body keeps.            *)
LEMMA LoopEnds ==
    ASSUME NEW D, NEW next \in [D -> D], NEW stop \in SUBSET D, NEW res, NEW f,
           IsLoop(f, D, next, stop, res),
           NEW P \in SUBSET D, Closed(P, next, stop),
           NEW m \in [D -> Nat], CountsDown(P, next, stop, m),
           NEW x \in P
    PROVE  EndsIn(P, f, x, stop, res)
<1> DEFINE Good(z) == \E y \in P : y \in stop /\ f[z] = res[y]
           T == {m[z] : z \in {w \in P : ~Good(w)}}
<1> SUFFICES ASSUME ~Good(x) PROVE FALSE
  BY DEF EndsIn
<1>1. T \subseteq Nat /\ T # {}
  OBVIOUS
<1>2. PICK n \in T : \A k \in T : n <= k
  BY <1>1, Least
<1>3. PICK z \in P : ~Good(z) /\ n = m[z]
  BY <1>2
<1>4. z \notin stop /\ f[z] = f[next[z]]
  <2>1. z \in stop => f[z] = res[z]
    BY DEF IsLoop
  <2>2. z \notin stop
    BY <1>3, <2>1
  <2> QED
    BY <2>2 DEF IsLoop
<1>5. next[z] \in P /\ ~Good(next[z])
  BY <1>3, <1>4 DEF Closed
<1>6. m[next[z]] \in T
  BY <1>5
<1>7. m[next[z]] < n /\ n \in Nat /\ m[next[z]] \in Nat
  BY <1>1, <1>3, <1>4, <1>5, <1>6 DEF CountsDown
<1> HIDE DEF T
<1>8. n <= m[next[z]]
  BY <1>2, <1>6
<1> QED
  BY <1>7, <1>8

----------------------------------------------------------------------------
(* The heap.                                                               *)

(* The entries of a queue.                                                 *)
Pending(q) == {q.heap[i] : i \in 1..Len(q.heap)}

(* What every queue is, and what it is between two operations.             *)
Indexed(q) == \A i \in 1..Len(q.heap) : q.index[q.heap[i].timer] = i

Sound(q) ==
    /\ q \in Queues /\ Indexed(q)
    /\ \A t \in Threads : (\A i \in 1..Len(q.heap) : q.heap[i].timer # t) => q.index[t] = 0

Ordered(q) == \A k \in 2..Len(q.heap) : q.heap[k \div 2].time <= q.heap[k].time

(* r is q with its entries in other places.                                *)
Shuffled(q, r) == Sound(r) /\ Len(r.heap) = Len(q.heap) /\ Pending(r) = Pending(q)

(* Sound is Placed, for a queue.                                           *)
LEMMA SoundIsPlaced == \A q : Sound(q) <=> q \in Queues /\ Placed(q)
  BY DEF Sound, Indexed, Placed, Timers

(* What the parts of a queue are.                                          *)
LEMMA QueueParts ==
    ASSUME NEW q \in Queues
    PROVE  /\ q.heap \in Seq(Entries) /\ q.index \in [Threads -> Nat] /\ Len(q.heap) \in Nat
           /\ \A i \in 1..Len(q.heap) : /\ q.heap[i] \in Entries
                                        /\ q.heap[i].time \in Int /\ q.heap[i].timer \in Threads
<1>1. q.heap \in Seq(Entries) /\ q.index \in [Threads -> Nat]
  BY DEF Queues
<1>2. Len(q.heap) \in Nat /\ \A i \in 1..Len(q.heap) : q.heap[i] \in Entries
  BY <1>1
<1>3. \A e \in Entries : e.time \in Int /\ e.timer \in Threads
  BY DEF Entries
<1> QED
  BY <1>1, <1>2, <1>3

(* swap_heap gives a queue, with two entries exchanged.                    *)
LEMMA SwapType ==
    ASSUME NEW q \in Queues, NEW i \in 1..Len(q.heap), NEW j \in 1..Len(q.heap)
    PROVE  /\ swap_heap(q, i, j) \in Queues
           /\ Len(swap_heap(q, i, j).heap) = Len(q.heap)
           /\ \A k \in 1..Len(q.heap) :
                 swap_heap(q, i, j).heap[k] =
                    IF k = j THEN q.heap[i] ELSE IF k = i THEN q.heap[j] ELSE q.heap[k]
<1> DEFINE h == [q.heap EXCEPT ![i] = q.heap[j], ![j] = q.heap[i]]
           x == [q.index EXCEPT ![q.heap[j].timer] = i, ![q.heap[i].timer] = j]
<1>1. h \in Seq(Entries) /\ Len(h) = Len(q.heap)
  BY QueueParts
<1>2. \A k \in 1..Len(q.heap) :
         h[k] = IF k = j THEN q.heap[i] ELSE IF k = i THEN q.heap[j] ELSE q.heap[k]
  BY QueueParts
<1>3. x \in [Threads -> Nat]
  BY QueueParts
<1>4. swap_heap(q, i, j) = [heap |-> h, index |-> x]
  BY DEF swap_heap
<1> HIDE DEF h, x
<1>5. swap_heap(q, i, j) \in Queues
  BY <1>1, <1>3, <1>4 DEF Queues
<1>6. swap_heap(q, i, j).heap = h
  BY <1>4
<1> QED
  BY <1>1, <1>2, <1>5, <1>6

(* swap_heap keeps the entries, and every timer knows its place.           *)
LEMMA SwapSound ==
    ASSUME NEW q, Sound(q), NEW i \in 1..Len(q.heap), NEW j \in 1..Len(q.heap)
    PROVE  Shuffled(q, swap_heap(q, i, j))
<1> DEFINE r == swap_heap(q, i, j)
           n == Len(q.heap)
<1>0. q \in Queues /\ Indexed(q)
  BY DEF Sound
<1>1. /\ r \in Queues /\ Len(r.heap) = n
      /\ \A k \in 1..n : r.heap[k] = IF k = j THEN q.heap[i]
                                     ELSE IF k = i THEN q.heap[j] ELSE q.heap[k]
  BY <1>0, SwapType
<1>2. r.index = [q.index EXCEPT ![q.heap[j].timer] = i, ![q.heap[i].timer] = j]
  BY DEF swap_heap
<1>3. /\ n \in Nat /\ q.index \in [Threads -> Nat]
      /\ \A k \in 1..n : q.heap[k].timer \in Threads /\ q.index[q.heap[k].timer] = k
  BY <1>0, QueueParts DEF Indexed
<1> HIDE DEF r
<1>4. Indexed(r)
  <2>1. SUFFICES ASSUME NEW k \in 1..n PROVE r.index[r.heap[k].timer] = k
    BY <1>1 DEF Indexed
  <2>2. CASE k = j
    <3>1. r.heap[k] = q.heap[i]
      BY <1>1, <2>2
    <3> QED
      BY <1>2, <1>3, <2>2, <3>1
  <2>3. CASE k = i /\ k # j
    <3>1. r.heap[k] = q.heap[j]
      BY <1>1, <2>3
    <3>2. q.heap[j].timer # q.heap[i].timer
      BY <1>3, <2>3
    <3> QED
      BY <1>2, <1>3, <2>3, <3>1, <3>2
  <2>4. CASE k # i /\ k # j
    <3>1. r.heap[k] = q.heap[k]
      BY <1>1, <2>4
    <3>2. q.heap[j].timer # q.heap[k].timer /\ q.heap[i].timer # q.heap[k].timer
      BY <1>3, <2>4
    <3> QED
      BY <1>2, <1>3, <3>1, <3>2
  <2> QED
    BY <2>2, <2>3, <2>4
<1>5. Pending(r) = Pending(q)
  <2>1. ASSUME NEW k \in 1..n PROVE r.heap[k] \in Pending(q)
    BY <1>1 DEF Pending
  <2>2. ASSUME NEW k \in 1..n PROVE q.heap[k] \in Pending(r)
    <3>1. \E l \in 1..n : r.heap[l] = q.heap[k]
      <4>1. r.heap[j] = q.heap[i]
        BY <1>1
      <4>2. r.heap[i] = q.heap[j]
        BY <1>1
      <4>3. k # i /\ k # j => r.heap[k] = q.heap[k]
        BY <1>1
      <4> QED
        BY <4>1, <4>2, <4>3
    <3> QED
      BY <1>1, <3>1 DEF Pending
  <2> QED
    BY <1>1, <2>1, <2>2 DEF Pending
<1>6. ASSUME NEW t \in Threads, \A k \in 1..Len(r.heap) : r.heap[k].timer # t
      PROVE  r.index[t] = 0
  <2>1. \A k \in 1..n : q.heap[k].timer # t
    BY <1>1, <1>5, <1>6 DEF Pending
  <2> QED
    BY <1>2, <1>3, <2>1 DEF Sound
<1> QED
  BY <1>1, <1>4, <1>5, <1>6 DEF Sound, Shuffled, r

(* An entry's parent is before it.                                         *)
LEMMA Halves ==
    /\ \A k \in Nat : k >= 2 => k \div 2 \in Nat /\ 1 <= k \div 2 /\ k \div 2 < k
    /\ \A k, i \in Nat : k \div 2 = i <=> k = 2 * i \/ k = 2 * i + 1
OBVIOUS

(* Entries that two places exchange, in a queue and in another.            *)
Swapped(q, r, i, j) ==
    /\ Len(r.heap) = Len(q.heap)
    /\ r.heap[i] = q.heap[j] /\ r.heap[j] = q.heap[i]
    /\ \A k \in 1..Len(q.heap) : k # i /\ k # j => r.heap[k] = q.heap[k]

(* swap_heap exchanges two entries.                                        *)
LEMMA SwapSwaps ==
    ASSUME NEW q \in Queues, NEW i \in 1..Len(q.heap), NEW j \in 1..Len(q.heap)
    PROVE  Swapped(q, swap_heap(q, i, j), i, j)
<1>1. /\ Len(swap_heap(q, i, j).heap) = Len(q.heap)
      /\ \A k \in 1..Len(q.heap) :
                 swap_heap(q, i, j).heap[k] =
                    IF k = j THEN q.heap[i] ELSE IF k = i THEN q.heap[j] ELSE q.heap[k]
  BY SwapType
<1> QED
  BY <1>1 DEF Swapped

(* Only entry i may be earlier than its parent: the invariant of up_heap.  *)
UpTo(q, i) ==
    /\ \A k \in 2..Len(q.heap) : k # i => q.heap[k \div 2].time <= q.heap[k].time
    /\ \A k \in 2..Len(q.heap) : i > 1 /\ k \div 2 = i => q.heap[i \div 2].time <= q.heap[k].time

UpMoves(x) == x[2] > 1 /\ x[1].heap[x[2]].time < x[1].heap[x[2] \div 2].time

(* The loop body of up_heap keeps its invariant.                           *)
LEMMA UpStep ==
    ASSUME NEW q \in Queues, NEW r \in Queues, NEW i \in 2..Len(q.heap), NEW p, p = i \div 2,
           Swapped(q, r, i, p), UpTo(q, i), q.heap[i].time < q.heap[p].time
    PROVE  UpTo(r, p)
<1> DEFINE n == Len(q.heap)
           S(k) == q.heap[k].time
           R(k) == r.heap[k].time
<1>1. n \in Nat /\ \A k \in 1..n : S(k) \in Int
  BY QueueParts
<1>2. p \in 1..n /\ p < i
  BY <1>1, Halves
<1>3. /\ Len(r.heap) = n /\ R(i) = S(p) /\ R(p) = S(i)
      /\ \A k \in 1..n : k # i /\ k # p => R(k) = S(k)
  BY DEF Swapped
<1>4. \A k \in 2..n : k # i => S(k \div 2) <= S(k)
  BY DEF UpTo
<1>5. \A k \in 2..n : k \div 2 = i => S(p) <= S(k)
  BY DEF UpTo
<1>6. S(i) < S(p)
  OBVIOUS
<1>7. i \in 2..n /\ \A k \in 2..n : k \div 2 \in 1..n /\ k \div 2 < k
  BY <1>1, Halves
<1> HIDE DEF S, R, n
<1>8. ASSUME NEW k \in 2..n, k # p PROVE R(k \div 2) <= R(k)
  <2>0. k \in 1..n /\ i \in 1..n
    BY <1>1, <1>7
  <2>1. CASE k = i
    <3>1. k \div 2 = p
      BY <2>1
    <3> QED
      BY <1>1, <1>2, <1>3, <1>6, <2>0, <2>1, <3>1
  <2>2. CASE k # i /\ k \div 2 = i
    <3>1. R(k) = S(k) /\ R(k \div 2) = S(p)
      BY <1>3, <1>8, <2>0, <2>2
    <3> QED
      BY <1>5, <2>2, <3>1
  <2>3. CASE k # i /\ k \div 2 = p
    <3>1. R(k) = S(k) /\ R(k \div 2) = S(i) /\ S(p) <= S(k)
      BY <1>3, <1>4, <1>8, <2>0, <2>3
    <3>2. S(k) \in Int /\ S(p) \in Int /\ S(i) \in Int
      BY <1>1, <1>2, <2>0
    <3> QED
      BY <1>6, <3>1, <3>2
  <2>4. CASE k # i /\ k \div 2 # i /\ k \div 2 # p
    <3>1. R(k) = S(k)
      BY <1>3, <1>8, <2>0, <2>4
    <3>2. R(k \div 2) = S(k \div 2)
      BY <1>3, <1>7, <2>4
    <3> QED
      BY <1>4, <2>4, <3>1, <3>2
  <2> QED
    BY <2>1, <2>2, <2>3, <2>4
<1>9. ASSUME NEW k \in 2..n, p > 1, k \div 2 = p PROVE R(p \div 2) <= R(k)
  <2>1. p \in 2..n /\ k \in 1..n
    BY <1>1, <1>2, <1>9
  <2>2. p \div 2 \in 1..n /\ p \div 2 < p /\ p < k
    BY <1>7, <1>9, <2>1
  <2>3. R(p \div 2) = S(p \div 2)
    BY <1>1, <1>2, <1>3, <2>2
  <2>4. S(p \div 2) <= S(p)
    BY <1>2, <1>4, <2>1
  <2>5. S(p \div 2) \in Int /\ S(p) \in Int /\ S(k) \in Int
    BY <1>1, <1>2, <2>1, <2>2
  <2>6. CASE k = i
    BY <1>3, <2>3, <2>4, <2>6
  <2>7. CASE k # i
    <3>1. S(p) <= S(k)
      BY <1>4, <1>9, <2>7
    <3>2. R(k) = S(k)
      BY <1>3, <2>1, <2>2, <2>7
    <3> QED
      BY <2>3, <2>4, <2>5, <3>1, <3>2
  <2> QED
    BY <2>6, <2>7
<1> QED
  BY <1>3, <1>8, <1>9 DEF UpTo, R, n

(* up_heap is a loop.                                                      *)
UpNext ==
    [x \in Places |->
       IF UpMoves(x) THEN <<swap_heap(x[1], x[2], x[2] \div 2), x[2] \div 2>> ELSE x]
UpStop == {x \in Places : ~UpMoves(x)}
First == [x \in Places |-> x[1]]

(* What a place is.                                                        *)
LEMMA PlaceParts ==
    /\ \A x \in Places : /\ x = <<x[1], x[2]>> /\ x[1] \in Queues
                         /\ x[2] \in 1..Len(x[1].heap) /\ x[2] \in Nat
    /\ \A q \in Queues : \A i \in 1..Len(q.heap) : <<q, i>> \in Places
<1>1. \A x \in Places : /\ x = <<x[1], x[2]>> /\ x[1] \in Queues
                        /\ x[2] \in 1..Len(x[1].heap) /\ x[2] \in Nat
  BY DEF Places
<1>2. ASSUME NEW q \in Queues, NEW i \in 1..Len(q.heap) PROVE <<q, i>> \in Places
  <2>1. i \in Nat
    BY QueueParts
  <2> QED
    BY <2>1 DEF Places
<1> QED
  BY <1>1, <1>2

(* The loop body of up_heap stays within its domain.                       *)
LEMMA UpNextType == UpNext \in [Places -> Places]
<1>1. ASSUME NEW x \in Places, UpMoves(x)
      PROVE  <<swap_heap(x[1], x[2], x[2] \div 2), x[2] \div 2>> \in Places
  <2>1. x[1] \in Queues /\ x[2] \in 1..Len(x[1].heap) /\ Len(x[1].heap) \in Nat
    BY PlaceParts, QueueParts
  <2>2. x[2] \div 2 \in 1..Len(x[1].heap)
    BY <1>1, <2>1, Halves DEF UpMoves
  <2>3. /\ swap_heap(x[1], x[2], x[2] \div 2) \in Queues
        /\ Len(swap_heap(x[1], x[2], x[2] \div 2).heap) = Len(x[1].heap)
    BY <2>1, <2>2, SwapType
  <2> QED
    BY <2>2, <2>3, PlaceParts
<1> QED
  BY <1>1 DEF UpNext

(* What up_heap is defined by.                                             *)
LEMMA UpIsLoop == IsLoop(up_heap, Places, UpNext, UpStop, First)
<1> DEFINE Body(g) ==
      [x \in Places |->
         IF x[2] > 1 /\ x[1].heap[x[2]].time < x[1].heap[x[2] \div 2].time
         THEN g[<<swap_heap(x[1], x[2], x[2] \div 2), x[2] \div 2>>]
         ELSE x[1]]
<1>1. up_heap = CHOOSE g : g = Body(g)
  BY DEF up_heap
<1>2. ASSUME NEW g PROVE IsLoop(g, Places, UpNext, UpStop, First) <=> g = Body(g)
  <2>1. ASSUME NEW x \in Places
        PROVE  (IF x \in UpStop THEN First[x] ELSE g[UpNext[x]]) = Body(g)[x]
    BY DEF UpStop, First, UpNext, UpMoves
  <2>2. [x \in Places |-> IF x \in UpStop THEN First[x] ELSE g[UpNext[x]]] = Body(g)
    BY <2>1
  <2> QED
    BY <2>2 DEF IsLoop
<1>3. \E g : IsLoop(g, Places, UpNext, UpStop, First)
  BY UpNextType, LoopExists DEF UpStop
<1> HIDE DEF Body
<1>4. up_heap = Body(up_heap)
  BY <1>1, <1>2, <1>3
<1> QED
  BY <1>2, <1>4

(* up_heap makes a heap of one whose only early entry is the one it moves. *)
LEMMA UpHeap ==
    ASSUME NEW q, Sound(q), NEW i \in 1..Len(q.heap)
    PROVE  Shuffled(q, up_heap[<<q, i>>]) /\ (UpTo(q, i) => Ordered(up_heap[<<q, i>>]))
<1> DEFINE P == {x \in Places : Shuffled(q, x[1]) /\ (UpTo(q, i) => UpTo(x[1], x[2]))}
           m == [x \in Places |-> x[2]]
<1>1. <<q, i>> \in P
  BY PlaceParts DEF Sound, Shuffled
<1>2. ASSUME NEW x \in P, x \notin UpStop
      PROVE  UpNext[x] \in P /\ m[UpNext[x]] < m[x]
  <2> DEFINE s == x[1]
             k == x[2]
             p == k \div 2
             r == swap_heap(s, k, p)
  <2>1. /\ s \in Queues /\ k \in 1..Len(s.heap) /\ Len(s.heap) \in Nat /\ Shuffled(q, s)
        /\ (UpTo(q, i) => UpTo(s, k)) /\ k > 1 /\ s.heap[k].time < s.heap[p].time
    BY <1>2, PlaceParts, QueueParts DEF UpStop, UpMoves
  <2>2. k \in 2..Len(s.heap) /\ p \in 1..Len(s.heap) /\ p < k
    BY <2>1, Halves
  <2>3. r \in Queues /\ Swapped(s, r, k, p)
    BY <2>1, <2>2, SwapType, SwapSwaps
  <2>4. UpTo(q, i) => UpTo(r, p)
    BY <2>1, <2>2, <2>3, UpStep
  <2>5. Shuffled(q, r)
    <3>1. Sound(s) /\ Shuffled(s, r)
      BY <2>1, <2>2, SwapSound DEF Shuffled
    <3> QED
      BY <2>1, <3>1 DEF Shuffled
  <2>6. UpNext[x] = <<r, p>>
    BY <1>2 DEF UpStop, UpNext
  <2> HIDE DEF r, p
  <2>7. <<r, p>> \in Places
    BY <2>2, <2>3, PlaceParts DEF Swapped
  <2>8. m[<<r, p>>] = p /\ m[x] = k
    BY <2>7
  <2> QED
    BY <2>2, <2>4, <2>5, <2>6, <2>7, <2>8
<1>3. m \in [Places -> Nat]
  BY PlaceParts
<1>4. P \in SUBSET Places /\ Closed(P, UpNext, UpStop)
  BY <1>2 DEF Closed
<1>5. CountsDown(P, UpNext, UpStop, m) /\ UpStop \in SUBSET Places
  BY <1>2 DEF CountsDown, UpStop
<1> HIDE DEF P, m
<1>6. EndsIn(P, up_heap, <<q, i>>, UpStop, First)
  BY <1>1, <1>3, <1>4, <1>5, UpNextType, UpIsLoop, LoopEnds
<1>7. PICK y \in P : y \in UpStop /\ up_heap[<<q, i>>] = First[y]
  BY <1>6 DEF EndsIn
<1>8. /\ y \in Places /\ up_heap[<<q, i>>] = y[1] /\ Shuffled(q, y[1])
      /\ (UpTo(q, i) => UpTo(y[1], y[2])) /\ ~UpMoves(y)
  BY <1>7 DEF P, First, UpStop
<1>9. ASSUME UpTo(q, i) PROVE Ordered(y[1])
  <2>1. SUFFICES ASSUME NEW k \in 2..Len(y[1].heap)
                 PROVE  y[1].heap[k \div 2].time <= y[1].heap[k].time
    BY DEF Ordered
  <2>2. CASE k # y[2]
    BY <1>8, <1>9, <2>2 DEF UpTo
  <2>3. CASE k = y[2]
    <3>1. y[1] \in Queues /\ Len(y[1].heap) \in Nat
      BY <1>8, PlaceParts, QueueParts
    <3>2. k \in 1..Len(y[1].heap) /\ k \div 2 \in 1..Len(y[1].heap) /\ k > 1
      BY <3>1, Halves
    <3>3. y[1].heap[k].time \in Int /\ y[1].heap[k \div 2].time \in Int
      BY <3>1, <3>2, QueueParts
    <3>4. ~(y[1].heap[k].time < y[1].heap[k \div 2].time)
      BY <1>8, <2>3, <3>2 DEF UpMoves
    <3> QED
      BY <3>3, <3>4
  <2> QED
    BY <2>2, <2>3
<1> QED
  BY <1>8, <1>9

(* Only the children of entry i may be earlier than their parent: the      *)
(* invariant of down_heap.                                                 *)
DownTo(q, i) ==
    /\ \A k \in 2..Len(q.heap) : k \div 2 # i => q.heap[k \div 2].time <= q.heap[k].time
    /\ \A k \in 2..Len(q.heap) : i > 1 /\ k \div 2 = i => q.heap[i \div 2].time <= q.heap[k].time

Child(x) == min_child(x[1].heap, x[2])
DownMoves(x) == ~(2 * x[2] > Len(x[1].heap) \/ x[1].heap[x[2]].time < x[1].heap[Child(x)].time)

(* min_child is the earliest child.                                        *)
LEMMA MinChild ==
    ASSUME NEW q \in Queues, NEW i \in 1..Len(q.heap), 2 * i <= Len(q.heap),
           NEW c, c = min_child(q.heap, i)
    PROVE  /\ c \in 2..Len(q.heap) /\ c \div 2 = i
           /\ \A k \in 2..Len(q.heap) : k \div 2 = i => q.heap[c].time <= q.heap[k].time
<1>1. /\ Len(q.heap) \in Nat
      /\ \A k \in 1..Len(q.heap) : q.heap[k].time \in Int
  BY QueueParts
<1>2. c \in 2..Len(q.heap) /\ (c = 2 * i \/ c = 2 * i + 1)
  BY <1>1 DEF min_child
<1>3. c \div 2 = i
  <2>1. c \in Nat /\ i \in Nat
    BY <1>1, <1>2
  <2> QED
    BY <1>2, <2>1, Halves
<1>4. ASSUME NEW k \in 2..Len(q.heap), k \div 2 = i PROVE q.heap[c].time <= q.heap[k].time
  <2>1. k = 2 * i \/ k = 2 * i + 1
    BY <1>1, <1>4, Halves
  <2>2. q.heap[c].time \in Int /\ q.heap[k].time \in Int
    BY <1>1, <1>2
  <2>3. CASE k = c
    BY <2>2, <2>3
  <2>4. CASE k = 2 * i /\ c = 2 * i + 1
    <3>1. ~(q.heap[2 * i].time < q.heap[2 * i + 1].time)
      BY <2>4 DEF min_child
    <3> QED
      BY <2>2, <2>4, <3>1
  <2>5. CASE k = 2 * i + 1 /\ c = 2 * i
    <3>1. 2 * i # Len(q.heap)
      BY <1>1, <2>5
    <3>2. q.heap[2 * i].time < q.heap[2 * i + 1].time
      BY <1>1, <2>5, <3>1 DEF min_child
    <3> QED
      BY <2>2, <2>5, <3>2
  <2> QED
    BY <1>2, <2>1, <2>3, <2>4, <2>5
<1> QED
  BY <1>2, <1>3, <1>4

(* The loop body of down_heap keeps its invariant.                         *)
LEMMA DownStep ==
    ASSUME NEW q \in Queues, NEW r \in Queues, NEW i \in 1..Len(q.heap),
           NEW c \in 2..Len(q.heap), c \div 2 = i,
           \A k \in 2..Len(q.heap) : k \div 2 = i => q.heap[c].time <= q.heap[k].time,
           Swapped(q, r, i, c), DownTo(q, i), ~(q.heap[i].time < q.heap[c].time)
    PROVE  DownTo(r, c)
<1> DEFINE n == Len(q.heap)
           S(k) == q.heap[k].time
           R(k) == r.heap[k].time
<1>1. n \in Nat /\ \A k \in 1..n : S(k) \in Int
  BY QueueParts
<1>2. /\ i \in 1..n /\ c \in 2..n /\ c \in 1..n /\ i < c
      /\ \A k \in 2..n : k \div 2 \in 1..n /\ k \div 2 < k /\ k \in 1..n
  BY <1>1, Halves
<1>3. /\ Len(r.heap) = n /\ R(i) = S(c) /\ R(c) = S(i)
      /\ \A k \in 1..n : k # i /\ k # c => R(k) = S(k)
  BY DEF Swapped
<1>4. \A k \in 2..n : k \div 2 # i => S(k \div 2) <= S(k)
  BY DEF DownTo
<1>5. \A k \in 2..n : i > 1 /\ k \div 2 = i => S(i \div 2) <= S(k)
  BY DEF DownTo
<1>6. S(c) <= S(i) /\ \A k \in 2..n : k \div 2 = i => S(c) <= S(k)
  BY <1>1, <1>2
<1> HIDE DEF S, R, n
<1>7. ASSUME NEW k \in 2..n, k \div 2 # c PROVE R(k \div 2) <= R(k)
  <2>1. CASE k \div 2 = i /\ k = c
    BY <1>3, <1>6, <2>1
  <2>2. CASE k \div 2 = i /\ k # c
    <3>1. R(k) = S(k)
      BY <1>2, <1>3, <2>2
    <3> QED
      BY <1>3, <1>6, <2>2, <3>1
  <2>3. CASE k \div 2 # i /\ k = i
    <3>1. i \div 2 \in 1..n /\ i \div 2 # i /\ i \div 2 # c /\ i > 1
      BY <1>2, <1>7, <2>3
    <3>2. R(i \div 2) = S(i \div 2)
      BY <1>3, <3>1
    <3>3. S(i \div 2) <= S(c)
      BY <1>2, <1>5, <3>1
    <3> QED
      BY <1>3, <2>3, <3>2, <3>3
  <2>4. CASE k \div 2 # i /\ k # i
    <3>1. k # c
      BY <2>4
    <3>2. R(k) = S(k) /\ R(k \div 2) = S(k \div 2)
      BY <1>2, <1>3, <1>7, <2>4, <3>1
    <3> QED
      BY <1>4, <2>4, <3>2
  <2> QED
    BY <2>1, <2>2, <2>3, <2>4
<1>8. ASSUME NEW k \in 2..n, k \div 2 = c PROVE R(c \div 2) <= R(k)
  <2>1. k # i /\ k # c /\ k \in 1..n
    BY <1>1, <1>2, <1>8
  <2>2. R(k) = S(k) /\ R(c \div 2) = S(c)
    BY <1>3, <2>1
  <2>3. c # i
    BY <1>2
  <2>4. S(c) <= S(k)
    BY <1>4, <1>8, <2>3
  <2> QED
    BY <2>2, <2>4
<1> QED
  BY <1>3, <1>7, <1>8 DEF DownTo, R, n

(* down_heap is a loop.                                                    *)
DownNext ==
    [x \in Places |->
       IF DownMoves(x) THEN <<swap_heap(x[1], x[2], Child(x)), Child(x)>> ELSE x]
DownStop == {x \in Places : ~DownMoves(x)}

(* Where down_heap moves an entry to.                                      *)
LEMMA DownPlace ==
    ASSUME NEW x \in Places, DownMoves(x)
    PROVE  /\ x[1] \in Queues /\ x[2] \in 1..Len(x[1].heap) /\ Len(x[1].heap) \in Nat
           /\ 2 * x[2] <= Len(x[1].heap)
           /\ Child(x) \in 2..Len(x[1].heap) /\ Child(x) \in 1..Len(x[1].heap)
           /\ Child(x) \div 2 = x[2] /\ x[2] < Child(x)
<1>1. x[1] \in Queues /\ x[2] \in 1..Len(x[1].heap) /\ Len(x[1].heap) \in Nat
  BY PlaceParts, QueueParts
<1>2. 2 * x[2] <= Len(x[1].heap)
  BY <1>1 DEF DownMoves
<1>3. Child(x) \in 2..Len(x[1].heap) /\ Child(x) \div 2 = x[2]
  BY <1>1, <1>2, MinChild DEF Child
<1>4. Child(x) \in 1..Len(x[1].heap) /\ x[2] < Child(x)
  BY <1>1, <1>3, Halves
<1> QED
  BY <1>1, <1>2, <1>3, <1>4

(* The loop body of down_heap stays within its domain.                     *)
LEMMA DownNextType == DownNext \in [Places -> Places]
<1>1. ASSUME NEW x \in Places, DownMoves(x)
      PROVE  <<swap_heap(x[1], x[2], Child(x)), Child(x)>> \in Places
  <2>1. /\ x[1] \in Queues /\ x[2] \in 1..Len(x[1].heap)
        /\ Child(x) \in 1..Len(x[1].heap)
    BY <1>1, DownPlace
  <2>2. /\ swap_heap(x[1], x[2], Child(x)) \in Queues
        /\ Len(swap_heap(x[1], x[2], Child(x)).heap) = Len(x[1].heap)
    BY <2>1, SwapType
  <2> QED
    BY <2>1, <2>2, PlaceParts
<1> QED
  BY <1>1 DEF DownNext

(* What down_heap is defined by.                                           *)
LEMMA DownIsLoop == IsLoop(down_heap, Places, DownNext, DownStop, First)
<1> DEFINE Body(g) ==
      [x \in Places |->
         IF \/ 2 * x[2] > Len(x[1].heap)
            \/ x[1].heap[x[2]].time < x[1].heap[min_child(x[1].heap, x[2])].time
         THEN x[1]
         ELSE g[<<swap_heap(x[1], x[2], min_child(x[1].heap, x[2])),
                  min_child(x[1].heap, x[2])>>]]
<1>1. down_heap = CHOOSE g : g = Body(g)
  BY DEF down_heap
<1>2. ASSUME NEW g PROVE IsLoop(g, Places, DownNext, DownStop, First) <=> g = Body(g)
  <2>1. ASSUME NEW x \in Places
        PROVE  (IF x \in DownStop THEN First[x] ELSE g[DownNext[x]]) = Body(g)[x]
    BY DEF DownStop, First, DownNext, DownMoves, Child
  <2>2. [x \in Places |-> IF x \in DownStop THEN First[x] ELSE g[DownNext[x]]] = Body(g)
    BY <2>1
  <2> QED
    BY <2>2 DEF IsLoop
<1>3. \E g : IsLoop(g, Places, DownNext, DownStop, First)
  BY DownNextType, LoopExists DEF DownStop
<1> HIDE DEF Body
<1>4. down_heap = Body(down_heap)
  BY <1>1, <1>2, <1>3
<1> QED
  BY <1>2, <1>4

(* down_heap makes a heap of one whose only late entry is the one it moves.*)
LEMMA DownHeap ==
    ASSUME NEW q, Sound(q), NEW i \in 1..Len(q.heap)
    PROVE  Shuffled(q, down_heap[<<q, i>>]) /\ (DownTo(q, i) => Ordered(down_heap[<<q, i>>]))
<1> DEFINE P == {x \in Places : Shuffled(q, x[1]) /\ (DownTo(q, i) => DownTo(x[1], x[2]))}
           m == [x \in Places |-> Len(x[1].heap) - x[2]]
<1>1. <<q, i>> \in P
  BY PlaceParts DEF Sound, Shuffled
<1>2. ASSUME NEW x \in P, x \notin DownStop
      PROVE  DownNext[x] \in P /\ m[DownNext[x]] < m[x]
  <2> DEFINE s == x[1]
             k == x[2]
             c == Child(x)
             r == swap_heap(s, k, c)
  <2>1. x \in Places /\ DownMoves(x) /\ Shuffled(q, s) /\ (DownTo(q, i) => DownTo(s, k))
    BY <1>2 DEF DownStop
  <2>2. /\ s \in Queues /\ k \in 1..Len(s.heap) /\ Len(s.heap) \in Nat
        /\ 2 * k <= Len(s.heap) /\ c \in 2..Len(s.heap) /\ c \in 1..Len(s.heap)
        /\ c \div 2 = k /\ k < c
    BY <2>1, DownPlace
  <2>3. r \in Queues /\ Swapped(s, r, k, c)
    BY <2>2, SwapType, SwapSwaps
  <2>4. DownTo(q, i) => DownTo(r, c)
    <3>1. \A l \in 2..Len(s.heap) : l \div 2 = k => s.heap[c].time <= s.heap[l].time
      BY <2>2, MinChild DEF Child
    <3>2. ~(s.heap[k].time < s.heap[c].time)
      BY <2>1 DEF DownMoves
    <3> HIDE DEF r, c, s, k
    <3> QED
      BY <2>1, <2>2, <2>3, <3>1, <3>2, DownStep
  <2>5. Shuffled(q, r)
    <3>1. Sound(s) /\ Shuffled(s, r)
      BY <2>1, <2>2, SwapSound DEF Shuffled
    <3> QED
      BY <2>1, <3>1 DEF Shuffled
  <2>6. DownNext[x] = <<r, c>>
    BY <2>1 DEF DownNext
  <2> HIDE DEF r, c
  <2>7. <<r, c>> \in Places /\ Len(r.heap) = Len(s.heap)
    BY <2>2, <2>3, PlaceParts DEF Swapped
  <2>8. m[<<r, c>>] = Len(s.heap) - c /\ m[x] = Len(s.heap) - k
    BY <2>1, <2>7
  <2>9. Len(s.heap) - c < Len(s.heap) - k
    <3> HIDE DEF s, k
    <3> QED
      BY <2>2
  <2> QED
    BY <2>4, <2>5, <2>6, <2>7, <2>8, <2>9
<1>3. m \in [Places -> Nat]
  <2>1. ASSUME NEW x \in Places PROVE Len(x[1].heap) - x[2] \in Nat
    <3>1. Len(x[1].heap) \in Nat /\ x[2] \in 1..Len(x[1].heap)
      BY PlaceParts, QueueParts
    <3> QED
      BY <3>1
  <2> QED
    BY <2>1
<1>4. P \in SUBSET Places /\ Closed(P, DownNext, DownStop)
  BY <1>2 DEF Closed
<1>5. CountsDown(P, DownNext, DownStop, m) /\ DownStop \in SUBSET Places
  BY <1>2 DEF CountsDown, DownStop
<1> HIDE DEF P, m
<1>6. EndsIn(P, down_heap, <<q, i>>, DownStop, First)
  BY <1>1, <1>3, <1>4, <1>5, DownNextType, DownIsLoop, LoopEnds
<1>7. PICK y \in P : y \in DownStop /\ down_heap[<<q, i>>] = First[y]
  BY <1>6 DEF EndsIn
<1>8. /\ y \in Places /\ down_heap[<<q, i>>] = y[1] /\ Shuffled(q, y[1])
      /\ (DownTo(q, i) => DownTo(y[1], y[2])) /\ ~DownMoves(y)
  BY <1>7 DEF P, First, DownStop
<1>9. ASSUME DownTo(q, i) PROVE Ordered(y[1])
  <2>1. SUFFICES ASSUME NEW k \in 2..Len(y[1].heap)
                 PROVE  y[1].heap[k \div 2].time <= y[1].heap[k].time
    BY DEF Ordered
  <2>2. CASE k \div 2 # y[2]
    BY <1>8, <1>9, <2>2 DEF DownTo
  <2>3. CASE k \div 2 = y[2]
    <3>1. y[1] \in Queues /\ Len(y[1].heap) \in Nat /\ y[2] \in 1..Len(y[1].heap)
      BY <1>8, PlaceParts, QueueParts
    <3>2. 2 * y[2] <= Len(y[1].heap)
      BY <2>3, <3>1, Halves
    <3>3. /\ Child(y) \in 2..Len(y[1].heap)
          /\ y[1].heap[Child(y)].time <= y[1].heap[k].time
      BY <2>3, <3>1, <3>2, MinChild DEF Child
    <3>4. y[1].heap[y[2]].time < y[1].heap[Child(y)].time
      BY <1>8, <3>1, <3>2 DEF DownMoves
    <3>5. /\ y[1].heap[Child(y)].time \in Int /\ y[1].heap[k].time \in Int
          /\ y[1].heap[y[2]].time \in Int
      BY <3>1, <3>3, QueueParts
    <3>6. y[1].heap[y[2]].time <= y[1].heap[k].time
      BY <3>3, <3>4, <3>5
    <3> QED
      BY <2>3, <3>6
  <2> QED
    BY <2>2, <2>3
<1> QED
  BY <1>8, <1>9

(* enqueue_timer adds one entry to a heap.                                 *)
LEMMA Enqueue ==
    ASSUME NEW q, Sound(q), Ordered(q), NEW time \in Int, NEW t \in Threads,
           \A i \in 1..Len(q.heap) : q.heap[i].timer # t
    PROVE  /\ Sound(enqueue_timer(q, time, t)) /\ Ordered(enqueue_timer(q, time, t))
           /\ Len(enqueue_timer(q, time, t).heap) = Len(q.heap) + 1
           /\ Pending(enqueue_timer(q, time, t)) =
                 Pending(q) \cup {[time |-> time, timer |-> t]}
<1> DEFINE n == Len(q.heap) + 1
           e == [time |-> time, timer |-> t]
           a == [heap |-> Append(q.heap, e), index |-> [q.index EXCEPT ![t] = n]]
<1>1. q \in Queues /\ Indexed(q)
  BY DEF Sound
<1>2. /\ q.heap \in Seq(Entries) /\ q.index \in [Threads -> Nat] /\ Len(q.heap) \in Nat
      /\ \A i \in 1..Len(q.heap) : q.heap[i].time \in Int /\ q.heap[i].timer \in Threads
  BY <1>1, QueueParts
<1>3. e \in Entries /\ e.timer = t
  BY DEF Entries
<1> HIDE DEF e
<1>4. /\ a.heap = Append(q.heap, e) /\ a.index = [q.index EXCEPT ![t] = n]
      /\ a.heap \in Seq(Entries) /\ Len(a.heap) = n /\ a.heap[n] = e
      /\ \A k \in 1..Len(q.heap) : a.heap[k] = q.heap[k]
  BY <1>2, <1>3
<1>5. a.index \in [Threads -> Nat] /\ a \in Queues
  <2>1. n \in Nat
    BY <1>2
  <2>2. [q.index EXCEPT ![t] = n] \in [Threads -> Nat]
    <3> HIDE DEF n
    <3> QED
      BY <1>2, <2>1
  <2> QED
    BY <1>4, <2>2 DEF Queues
<1>6. enqueue_timer(q, time, t) = up_heap[<<a, n>>]
  BY DEF enqueue_timer, e
<1> HIDE DEF a
<1>7. \A k \in 1..n : k = n \/ k \in 1..Len(q.heap)
  BY <1>2
<1>8. Sound(a)
  <2>1. ASSUME NEW k \in 1..n PROVE a.index[a.heap[k].timer] = k
    <3>1. CASE k = n
      BY <1>2, <1>3, <1>4, <3>1
    <3>2. CASE k # n
      <4>1. k \in 1..Len(q.heap) /\ a.heap[k] = q.heap[k]
        BY <1>4, <1>7, <3>2
      <4>2. q.heap[k].timer # t /\ q.heap[k].timer \in Threads /\ q.index[q.heap[k].timer] = k
        BY <1>1, <1>2, <4>1 DEF Indexed
      <4> QED
        BY <1>2, <1>4, <4>1, <4>2
    <3> QED
      BY <3>1, <3>2
  <2>2. ASSUME NEW s \in Threads, \A k \in 1..n : a.heap[k].timer # s PROVE a.index[s] = 0
    <3>1. s # t
      BY <1>2, <1>3, <1>4, <2>2
    <3>2. \A k \in 1..Len(q.heap) : q.heap[k].timer # s
      BY <1>2, <1>4, <2>2
    <3>3. q.index[s] = 0
      BY <3>2 DEF Sound
    <3> QED
      BY <1>2, <1>4, <3>1, <3>3
  <2> QED
    BY <1>4, <1>5, <2>1, <2>2 DEF Sound, Indexed
<1>9. Pending(a) = Pending(q) \cup {e}
  <2>1. Pending(a) \subseteq Pending(q) \cup {e}
    BY <1>4, <1>7 DEF Pending
  <2>2. Pending(q) \subseteq Pending(a)
    BY <1>2, <1>4 DEF Pending
  <2>3. e \in Pending(a)
    BY <1>2, <1>4 DEF Pending
  <2> QED
    BY <2>1, <2>2, <2>3
<1>10. UpTo(a, n)
  <2>1. ASSUME NEW k \in 2..n, k # n PROVE a.heap[k \div 2].time <= a.heap[k].time
    <3>1. k \in 2..Len(q.heap) /\ k \in 1..Len(q.heap) /\ k \div 2 \in 1..Len(q.heap)
      BY <1>2, <2>1, Halves
    <3>2. a.heap[k] = q.heap[k] /\ a.heap[k \div 2] = q.heap[k \div 2]
      BY <1>4, <3>1
    <3> QED
      BY <3>1, <3>2 DEF Ordered
  <2>2. ASSUME NEW k \in 2..n PROVE k \div 2 # n
    BY <1>2, Halves
  <2> QED
    BY <1>4, <2>1, <2>2 DEF UpTo
<1>11. n \in 1..Len(a.heap)
  BY <1>2, <1>4
<1>12. Shuffled(a, up_heap[<<a, n>>]) /\ Ordered(up_heap[<<a, n>>])
  BY <1>8, <1>10, <1>11, UpHeap
<1> QED
  BY <1>4, <1>6, <1>9, <1>12 DEF Shuffled, e

(* Another entry in place i of a heap: one of the two loops mends it.      *)
LEMMA Replaced ==
    ASSUME NEW q \in Queues, Ordered(q), NEW c \in Queues, NEW i \in 1..Len(c.heap),
           Len(c.heap) <= Len(q.heap),
           \A k \in 1..Len(c.heap) : k # i => c.heap[k] = q.heap[k]
    PROVE  /\ i > 1 /\ c.heap[i].time < c.heap[i \div 2].time => UpTo(c, i)
           /\ ~(i > 1 /\ c.heap[i].time < c.heap[i \div 2].time) => DownTo(c, i)
<1> DEFINE n == Len(c.heap)
           S(k) == q.heap[k].time
           R(k) == c.heap[k].time
<1>1. /\ n \in Nat /\ \A k \in 1..n : S(k) \in Int /\ R(k) \in Int
      /\ \A k \in 2..n : S(k \div 2) <= S(k)
  <2>1. n \in Nat /\ Len(q.heap) \in Nat
    BY QueueParts
  <2>2. \A k \in 1..n : k \in 1..Len(q.heap)
    BY <2>1
  <2>3. \A k \in 2..n : k \in 2..Len(q.heap)
    BY <2>1
  <2>4. \A k \in 1..n : S(k) \in Int /\ R(k) \in Int
    BY <2>2, QueueParts
  <2>5. \A k \in 2..n : S(k \div 2) <= S(k)
    BY <2>3 DEF Ordered
  <2> QED
    BY <2>1, <2>4, <2>5
<1>2. i \in 1..n /\ \A k \in 2..n : k \div 2 \in 1..n /\ k \div 2 < k /\ k \in 1..n
  BY <1>1, Halves
<1>3. \A k \in 1..n : k # i => R(k) = S(k)
  OBVIOUS
<1> HIDE DEF n, S, R
<1>4. ASSUME NEW k \in 2..n, i > 1, k \div 2 = i PROVE R(i \div 2) <= R(k) /\ S(i) <= R(k)
  <2>1. i \in 2..n /\ i \div 2 \in 1..n /\ i \div 2 # i /\ k \in 1..n /\ k # i
    BY <1>1, <1>2, <1>4
  <2>2. R(i \div 2) = S(i \div 2) /\ R(k) = S(k)
    BY <1>3, <2>1
  <2>3. S(i \div 2) <= S(i) /\ S(i) <= S(k)
    BY <1>1, <1>4, <2>1
  <2>4. S(i \div 2) \in Int /\ S(i) \in Int /\ S(k) \in Int
    BY <1>1, <1>2, <2>1
  <2> QED
    BY <2>2, <2>3, <2>4
<1>5. ASSUME NEW k \in 2..n, k # i, k \div 2 # i PROVE R(k \div 2) <= R(k)
  <2>1. R(k \div 2) = S(k \div 2) /\ R(k) = S(k)
    BY <1>2, <1>3, <1>5
  <2> QED
    BY <1>1, <2>1
<1>6. ASSUME i > 1, R(i) < R(i \div 2), NEW k \in 2..n, k # i PROVE R(k \div 2) <= R(k)
  <2>1. CASE k \div 2 = i
    <3>1. R(i \div 2) <= R(k)
      BY <1>4, <1>6, <2>1
    <3>2. i \in 2..n /\ i \div 2 \in 1..n
      BY <1>1, <1>2, <1>6
    <3>3. R(i) \in Int /\ R(i \div 2) \in Int /\ R(k) \in Int
      BY <1>1, <1>2, <3>2
    <3>4. R(i) <= R(k)
      BY <1>6, <3>1, <3>3
    <3> QED
      BY <2>1, <3>4
  <2> QED
    BY <1>5, <1>6, <2>1
<1>7. ASSUME ~(i > 1 /\ R(i) < R(i \div 2)), NEW k \in 2..n, k \div 2 # i
      PROVE  R(k \div 2) <= R(k)
  <2>1. CASE k = i
    <3>1. i > 1 /\ i \div 2 \in 1..n
      BY <1>2, <2>1
    <3>2. R(i) \in Int /\ R(i \div 2) \in Int
      BY <1>1, <1>2, <3>1
    <3>3. R(i \div 2) <= R(i)
      BY <1>7, <3>1, <3>2
    <3> QED
      BY <2>1, <3>3
  <2> QED
    BY <1>5, <1>7, <2>1
<1>8. i > 1 /\ R(i) < R(i \div 2) => UpTo(c, i)
  BY <1>4, <1>6 DEF UpTo, n, R
<1>9. ~(i > 1 /\ R(i) < R(i \div 2)) => DownTo(c, i)
  BY <1>4, <1>7 DEF DownTo, n, R
<1> QED
  BY <1>8, <1>9 DEF R

(* A sequence without its last element.                                    *)
LEMMA AllButLast ==
    ASSUME NEW S, NEW h \in Seq(S), Len(h) > 0
    PROVE  /\ SubSeq(h, 1, Len(h) - 1) \in Seq(S) /\ Len(SubSeq(h, 1, Len(h) - 1)) = Len(h) - 1
           /\ \A k \in 1..(Len(h) - 1) : SubSeq(h, 1, Len(h) - 1)[k] = h[k]
<1> DEFINE n == Len(h) - 1
<1>1. n \in Nat /\ \A k \in 1..n : h[k] \in S
  OBVIOUS
<1> HIDE DEF n
<1>2. /\ SubSeq(h, 1, n) \in Seq(S) /\ Len(SubSeq(h, 1, n)) = IF 1 <= n THEN n - 1 + 1 ELSE 0
      /\ \A k \in 1..(n - 1 + 1) : SubSeq(h, 1, n)[k] = h[1 + k - 1]
  BY <1>1, SubSeqProperties
<1>3. Len(SubSeq(h, 1, n)) = n
  BY <1>1, <1>2
<1>4. \A k \in 1..n : SubSeq(h, 1, n)[k] = h[k]
  <2>1. \A k \in 1..n : k \in 1..(n - 1 + 1) /\ 1 + k - 1 = k
    BY <1>1
  <2> QED
    BY <1>2, <2>1
<1> QED
  BY <1>2, <1>3, <1>4 DEF n

(* remove_timer takes the timer's entry out of a heap.                     *)
LEMMA Dequeue ==
    ASSUME NEW q, Sound(q), NEW i \in 1..Len(q.heap), NEW t, t = q.heap[i].timer
    PROVE  /\ Sound(remove_timer(q, t))
           /\ Ordered(q) => Ordered(remove_timer(q, t))
           /\ Len(remove_timer(q, t).heap) = Len(q.heap) - 1
           /\ Pending(remove_timer(q, t)) = Pending(q) \ {q.heap[i]}
<1> DEFINE n == Len(q.heap)
           s == swap_heap(q, i, n)
           c == [heap |-> SubSeq(s.heap, 1, n - 1), index |-> [s.index EXCEPT ![t] = 0]]
<1>1. q \in Queues /\ Indexed(q)
  BY DEF Sound
<1>2. /\ n \in Nat /\ i \in 1..n /\ n \in 1..n /\ t \in Threads /\ q.index[t] = i
  BY <1>1, QueueParts DEF Indexed
<1>3. remove_timer(q, t) =
         IF i = n THEN c
         ELSE IF i > 1 /\ c.heap[i].time < c.heap[i \div 2].time THEN up_heap[<<c, i>>]
         ELSE down_heap[<<c, i>>]
  BY <1>2 DEF remove_timer
<1>4. Shuffled(q, s) /\ Swapped(q, s, i, n) /\ s \in Queues
  BY <1>1, <1>2, SwapSound, SwapSwaps, SwapType
<1>5. c.heap = SubSeq(s.heap, 1, n - 1) /\ c.index = [s.index EXCEPT ![t] = 0]
  OBVIOUS
<1> HIDE DEF s, c
<1>6. /\ s.heap \in Seq(Entries) /\ Len(s.heap) = n /\ s.index \in [Threads -> Nat]
      /\ \A k \in 1..n : s.heap[k].timer \in Threads /\ s.index[s.heap[k].timer] = k
      /\ s.heap[n] = q.heap[i]
  BY <1>4, QueueParts DEF Shuffled, Sound, Indexed, Swapped
<1>7. /\ c.heap \in Seq(Entries) /\ Len(c.heap) = n - 1
      /\ \A k \in 1..(n - 1) : c.heap[k] = s.heap[k] /\ k \in 1..n /\ k # n
  <2>1. \A k \in 1..(n - 1) : k \in 1..n /\ k # n
    BY <1>2
  <2>2. /\ SubSeq(s.heap, 1, n - 1) \in Seq(Entries) /\ Len(SubSeq(s.heap, 1, n - 1)) = n - 1
        /\ \A k \in 1..(n - 1) : SubSeq(s.heap, 1, n - 1)[k] = s.heap[k]
    BY <1>2, <1>6, AllButLast
  <2> QED
    BY <1>5, <2>1, <2>2
<1>8. c \in Queues
  <2>1. c.index \in [Threads -> Nat]
    BY <1>2, <1>5, <1>6
  <2> QED
    BY <1>5, <1>7, <2>1 DEF Queues, c
<1>9. \A k \in 1..(n - 1) : s.heap[k].timer # t
  <2>1. s.index[t] = n
    BY <1>2, <1>6
  <2>2. \A k \in 1..(n - 1) : s.index[s.heap[k].timer] = k /\ k # n
    BY <1>6, <1>7
  <2> HIDE DEF n
  <2> QED
    BY <2>1, <2>2
<1>10. Sound(c)
  <2>1. ASSUME NEW k \in 1..(n - 1) PROVE c.index[c.heap[k].timer] = k
    <3>1. c.heap[k] = s.heap[k] /\ k \in 1..n
      BY <1>7
    <3>2. /\ s.heap[k].timer \in Threads /\ s.heap[k].timer # t
          /\ s.index[s.heap[k].timer] = k
      BY <1>6, <1>9, <3>1
    <3> HIDE DEF n
    <3> QED
      BY <1>5, <1>6, <3>1, <3>2
  <2>2. ASSUME NEW u \in Threads, \A k \in 1..(n - 1) : c.heap[k].timer # u PROVE c.index[u] = 0
    <3>1. CASE u = t
      BY <1>2, <1>5, <1>6, <3>1
    <3>2. CASE u # t
      <4>1. ASSUME NEW k \in 1..n PROVE s.heap[k].timer # u
        <5>1. k = n \/ k \in 1..(n - 1)
          BY <1>2
        <5> QED
          BY <1>6, <1>7, <2>2, <3>2, <5>1
      <4>2. s.index[u] = 0
        BY <1>4, <1>6, <4>1 DEF Shuffled, Sound
      <4> QED
        BY <1>2, <1>5, <1>6, <3>2, <4>2
    <3> QED
      BY <3>1, <3>2
  <2> QED
    BY <1>7, <1>8, <2>1, <2>2 DEF Sound, Indexed
<1>11. Pending(c) = Pending(q) \ {q.heap[i]}
  <2>1. Pending(s) = Pending(q)
    BY <1>4 DEF Shuffled
  <2>2. ASSUME NEW k \in 1..(n - 1) PROVE c.heap[k] \in Pending(s) \ {q.heap[i]}
    BY <1>6, <1>7, <1>9 DEF Pending
  <2>3. ASSUME NEW k \in 1..n, s.heap[k] # q.heap[i] PROVE s.heap[k] \in Pending(c)
    <3>1. k \in 1..(n - 1)
      BY <1>2, <1>6, <2>3
    <3> QED
      BY <1>7, <3>1 DEF Pending
  <2>4. Pending(c) \subseteq Pending(s) \ {q.heap[i]}
    BY <1>7, <2>2 DEF Pending
  <2>5. Pending(s) \ {q.heap[i]} \subseteq Pending(c)
    <3>1. Pending(s) = {s.heap[k] : k \in 1..n}
      BY <1>6 DEF Pending
    <3> QED
      BY <2>3, <3>1
  <2> QED
    BY <2>1, <2>4, <2>5
<1>12. \A k \in 1..(n - 1) : k # i => c.heap[k] = q.heap[k]
  BY <1>4, <1>7 DEF Swapped
<1>13. CASE i = n
  <2>1. ASSUME Ordered(q) PROVE Ordered(c)
    <3>1. ASSUME NEW k \in 2..(n - 1) PROVE c.heap[k \div 2].time <= c.heap[k].time
      <4>1. k \in 1..(n - 1) /\ k \div 2 \in 1..(n - 1) /\ k # i /\ k \div 2 # i /\ k \in 2..n
        BY <1>2, <1>13, Halves
      <4>2. c.heap[k] = q.heap[k] /\ c.heap[k \div 2] = q.heap[k \div 2]
        BY <1>12, <4>1
      <4> QED
        BY <2>1, <4>1, <4>2 DEF Ordered
    <3> QED
      BY <1>7, <3>1 DEF Ordered
  <2> QED
    BY <1>3, <1>7, <1>10, <1>11, <1>13, <2>1
<1>14. CASE i # n
  <2>1. i \in 1..Len(c.heap) /\ Len(c.heap) <= Len(q.heap)
    <3>1. i \in 1..(n - 1) /\ n - 1 <= n
      BY <1>2, <1>14
    <3> QED
      BY <1>7, <3>1
  <2>2. \A k \in 1..Len(c.heap) : k # i => c.heap[k] = q.heap[k]
    BY <1>7, <1>12
  <2>3. CASE i > 1 /\ c.heap[i].time < c.heap[i \div 2].time
    <3>1. Ordered(q) => UpTo(c, i)
      BY <1>1, <1>8, <2>1, <2>2, <2>3, Replaced
    <3>2. Shuffled(c, up_heap[<<c, i>>]) /\ (Ordered(q) => Ordered(up_heap[<<c, i>>]))
      BY <1>10, <2>1, <3>1, UpHeap
    <3> QED
      BY <1>3, <1>7, <1>11, <1>14, <2>3, <3>2 DEF Shuffled
  <2>4. CASE ~(i > 1 /\ c.heap[i].time < c.heap[i \div 2].time)
    <3>1. Ordered(q) => DownTo(c, i)
      BY <1>1, <1>8, <2>1, <2>2, <2>4, Replaced
    <3>2. Shuffled(c, down_heap[<<c, i>>]) /\ (Ordered(q) => Ordered(down_heap[<<c, i>>]))
      BY <1>10, <2>1, <3>1, DownHeap
    <3> QED
      BY <1>3, <1>7, <1>11, <1>14, <2>4, <3>2 DEF Shuffled
  <2> QED
    BY <2>3, <2>4
<1> QED
  BY <1>13, <1>14

(* The first entry of a heap is the earliest.                              *)
LEMMA FirstIsEarliest ==
    ASSUME NEW q \in Queues, Ordered(q), NEW i \in 1..Len(q.heap)
    PROVE  q.heap[1].time <= q.heap[i].time
<1> DEFINE T == {k \in 1..Len(q.heap) : ~(q.heap[1].time <= q.heap[k].time)}
<1>1. SUFFICES ASSUME i \in T PROVE FALSE
  OBVIOUS
<1>2. /\ Len(q.heap) \in Nat /\ 1 \in 1..Len(q.heap)
      /\ \A k \in 1..Len(q.heap) : q.heap[k].time \in Int
  BY QueueParts
<1>3. T \subseteq Nat /\ T # {}
  BY <1>1, <1>2
<1>4. PICK k \in T : \A l \in T : k <= l
  BY <1>3, Least
<1>5. k \in 1..Len(q.heap) /\ ~(q.heap[1].time <= q.heap[k].time)
  BY <1>4
<1>6. k # 1
  <2>1. q.heap[1].time <= q.heap[1].time
    BY <1>2
  <2> QED
    BY <1>5, <2>1
<1>7. k \in 2..Len(q.heap) /\ k \div 2 \in 1..Len(q.heap) /\ k \div 2 < k /\ k \div 2 \in Nat
  BY <1>2, <1>5, <1>6, Halves
<1>8. q.heap[k \div 2].time <= q.heap[k].time
  BY <1>7 DEF Ordered
<1>9. ~(q.heap[1].time <= q.heap[k \div 2].time)
  <2>1. /\ q.heap[1].time \in Int /\ q.heap[k].time \in Int
        /\ q.heap[k \div 2].time \in Int
    BY <1>2, <1>5, <1>7
  <2> QED
    BY <1>5, <1>8, <2>1
<1>10. k \div 2 \in T
  BY <1>7, <1>9
<1> HIDE DEF T
<1>11. k <= k \div 2
  BY <1>4, <1>10
<1> QED
  BY <1>5, <1>7, <1>11

----------------------------------------------------------------------------
(* get_ready_timers.                                                       *)

(* Its loop: what is left of the queue and the timers taken off so far.    *)
Takes == {y \in Queues \X Seq(Threads) : Placed(y[1])}
TakeStop(now) == {x \in Takes : x[1].heap = <<>> \/ ~IsDue(x[1].heap[1].time, now)}
TakeNext(now) ==
    [x \in Takes |->
       IF x \in TakeStop(now) THEN x
       ELSE <<remove_timer(x[1], x[1].heap[1].timer), Append(x[2], x[1].heap[1].timer)>>]
TakeResult == [x \in Takes |-> [queue |-> x[1], ops |-> x[2]]]

(* After some turns s is left of q, and ops were taken off: all of them    *)
(* due, each once, the earliest first, none later than what is left.       *)
TakenOff(q, s, ops, now) ==
    /\ Sound(s) /\ Ordered(s) /\ ops \in Seq(Threads)
    /\ Pending(s) \subseteq Pending(q)
    /\ \A k \in 1..Len(ops) :
          \E e \in Pending(q) \ Pending(s) : e.timer = ops[k] /\ e.time <= now
    /\ \A e \in Pending(q) \ Pending(s) : \E k \in 1..Len(ops) : ops[k] = e.timer
    /\ \A k, l \in 1..Len(ops) : ops[k] = ops[l] => k = l
    /\ \A k \in 1..(Len(ops) - 1) : \A d, e \in Pending(q) :
          d.timer = ops[k] /\ e.timer = ops[k + 1] => d.time <= e.time
    /\ \A d \in Pending(q) \ Pending(s), e \in Pending(s) : d.time <= e.time

(* What get_ready_timers returns.                                          *)
Ready(q, g, now) ==
    /\ TakenOff(q, g.queue, g.ops, now)
    /\ \A e \in Pending(g.queue) : now < e.time

(* What a turn of the loop starts from.                                    *)
LEMMA TakeParts ==
    ASSUME NEW now, NEW x \in Takes
    PROVE  /\ x = <<x[1], x[2]>> /\ Sound(x[1]) /\ x[1] \in Queues /\ x[2] \in Seq(Threads)
           /\ Len(x[1].heap) \in Nat
           /\ x \notin TakeStop(now) =>
                 /\ 1 \in 1..Len(x[1].heap) /\ x[1].heap[1].timer \in Threads
                 /\ IsDue(x[1].heap[1].time, now)
<1>1. /\ x = <<x[1], x[2]>> /\ x[1] \in Queues /\ x[2] \in Seq(Threads) /\ Placed(x[1])
  BY DEF Takes
<1>2. Sound(x[1])
  BY <1>1, SoundIsPlaced
<1>3. x[1].heap \in Seq(Entries) /\ Len(x[1].heap) \in Nat
  BY <1>1, QueueParts
<1>4. ASSUME x \notin TakeStop(now)
      PROVE  /\ 1 \in 1..Len(x[1].heap) /\ x[1].heap[1].timer \in Threads
             /\ IsDue(x[1].heap[1].time, now)
  <2>1. x[1].heap # <<>> /\ IsDue(x[1].heap[1].time, now)
    BY <1>4 DEF TakeStop
  <2>2. 1 \in 1..Len(x[1].heap)
    BY <1>3, <2>1
  <2> QED
    BY <1>1, <2>1, <2>2, QueueParts
<1> QED
  BY <1>1, <1>2, <1>3, <1>4

(* The loop body of get_ready_timers stays within its domain.              *)
LEMMA TakeNextType == ASSUME NEW now PROVE TakeNext(now) \in [Takes -> Takes]
<1>1. ASSUME NEW x \in Takes, x \notin TakeStop(now)
      PROVE  <<remove_timer(x[1], x[1].heap[1].timer),
               Append(x[2], x[1].heap[1].timer)>> \in Takes
  <2>1. /\ Sound(x[1]) /\ x[2] \in Seq(Threads)
        /\ 1 \in 1..Len(x[1].heap) /\ x[1].heap[1].timer \in Threads
    BY <1>1, TakeParts
  <2>2. Sound(remove_timer(x[1], x[1].heap[1].timer))
    BY <2>1, Dequeue
  <2>3. Append(x[2], x[1].heap[1].timer) \in Seq(Threads)
    BY <2>1
  <2> QED
    BY <2>2, <2>3, SoundIsPlaced DEF Takes
<1> QED
  BY <1>1 DEF TakeNext

(* get_ready_timers is this loop, from an empty sequence of timers.        *)
LEMMA TakeIsLoop ==
    ASSUME NEW now
    PROVE  \E f : /\ IsLoop(f, Takes, TakeNext(now), TakeStop(now), TakeResult)
                  /\ \A q : get_ready_timers(q, now) = f[<<q, <<>>>>]
<1> DEFINE Body(g) ==
      [x \in Takes |->
         IF x[1].heap = <<>> \/ ~IsDue(x[1].heap[1].time, now)
         THEN [queue |-> x[1], ops |-> x[2]]
         ELSE g[<<remove_timer(x[1], x[1].heap[1].timer), Append(x[2], x[1].heap[1].timer)>>]]
      f == CHOOSE g : g = Body(g)
<1>1. \A q : get_ready_timers(q, now) = f[<<q, <<>>>>]
  BY DEF get_ready_timers, Takes
<1>2. ASSUME NEW g
      PROVE  IsLoop(g, Takes, TakeNext(now), TakeStop(now), TakeResult) <=> g = Body(g)
  <2>1. ASSUME NEW x \in Takes
        PROVE  (IF x \in TakeStop(now) THEN TakeResult[x] ELSE g[TakeNext(now)[x]]) = Body(g)[x]
    BY DEF TakeStop, TakeResult, TakeNext
  <2>2. [x \in Takes |-> IF x \in TakeStop(now) THEN TakeResult[x] ELSE g[TakeNext(now)[x]]]
          = Body(g)
    BY <2>1
  <2> QED
    BY <2>2 DEF IsLoop
<1>3. \E g : IsLoop(g, Takes, TakeNext(now), TakeStop(now), TakeResult)
  <2>1. TakeStop(now) \in SUBSET Takes
    BY DEF TakeStop
  <2> QED
    BY <2>1, TakeNextType, LoopExists
<1> HIDE DEF Body
<1>4. f = Body(f)
  BY <1>2, <1>3
<1> HIDE DEF f
<1>5. IsLoop(f, Takes, TakeNext(now), TakeStop(now), TakeResult)
  BY <1>2, <1>4
<1> QED
  BY <1>1, <1>5

(* A timer has one entry.                                                  *)
LEMMA OneEntry ==
    ASSUME NEW q, Sound(q), NEW d \in Pending(q), NEW e \in Pending(q), d.timer = e.timer
    PROVE  d = e
<1>1. PICK i \in 1..Len(q.heap) : d = q.heap[i]
  BY DEF Pending
<1>2. PICK j \in 1..Len(q.heap) : e = q.heap[j]
  BY DEF Pending
<1>3. i = j
  BY <1>1, <1>2 DEF Sound, Indexed
<1> QED
  BY <1>1, <1>2, <1>3

(* What an entry is.                                                       *)
LEMMA PendingType ==
    ASSUME NEW q \in Queues, NEW e \in Pending(q)
    PROVE  e.time \in Int /\ e.timer \in Threads
BY QueueParts DEF Pending

(* A turn of the loop.                                                     *)
LEMMA TakeStep ==
    ASSUME NEW q, Sound(q), NEW s, NEW ops, NEW now \in Int, TakenOff(q, s, ops, now),
           1 \in 1..Len(s.heap), IsDue(s.heap[1].time, now)
    PROVE  TakenOff(q, remove_timer(s, s.heap[1].timer), Append(ops, s.heap[1].timer), now)
<1> DEFINE f == s.heap[1]
           r == remove_timer(s, f.timer)
           n == Len(ops)
           o == Append(ops, f.timer)
<1>1. /\ Sound(s) /\ Ordered(s) /\ ops \in Seq(Threads) /\ Pending(s) \subseteq Pending(q)
  BY DEF TakenOff
<1>2. s \in Queues /\ q \in Queues /\ f \in Pending(s) /\ f \in Pending(q)
  BY <1>1 DEF Sound, Pending
<1>3. f.time \in Int /\ f.timer \in Threads /\ f.time <= now
  <2>1. f.time \in Int /\ f.timer \in Threads
    BY <1>2, PendingType
  <2> QED
    BY <2>1 DEF IsDue
<1>4. \A e \in Pending(s) : f.time <= e.time
  BY <1>1, <1>2, FirstIsEarliest DEF Pending
<1>5. Sound(r) /\ Ordered(r) /\ Pending(r) = Pending(s) \ {f}
  BY <1>1, Dequeue
<1> HIDE DEF f, r
<1>6. n \in Nat /\ o \in Seq(Threads) /\ Len(o) = n + 1 /\ o[n + 1] = f.timer
  BY <1>1, <1>3
<1>7. \A k \in 1..n : o[k] = ops[k]
  BY <1>1, <1>3
<1> HIDE DEF o
<1>8. \A k \in 1..Len(o) : k = n + 1 \/ k \in 1..n
  BY <1>6
<1>9. \A k \in 1..n : \E e \in Pending(q) \ Pending(s) : e.timer = ops[k] /\ e.time <= now
  BY DEF TakenOff
<1>10. ASSUME NEW k \in 1..Len(o)
       PROVE  \E e \in Pending(q) \ Pending(r) : e.timer = o[k] /\ e.time <= now
  <2>1. CASE k = n + 1
    BY <1>2, <1>3, <1>5, <1>6, <2>1
  <2>2. CASE k \in 1..n
    BY <1>5, <1>7, <1>9, <2>2
  <2> QED
    BY <1>8, <2>1, <2>2
<1>11. ASSUME NEW e \in Pending(q) \ Pending(r) PROVE \E k \in 1..Len(o) : o[k] = e.timer
  <2>0. n + 1 \in 1..Len(o) /\ \A k \in 1..n : k \in 1..Len(o)
    BY <1>6
  <2>1. CASE e = f
    BY <1>6, <2>0, <2>1
  <2>2. CASE e # f
    <3>1. e \in Pending(q) \ Pending(s)
      BY <1>5, <1>11, <2>2
    <3>2. PICK k \in 1..n : ops[k] = e.timer
      BY <3>1 DEF TakenOff
    <3> QED
      BY <1>7, <2>0, <3>2
  <2> QED
    BY <2>1, <2>2
<1>12. \A k \in 1..n : o[k] # f.timer
  BY <1>2, <1>7, <1>9, OneEntry
<1>13. ASSUME NEW k \in 1..Len(o), NEW l \in 1..Len(o), o[k] = o[l] PROVE k = l
  <2>1. CASE k \in 1..n /\ l \in 1..n
    BY <1>7, <1>13, <2>1 DEF TakenOff
  <2> QED
    BY <1>6, <1>8, <1>12, <1>13, <2>1
<1>14. \A d \in Pending(q) \ Pending(s), e \in Pending(s) : d.time <= e.time
  BY DEF TakenOff
<1>15. ASSUME NEW k \in 1..(Len(o) - 1), NEW d \in Pending(q), NEW e \in Pending(q),
              d.timer = o[k], e.timer = o[k + 1]
       PROVE  d.time <= e.time
  <2>1. k \in 1..n /\ o[k] = ops[k]
    BY <1>6, <1>7
  <2>2. CASE k = n
    <3>1. e.timer = f.timer
      BY <1>6, <1>15, <2>2
    <3>2. e = f
      BY <1>2, <3>1, OneEntry
    <3>3. d \in Pending(q) \ Pending(s)
      <4>1. PICK c \in Pending(q) \ Pending(s) : c.timer = ops[k]
        BY <1>9, <2>1
      <4>2. c = d
        BY <1>15, <2>1, <4>1, OneEntry
      <4> QED
        BY <4>1, <4>2
    <3> QED
      BY <1>2, <1>14, <3>2, <3>3
  <2>3. CASE k # n
    <3>1. k \in 1..(n - 1) /\ k + 1 \in 1..n
      BY <1>6, <2>1, <2>3
    <3>2. o[k + 1] = ops[k + 1]
      BY <1>7, <3>1
    <3> QED
      BY <1>15, <2>1, <3>1, <3>2 DEF TakenOff
  <2> QED
    BY <2>2, <2>3
<1>16. ASSUME NEW d \in Pending(q) \ Pending(r), NEW e \in Pending(r) PROVE d.time <= e.time
  BY <1>4, <1>5, <1>14, <1>16
<1>17. Pending(r) \subseteq Pending(q)
  BY <1>1, <1>5
<1>18. TakenOff(q, r, o, now)
  BY <1>5, <1>6, <1>10, <1>11, <1>13, <1>15, <1>16, <1>17 DEF TakenOff
<1> QED
  BY <1>18 DEF r, o, f

(* get_ready_timers takes off what is due and leaves a heap.               *)
LEMMA GetReady ==
    ASSUME NEW q, Sound(q), Ordered(q), NEW now \in Int
    PROVE  Ready(q, get_ready_timers(q, now), now)
<1>1. PICK f : /\ IsLoop(f, Takes, TakeNext(now), TakeStop(now), TakeResult)
               /\ get_ready_timers(q, now) = f[<<q, <<>>>>]
  BY TakeIsLoop
<1> DEFINE P == {x \in Takes : TakenOff(q, x[1], x[2], now)}
           m == [x \in Takes |-> Len(x[1].heap)]
<1>2. <<q, <<>>>> \in P
  <2>1. TakenOff(q, q, <<>>, now)
    BY DEF TakenOff
  <2>2. <<q, <<>>>> \in Takes
    <3>1. q \in Queues /\ Placed(q)
      BY SoundIsPlaced
    <3>2. <<>> \in Seq(Threads)
      OBVIOUS
    <3>3. <<q, <<>>>> \in Queues \X Seq(Threads)
      BY <3>1, <3>2
    <3> QED
      BY <3>1, <3>3 DEF Takes
  <2> QED
    BY <2>1, <2>2
<1>3. ASSUME NEW x \in P, x \notin TakeStop(now)
      PROVE  TakeNext(now)[x] \in P /\ m[TakeNext(now)[x]] < m[x]
  <2> DEFINE s == x[1]
             r == remove_timer(s, s.heap[1].timer)
             o == Append(x[2], s.heap[1].timer)
  <2>1. x \in Takes /\ TakenOff(q, s, x[2], now)
    OBVIOUS
  <2>2. Sound(s) /\ 1 \in 1..Len(s.heap) /\ IsDue(s.heap[1].time, now) /\ Len(s.heap) \in Nat
    BY <1>3, <2>1, TakeParts
  <2>3. TakenOff(q, r, o, now)
    BY <2>1, <2>2, TakeStep
  <2>4. Len(r.heap) = Len(s.heap) - 1
    BY <2>2, Dequeue
  <2>5. TakeNext(now)[x] = <<r, o>> /\ TakeNext(now)[x] \in Takes
    BY <1>3, <2>1, TakeNextType DEF TakeNext
  <2> HIDE DEF r, o
  <2>6. m[<<r, o>>] = Len(s.heap) - 1 /\ m[x] = Len(s.heap)
    BY <2>1, <2>4, <2>5
  <2>7. Len(s.heap) - 1 < Len(s.heap)
    BY <2>2
  <2> QED
    BY <2>3, <2>5, <2>6, <2>7
<1>4. m \in [Takes -> Nat]
  BY TakeParts
<1>5. P \in SUBSET Takes /\ Closed(P, TakeNext(now), TakeStop(now))
  BY <1>3 DEF Closed
<1>6. CountsDown(P, TakeNext(now), TakeStop(now), m) /\ TakeStop(now) \in SUBSET Takes
  BY <1>3 DEF CountsDown, TakeStop
<1> HIDE DEF P, m
<1>7. EndsIn(P, f, <<q, <<>>>>, TakeStop(now), TakeResult)
  BY <1>1, <1>2, <1>4, <1>5, <1>6, TakeNextType, LoopEnds
<1>8. PICK y \in P : y \in TakeStop(now) /\ f[<<q, <<>>>>] = TakeResult[y]
  BY <1>7 DEF EndsIn
<1>9. /\ y \in Takes /\ get_ready_timers(q, now) = [queue |-> y[1], ops |-> y[2]]
      /\ TakenOff(q, y[1], y[2], now)
      /\ (y[1].heap = <<>> \/ ~IsDue(y[1].heap[1].time, now))
  BY <1>1, <1>8 DEF P, TakeResult, TakeStop
<1>10. ASSUME NEW e \in Pending(y[1]) PROVE now < e.time
  <2>1. y[1] \in Queues /\ y[1].heap \in Seq(Entries) /\ Len(y[1].heap) \in Nat /\ Ordered(y[1])
    BY <1>9, TakeParts, QueueParts DEF TakenOff
  <2>2. PICK i \in 1..Len(y[1].heap) : e = y[1].heap[i]
    BY DEF Pending
  <2>3. 1 \in 1..Len(y[1].heap) /\ y[1].heap # <<>>
    BY <2>1
  <2>4. y[1].heap[1].time <= e.time
    BY <2>1, <2>2, FirstIsEarliest
  <2>5. now < y[1].heap[1].time
    BY <1>9, <2>3 DEF IsDue
  <2>6. y[1].heap[1].time \in Int /\ e.time \in Int
    BY <2>1, <2>2, <2>3, QueueParts
  <2> QED
    BY <2>4, <2>5, <2>6
<1> QED
  BY <1>9, <1>10 DEF Ready

----------------------------------------------------------------------------
(* Sequences and timeouts.                                                 *)

(* The elements of a sequence.                                             *)
LEMMA Elements ==
    ASSUME NEW S, NEW a \in Seq(S)
    PROVE  Len(a) \in Nat /\ DOMAIN a = 1..Len(a) /\ ToSet(a) = {a[i] : i \in 1..Len(a)}
BY DEF ToSet

(* Two sequences, one after the other.                                     *)
LEMMA Concat ==
    ASSUME NEW S, NEW a \in Seq(S), NEW b \in Seq(S)
    PROVE  /\ a \o b \in Seq(S) /\ Len(a \o b) = Len(a) + Len(b)
           /\ \A i \in 1..Len(a) : (a \o b)[i] = a[i]
           /\ \A i \in 1..Len(b) : (a \o b)[Len(a) + i] = b[i]
           /\ \A i \in 1..(Len(a) + Len(b)) :
                 i \in 1..Len(a) \/ \E j \in 1..Len(b) : i = Len(a) + j
           /\ ToSet(a \o b) = ToSet(a) \cup ToSet(b)
<1>1. a \o b \in Seq(S) /\ Len(a \o b) = Len(a) + Len(b) /\ Len(a) \in Nat /\ Len(b) \in Nat
  OBVIOUS
<1>2. \A i \in 1..Len(a) : (a \o b)[i] = a[i]
  OBVIOUS
<1>3. \A i \in 1..Len(b) : (a \o b)[Len(a) + i] = b[i]
  OBVIOUS
<1>4. ASSUME NEW i \in 1..(Len(a) + Len(b)), i \notin 1..Len(a)
      PROVE  \E j \in 1..Len(b) : i = Len(a) + j
  <2>1. i - Len(a) \in 1..Len(b) /\ i = Len(a) + (i - Len(a))
    BY <1>1, <1>4
  <2> QED
    BY <2>1
<1> DEFINE c == a \o b
<1>5. Len(c) = Len(a) + Len(b) /\ c \in Seq(S)
  BY <1>1
<1>6. /\ \A i \in 1..Len(a) : c[i] = a[i] /\ i \in 1..Len(c)
      /\ \A i \in 1..Len(b) : c[Len(a) + i] = b[i] /\ Len(a) + i \in 1..Len(c)
  BY <1>1, <1>2, <1>3
<1> HIDE DEF c
<1>7. ToSet(c) = {c[i] : i \in 1..Len(c)}
  BY <1>5, Elements
<1>8. ToSet(a) = {a[i] : i \in 1..Len(a)} /\ ToSet(b) = {b[i] : i \in 1..Len(b)}
  BY Elements
<1>9. ToSet(c) = ToSet(a) \cup ToSet(b)
  <2>1. ASSUME NEW i \in 1..Len(c) PROVE c[i] \in ToSet(a) \cup ToSet(b)
    <3>1. CASE i \in 1..Len(a)
      BY <1>6, <1>8, <3>1
    <3>2. CASE i \notin 1..Len(a)
      <4>1. PICK j \in 1..Len(b) : i = Len(a) + j
        BY <1>4, <1>5, <3>2
      <4>2. c[i] = b[j]
        BY <1>6, <4>1
      <4> QED
        BY <1>8, <4>2
    <3> QED
      BY <3>1, <3>2
  <2>2. ToSet(a) \subseteq ToSet(c)
    BY <1>6, <1>7, <1>8
  <2>3. ToSet(b) \subseteq ToSet(c)
    BY <1>6, <1>7, <1>8
  <2> QED
    BY <1>7, <2>1, <2>2, <2>3
<1> QED
  BY <1>1, <1>2, <1>3, <1>4, <1>9 DEF c

(* No element twice in two sequences without a common element.             *)
LEMMA ConcatInjective ==
    ASSUME NEW S, NEW a \in Seq(S), NEW b \in Seq(S), IsInjective(a),
           \A i, j \in 1..Len(b) : b[i] = b[j] => i = j,
           ToSet(a) \cap ToSet(b) = {}
    PROVE  IsInjective(a \o b)
<1> DEFINE c == a \o b
<1>1. /\ c \in Seq(S) /\ Len(c) = Len(a) + Len(b)
      /\ \A i \in 1..Len(a) : c[i] = a[i]
      /\ \A i \in 1..Len(b) : c[Len(a) + i] = b[i]
      /\ \A i \in 1..Len(c) : i \in 1..Len(a) \/ \E j \in 1..Len(b) : i = Len(a) + j
  <2>1. c \in Seq(S) /\ Len(c) = Len(a) + Len(b)
    BY Concat
  <2> QED
    BY <2>1, Concat
<1>2. /\ DOMAIN a = 1..Len(a) /\ ToSet(a) = {a[i] : i \in 1..Len(a)}
      /\ ToSet(b) = {b[i] : i \in 1..Len(b)} /\ DOMAIN c = 1..Len(c)
  BY <1>1, Elements
<1> HIDE DEF c
<1>3. ASSUME NEW k \in 1..Len(c), NEW l \in 1..Len(c), c[k] = c[l] PROVE k = l
  <2>1. CASE k \in 1..Len(a) /\ l \in 1..Len(a)
    BY <1>1, <1>2, <1>3, <2>1 DEF IsInjective
  <2>2. ASSUME NEW i \in 1..Len(c)
        PROVE  /\ i \in 1..Len(a) => c[i] \in ToSet(a)
               /\ i \notin 1..Len(a) => c[i] \in ToSet(b)
    <3>1. CASE i \in 1..Len(a)
      BY <1>1, <1>2, <3>1
    <3>2. CASE i \notin 1..Len(a)
      <4>1. PICK j \in 1..Len(b) : i = Len(a) + j
        BY <1>1, <3>2
      <4>2. c[i] = b[j]
        BY <1>1, <4>1
      <4> QED
        BY <1>2, <3>2, <4>2
    <3> QED
      BY <3>1, <3>2
  <2>3. k \in 1..Len(a) <=> l \in 1..Len(a)
    BY <1>3, <2>2
  <2>4. CASE k \notin 1..Len(a) /\ l \notin 1..Len(a)
    BY <1>1, <1>3, <2>4
  <2> QED
    BY <2>1, <2>3, <2>4
<1> QED
  BY <1>2, <1>3 DEF IsInjective, c

(* What was appended.                                                      *)
LEMMA Appended ==
    ASSUME NEW S, NEW a \in Seq(S), NEW b \in Seq(S)
    PROVE  SubSeq(a \o b, Len(a) + 1, Len(a \o b)) = b
<1> DEFINE c == a \o b
           m == Len(a) + 1
           n == Len(a) + Len(b)
<1>1. /\ c \in Seq(S) /\ Len(c) = n /\ m \in Int /\ n \in Int /\ Len(b) \in Nat
      /\ \A i \in 1..Len(b) : c[Len(a) + i] = b[i]
  BY Concat
<1>2. \A i \in m..n : c[i] \in S
  <2>1. \A i \in m..n : i \in 1..n
    OBVIOUS
  <2> HIDE DEF c, m, n
  <2> QED
    BY <1>1, <2>1
<1>3. n - m + 1 = Len(b) /\ (m <= n <=> Len(b) > 0)
  OBVIOUS
<1>4. \A i \in 1..Len(b) : m + i - 1 = Len(a) + i
  OBVIOUS
<1> HIDE DEF c, m, n
<1>5. /\ SubSeq(c, m, n) \in Seq(S)
      /\ Len(SubSeq(c, m, n)) = IF m <= n THEN n - m + 1 ELSE 0
      /\ \A i \in 1..(n - m + 1) : SubSeq(c, m, n)[i] = c[m + i - 1]
  BY <1>1, <1>2, SubSeqProperties
<1>6. Len(SubSeq(c, m, n)) = Len(b)
  BY <1>1, <1>3, <1>5
<1>7. \A i \in 1..Len(b) : SubSeq(c, m, n)[i] = b[i]
  BY <1>1, <1>3, <1>4, <1>5
<1>8. SubSeq(c, m, n) = b
  <2> DEFINE z == SubSeq(c, m, n)
  <2>1. z \in Seq(S) /\ Len(z) = Len(b) /\ \A i \in 1..Len(b) : z[i] = b[i]
    BY <1>5, <1>6, <1>7
  <2> HIDE DEF z
  <2>2. z = b
    BY <2>1
  <2> QED
    BY <2>2 DEF z
<1> QED
  BY <1>1, <1>8 DEF c, m, n

(* The rest of a sequence without an element twice.                        *)
LEMMA Rest ==
    ASSUME NEW S, NEW a \in Seq(S), a # <<>>, IsInjective(a)
    PROVE  /\ Head(a) \in S /\ Tail(a) \in Seq(S) /\ IsInjective(Tail(a))
           /\ Head(a) \in ToSet(a) /\ ToSet(Tail(a)) = ToSet(a) \ {Head(a)}
           /\ \A i \in 1..Len(Tail(a)) : i + 1 \in 1..Len(a) /\ Tail(a)[i] = a[i + 1]
<1>1. /\ Head(a) \in S /\ Tail(a) \in Seq(S) /\ Len(Tail(a)) = Len(a) - 1
      /\ \A i \in 1..Len(Tail(a)) : Tail(a)[i] = a[i + 1]
  BY HeadTailProperties
<1>2. Len(a) \in Nat /\ Head(a) = a[1] /\ 1 \in 1..Len(a)
  OBVIOUS
<1>3. \A i \in 1..Len(Tail(a)) : i + 1 \in 1..Len(a) /\ i + 1 # 1
  BY <1>1, <1>2
<1>4. \A i \in 1..Len(a) : i = 1 \/ \E j \in 1..Len(Tail(a)) : i = j + 1
  <2>1. ASSUME NEW i \in 1..Len(a), i # 1 PROVE i - 1 \in 1..Len(Tail(a)) /\ i = (i - 1) + 1
    BY <1>1, <1>2, <2>1
  <2> QED
    BY <2>1
<1> DEFINE b == Tail(a)
<1>5. /\ ToSet(a) = {a[i] : i \in 1..Len(a)} /\ DOMAIN a = 1..Len(a)
      /\ ToSet(b) = {b[i] : i \in 1..Len(b)} /\ DOMAIN b = 1..Len(b)
  BY <1>1, Elements
<1>6. \A i, j \in 1..Len(a) : a[i] = a[j] => i = j
  BY <1>5 DEF IsInjective
<1>7. Len(b) \in Nat /\ \A i \in 1..Len(b) : b[i] = a[i + 1] /\ i + 1 \in 1..Len(a) /\ i + 1 # 1
  BY <1>1, <1>3
<1> HIDE DEF b
<1>8. IsInjective(b)
  <2>1. ASSUME NEW i \in 1..Len(b), NEW j \in 1..Len(b), b[i] = b[j] PROVE i = j
    <3>1. i + 1 = j + 1
      BY <1>6, <1>7, <2>1
    <3> QED
      BY <1>7, <3>1
  <2> QED
    BY <1>5, <2>1 DEF IsInjective
<1>9. ToSet(b) = ToSet(a) \ {a[1]}
  <2>1. \A i \in 1..Len(b) : b[i] \in ToSet(a) /\ b[i] # a[1]
    BY <1>2, <1>5, <1>6, <1>7
  <2>2. \A i \in 1..Len(a) : a[i] = a[1] \/ a[i] \in ToSet(b)
    <3>1. ASSUME NEW i \in 1..Len(a), i # 1 PROVE a[i] \in ToSet(b)
      <4>1. PICK j \in 1..Len(b) : i = j + 1
        BY <1>4, <3>1 DEF b
      <4>2. a[i] = b[j]
        BY <1>7, <4>1
      <4> QED
        BY <1>5, <4>2
    <3> QED
      BY <3>1
  <2> QED
    BY <1>5, <2>1, <2>2
<1>10. a[1] \in ToSet(a)
  BY <1>2, <1>5
<1> QED
  BY <1>1, <1>2, <1>3, <1>8, <1>9, <1>10 DEF b

(* Max and Min of two.                                                     *)
LEMMA MaxMin ==
    ASSUME NEW a \in Int, NEW b \in Int
    PROVE  /\ Max({a, b}) = IF a < b THEN b ELSE a
           /\ Min({a, b}) = IF a < b THEN a ELSE b
<1>1. Max({a, b}) = IF a < b THEN b ELSE a
  <2> DEFINE m == IF a < b THEN b ELSE a
  <2>1. m \in {a, b} /\ \A y \in {a, b} : m >= y
    OBVIOUS
  <2>2. \A x \in {a, b} : (\A y \in {a, b} : x >= y) => x = m
    OBVIOUS
  <2> HIDE DEF m
  <2>3. (CHOOSE x \in {a, b} : \A y \in {a, b} : x >= y) = m
    BY <2>1, <2>2
  <2> QED
    BY <2>3 DEF Max, m
<1>2. Min({a, b}) = IF a < b THEN a ELSE b
  <2> DEFINE m == IF a < b THEN a ELSE b
  <2>1. m \in {a, b} /\ \A y \in {a, b} : m <= y
    OBVIOUS
  <2>2. \A x \in {a, b} : (\A y \in {a, b} : x <= y) => x = m
    OBVIOUS
  <2> HIDE DEF m
  <2>3. (CHOOSE x \in {a, b} : \A y \in {a, b} : x <= y) = m
    BY <2>1, <2>2
  <2> QED
    BY <2>3 DEF Min, m
<1> QED
  BY <1>1, <1>2

(* wait_duration is at most MaxWait, and unless it is 0 at most what is    *)
(* left to the first timer.                                                *)
LEMMA WaitDuration ==
    ASSUME NEW q \in Queues, mono \in Int, offset \in Int
    PROVE  /\ wait_duration(q) \in 0..MaxWait
           /\ q.heap # <<>> /\ wait_duration(q) # 0 => wait_duration(q) <= q.heap[1].time - Now
<1>1. MaxWait \in Nat
  BY TimerAssumption
<1>2. CASE q.heap = <<>>
  BY <1>1, <1>2 DEF wait_duration
<1>3. CASE q.heap # <<>>
  <2>1. q.heap[1].time \in Int
    <3>1. 1 \in 1..Len(q.heap)
      BY <1>3, QueueParts
    <3> QED
      BY <3>1, QueueParts
  <2> DEFINE l == q.heap[1].time - Now
             m == Max({0, l})
  <2>2. l \in Int
    BY <2>1 DEF Now
  <2> HIDE DEF l
  <2>3. m = (IF 0 < l THEN l ELSE 0) /\ m \in Int
    BY <2>2, MaxMin
  <2> HIDE DEF m
  <2>4. Min({MaxWait, m}) = IF MaxWait < m THEN MaxWait ELSE m
    BY <1>1, <2>3, MaxMin
  <2>5. wait_duration(q) = IF MaxWait < m THEN MaxWait ELSE m
    BY <1>3, <2>4 DEF wait_duration, m, l
  <2>6. wait_duration(q) \in 0..MaxWait /\ (wait_duration(q) # 0 => wait_duration(q) <= l)
    BY <1>1, <2>2, <2>3, <2>5
  <2> QED
    BY <2>6 DEF l
<1> QED
  BY <1>2, <1>3

----------------------------------------------------------------------------
(* The invariant.                                                          *)

(* While the system clock was not set, the heap holds the time each sleep  *)
(* should end, but for what the conversion has cut off.                    *)
Punctual ==
    steps = 0 =>
       /\ offset = 0
       /\ \A e \in Pending(queue) : Reaches(e.time, due[e.timer])
       /\ \A i \in 1..Len(op_queue) : Reaches(mono, due[op_queue[i]])

IInv == TypeOK /\ HeapSound /\ ArmedInTime /\ Punctual

(* HeapSound and ArmedInTime of a queue.                                   *)
HeapState(q, ops, a) ==
    /\ Sound(q) /\ Ordered(q) /\ IsInjective(ops)
    /\ Timers(q) \cap ToSet(ops) = {}
    /\ Timers(q) \cup ToSet(ops) = {t \in Threads : a[t] = "sleep"}

Armed(q, fd, off) == fd # -1 /\ (fd = 0 \/ fd <= q.heap[1].time - off)

(* HeapSound is HeapState of the variables.                                *)
LEMMA HeapStates ==
    /\ TypeOK => (HeapSound <=> HeapState(queue, op_queue, at))
    /\ TypeOK' => (HeapSound' <=> HeapState(queue', op_queue', at'))
<1>1. /\ HeapSound <=> /\ Ordered(queue) /\ Placed(queue) /\ IsInjective(op_queue)
                       /\ Timers(queue) \cap ToSet(op_queue) = {}
                       /\ Timers(queue) \cup ToSet(op_queue) = {t \in Threads : at[t] = "sleep"}
  BY DEF HeapSound, Ordered, Expiring
<1>2. /\ HeapSound' <=> /\ Ordered(queue') /\ Placed(queue') /\ IsInjective(op_queue')
                        /\ Timers(queue') \cap ToSet(op_queue') = {}
                        /\ Timers(queue') \cup ToSet(op_queue')
                              = {t \in Threads : at'[t] = "sleep"}
  BY DEF HeapSound, Ordered, Expiring
<1>3. (TypeOK => queue \in Queues) /\ (TypeOK' => queue' \in Queues)
  BY DEF TypeOK
<1> QED
  BY <1>1, <1>2, <1>3, SoundIsPlaced DEF HeapState

(* The timers of a queue are those of its entries.                         *)
LEMMA TimersOf == \A q : Timers(q) = {e.timer : e \in Pending(q)}
BY DEF Timers, Pending

(* update_timeout arms the timerfd in time for the first timer.            *)
LEMMA Arms ==
    ASSUME TypeOK, NEW q \in Queues, update_timeout(q)
    PROVE  /\ timer_fd' \in -1..(mono + MaxWait) /\ seen' \in Int
           /\ q.heap # <<>> => Armed(q, timer_fd', seen')
<1>1. mono \in Nat /\ offset \in Int /\ MaxWait \in Nat
  BY TimerAssumption DEF TypeOK
<1> DEFINE w == wait_duration(q)
<1>2. w \in 0..MaxWait /\ (q.heap # <<>> /\ w # 0 => w <= q.heap[1].time - Now)
  BY <1>1, WaitDuration
<1>3. timer_fd' = (IF w = 0 THEN 0 ELSE mono + w) /\ seen' = offset
  BY DEF update_timeout
<1> HIDE DEF w
<1>4. timer_fd' \in -1..(mono + MaxWait)
  BY <1>1, <1>2, <1>3
<1>5. ASSUME q.heap # <<>> PROVE Armed(q, timer_fd', seen')
  <2>1. q.heap[1].time \in Int
    <3>1. 1 \in 1..Len(q.heap)
      BY <1>5, QueueParts
    <3> QED
      BY <3>1, QueueParts
  <2>2. CASE w = 0
    BY <1>3, <2>2 DEF Armed
  <2>3. CASE w # 0
    <3>1. mono + w # -1 /\ mono + w <= q.heap[1].time - offset
      BY <1>1, <1>2, <1>5, <2>1, <2>3 DEF Now
    <3> QED
      BY <1>3, <2>3, <3>1 DEF Armed
  <2> QED
    BY <2>2, <2>3
<1> QED
  BY <1>1, <1>3, <1>4, <1>5

(* The invariant holds at the start.                                       *)
LEMMA InitIInv == Init => IInv
<1>1. SUFFICES ASSUME Init PROVE IInv
  OBVIOUS
<1>2. /\ mono = 0 /\ offset = 0 /\ steps = 0
      /\ queue = [heap |-> <<>>, index |-> [t \in Threads |-> 0]]
      /\ timer_fd = -1 /\ seen = 0 /\ checking = FALSE
      /\ op_queue = <<>>
      /\ at = [t \in Threads |-> "run"] /\ due = [t \in Threads |-> 0]
  BY <1>1 DEF Init
<1>3. queue.heap = <<>> /\ queue.index = [t \in Threads |-> 0] /\ queue \in Queues
  <2>1. <<>> \in Seq(Entries) /\ [t \in Threads |-> 0] \in [Threads -> Nat]
    OBVIOUS
  <2> QED
    BY <1>2, <2>1 DEF Queues
<1>4. TypeOK
  <2>1. mono \in 0..MaxTime /\ offset \in Int /\ steps \in 0..MaxSteps
    BY <1>2, TimerAssumption
  <2>2. timer_fd \in -1..mono + MaxWait /\ seen \in Int
    <3>1. MaxWait \in Nat /\ mono = 0 /\ timer_fd = -1 /\ seen = 0
      BY <1>2, TimerAssumption
    <3> QED
      BY <3>1
  <2>3. checking \in BOOLEAN
    BY <1>2
  <2>4. op_queue \in Seq(Threads)
    BY <1>2
  <2>5. at \in [Threads -> {"run", "sleep"}] /\ due \in [Threads -> Int]
    BY <1>2
  <2> QED
    BY <1>3, <2>1, <2>2, <2>3, <2>4, <2>5 DEF TypeOK
<1>5. Pending(queue) = {} /\ Timers(queue) = {} /\ Len(queue.heap) = 0 /\ ToSet(op_queue) = {}
  <2>1. Len(queue.heap) = 0 /\ 1..0 = {}
    BY <1>3
  <2>2. ToSet(op_queue) = {}
    BY <1>2 DEF ToSet
  <2> QED
    BY <2>1, <2>2 DEF Pending, Timers
<1>6. HeapSound
  <2>1. Ordered(queue)
    BY <1>5 DEF Ordered
  <2>2. Sound(queue)
    BY <1>3, <1>5 DEF Sound, Indexed
  <2>3. IsInjective(op_queue)
    BY <1>2 DEF IsInjective
  <2>4. {t \in Threads : at[t] = "sleep"} = {}
    BY <1>2
  <2> QED
    BY <1>4, <1>5, <2>1, <2>2, <2>3, <2>4, HeapStates DEF HeapState
<1>7. ArmedInTime
  BY <1>3 DEF ArmedInTime
<1>8. Punctual
  <2>1. Len(op_queue) = 0
    BY <1>2
  <2> QED
    BY <1>2, <1>5, <2>1 DEF Punctual
<1> QED
  BY <1>4, <1>6, <1>7, <1>8 DEF IInv

(* The conversion of asio_sleep cuts off less than a millisecond.          *)
LEMMA CutShort ==
    ASSUME NEW d \in Int
    PROVE  WholeMillis(d) \in Int /\ Reaches(WholeMillis(d), d)
<1>1. Milli \in Nat /\ Milli > 0
  BY TimerAssumption
<1>2. CASE d >= 0
  <2>1. d % Milli \in Nat /\ d % Milli < Milli
    BY <1>1
  <2>2. WholeMillis(d) = d - (d % Milli)
    BY <1>2 DEF WholeMillis
  <2> QED
    BY <1>1, <2>1, <2>2 DEF Reaches
<1>3. CASE ~(d >= 0)
  <2>1. (-d) % Milli \in Nat
    BY <1>1
  <2>2. WholeMillis(d) = d + ((-d) % Milli)
    BY <1>3 DEF WholeMillis
  <2> QED
    BY <1>1, <2>1, <2>2 DEF Reaches
<1> QED
  BY <1>2, <1>3

(* Time that has passed is not lost.                                       *)
LEMMA ReachesLater ==
    ASSUME NEW x \in Int, NEW y \in Int, NEW z \in Int, x <= y, Reaches(x, z)
    PROVE  Reaches(y, z)
<1>1. Milli \in Nat
  BY TimerAssumption
<1> QED
  BY <1>1 DEF Reaches

(* A sleep.                                                                *)
LEMMA SleepStep ==
    ASSUME IInv, NEW t \in Threads, NEW d \in Durations, Sleep(t, d)
    PROVE  IInv'
<1>1. /\ TypeOK /\ HeapState(queue, op_queue, at)
  BY HeapStates DEF IInv
<1>2. /\ mono \in Nat /\ offset \in Int /\ d \in Int /\ op_queue \in Seq(Threads)
      /\ at \in [Threads -> {"run", "sleep"}] /\ due \in [Threads -> Int] /\ MaxWait \in Nat
  BY <1>1, TimerAssumption DEF TypeOK
<1>w. PICK w \in Int : w = WholeMillis(d) /\ Reaches(w, d)
  BY <1>2, CutShort
<1>3. /\ at[t] = "run" /\ ~checking
      /\ at' = [at EXCEPT ![t] = "sleep"] /\ due' = [due EXCEPT ![t] = mono + d]
      /\ queue' = enqueue_timer(queue, Now + w, t)
      /\ mono' = mono /\ offset' = offset /\ steps' = steps
      /\ checking' = checking /\ op_queue' = op_queue
  BY <1>w DEF Sleep, clockVars
<1>4. t \notin Timers(queue) /\ t \notin ToSet(op_queue)
  BY <1>1, <1>3 DEF HeapState
<1>5. Sound(queue) /\ Ordered(queue) /\ queue \in Queues
  BY <1>1 DEF HeapState, Sound
<1> DEFINE e == [time |-> Now + w, timer |-> t]
<1>6. Now + w \in Int /\ e.time = Now + w /\ e.timer = t
  BY <1>2 DEF Now
<1>7. /\ Sound(queue') /\ Ordered(queue') /\ Len(queue'.heap) = Len(queue.heap) + 1
      /\ Pending(queue') = Pending(queue) \cup {e}
  <2>1. \A i \in 1..Len(queue.heap) : queue.heap[i].timer # t
    BY <1>4 DEF Timers
  <2> QED
    BY <1>3, <1>5, <1>6, <2>1, Enqueue
<1> HIDE DEF e
<1>8. Timers(queue') = Timers(queue) \cup {t}
  BY <1>6, <1>7, TimersOf
<1>9. queue' \in Queues /\ queue'.heap # <<>> /\ 1 \in 1..Len(queue'.heap)
  <2>1. queue' \in Queues /\ Len(queue.heap) \in Nat
    BY <1>5, <1>7, QueueParts DEF Sound
  <2>2. 1 \in 1..Len(queue'.heap) /\ Len(queue'.heap) # 0
    BY <1>7, <2>1
  <2>3. queue'.heap # <<>>
    BY <2>2
  <2> QED
    BY <2>1, <2>2, <2>3
<1>10. timer_fd' \in -1..(mono + MaxWait) /\ seen' \in Int /\ Armed(queue', timer_fd', seen')
  <2>1. CASE IsEarliest(queue', t)
    <3>1. update_timeout(queue')
      BY <2>1 DEF Sleep
    <3> QED
      BY <1>1, <1>9, <3>1, Arms
  <2>2. CASE ~IsEarliest(queue', t)
    <3>1. timer_fd' = timer_fd /\ seen' = seen
      BY <2>2 DEF Sleep
    <3>2. queue'.heap[1] \in Pending(queue') /\ queue'.heap[1].timer # t
      BY <1>7, <1>9, <2>2 DEF Pending, Sound, Indexed, IsEarliest
    <3>3. queue'.heap[1] \in Pending(queue)
      BY <1>6, <1>7, <3>2
    <3>4. PICK i \in 1..Len(queue.heap) : queue'.heap[1] = queue.heap[i]
      BY <3>3 DEF Pending
    <3>5. queue.heap[1].time <= queue'.heap[1].time
      BY <1>5, <3>4, FirstIsEarliest
    <3>6. queue.heap # <<>> /\ 1 \in 1..Len(queue.heap)
      BY <1>5, <3>4, QueueParts
    <3>7. timer_fd # -1 /\ (timer_fd = 0 \/ timer_fd <= queue.heap[1].time - seen)
      BY <1>3, <3>6 DEF IInv, ArmedInTime
    <3>8. /\ queue.heap[1].time \in Int /\ queue'.heap[1].time \in Int
          /\ timer_fd \in Int /\ seen \in Int /\ timer_fd \in -1..(mono + MaxWait)
      BY <1>1, <1>2, <1>5, <3>4, <3>6, QueueParts DEF TypeOK
    <3>9. timer_fd <= queue.heap[1].time - seen => timer_fd <= queue'.heap[1].time - seen
      BY <3>5, <3>8
    <3> QED
      BY <3>1, <3>7, <3>8, <3>9 DEF Armed
  <2> QED
    BY <2>1, <2>2
<1>11. TypeOK'
  <2>1. at' \in [Threads -> {"run", "sleep"}] /\ due' \in [Threads -> Int]
    BY <1>2, <1>3
  <2> QED
    BY <1>1, <1>3, <1>9, <1>10, <2>1 DEF TypeOK
<1>12. HeapSound'
  <2>1. {s \in Threads : at'[s] = "sleep"} = {s \in Threads : at[s] = "sleep"} \cup {t}
    BY <1>2, <1>3
  <2> QED
    BY <1>1, <1>3, <1>4, <1>7, <1>8, <1>11, <2>1, HeapStates DEF HeapState
<1>13. ArmedInTime'
  BY <1>10 DEF ArmedInTime, Armed
<1>14. Punctual'
  <2>1. SUFFICES ASSUME steps = 0
                 PROVE  /\ offset = 0
                        /\ \A c \in Pending(queue') : Reaches(c.time, due'[c.timer])
                        /\ \A i \in 1..Len(op_queue) : Reaches(mono, due'[op_queue[i]])
    BY <1>3 DEF Punctual
  <2>2. /\ offset = 0 /\ \A c \in Pending(queue) : Reaches(c.time, due[c.timer])
        /\ \A i \in 1..Len(op_queue) : Reaches(mono, due[op_queue[i]])
    BY <2>1 DEF IInv, Punctual
  <2>3. ASSUME NEW c \in Pending(queue) PROVE Reaches(c.time, due'[c.timer])
    <3>1. c.timer \in Threads /\ c.timer # t
      BY <1>4, <1>5, PendingType, TimersOf
    <3> QED
      BY <1>2, <1>3, <2>2, <3>1
  <2>4. Reaches(e.time, due'[e.timer])
    <3>1. e.time = mono + w /\ due'[e.timer] = mono + d
      BY <1>2, <1>3, <1>6, <1>w, <2>2 DEF Now
    <3>2. w + Milli > d /\ Milli \in Nat
      BY <1>w, TimerAssumption DEF Reaches
    <3> QED
      BY <1>2, <1>w, <3>1, <3>2 DEF Reaches
  <2>5. ASSUME NEW i \in 1..Len(op_queue) PROVE Reaches(mono, due'[op_queue[i]])
    <3>1. op_queue[i] \in Threads /\ op_queue[i] # t
      BY <1>2, <1>4, Elements
    <3> QED
      BY <1>2, <1>3, <2>2, <3>1
  <2> QED
    BY <1>7, <2>2, <2>3, <2>4, <2>5
<1> QED
  BY <1>11, <1>12, <1>13, <1>14 DEF IInv

(* What get_ready_timers takes off, and what it leaves, by their timers.   *)
DueTimers(q, now) == {e.timer : e \in {c \in Pending(q) : c.time <= now}}

(* What it takes off are the due timers, and it leaves the others.         *)
LEMMA ReadyTimers ==
    ASSUME NEW q, Sound(q), NEW g, NEW now \in Int, Ready(q, g, now)
    PROVE  /\ g.ops \in Seq(Threads) /\ Sound(g.queue) /\ Ordered(g.queue)
           /\ Timers(q) = Timers(g.queue) \cup ToSet(g.ops)
           /\ Timers(g.queue) \cap ToSet(g.ops) = {}
           /\ ToSet(g.ops) = DueTimers(q, now)
<1> DEFINE s == g.queue
           ops == g.ops
<1>1. /\ ops \in Seq(Threads) /\ Sound(s) /\ Ordered(s) /\ Pending(s) \subseteq Pending(q)
      /\ \A k \in 1..Len(ops) :
            \E e \in Pending(q) \ Pending(s) : e.timer = ops[k] /\ e.time <= now
      /\ \A e \in Pending(q) \ Pending(s) : \E k \in 1..Len(ops) : ops[k] = e.timer
      /\ \A e \in Pending(s) : now < e.time
  BY DEF Ready, TakenOff
<1> HIDE DEF s, ops
<1>2. ToSet(ops) = {ops[k] : k \in 1..Len(ops)}
  BY <1>1, Elements
<1>3. ToSet(ops) = {e.timer : e \in Pending(q) \ Pending(s)}
  BY <1>1, <1>2
<1>4. \A e \in Pending(q) : e.time \in Int
  BY PendingType DEF Sound
<1>5. Pending(q) \ Pending(s) = {c \in Pending(q) : c.time <= now}
  <2>1. ASSUME NEW c \in Pending(q) \ Pending(s) PROVE c.time <= now
    <3>1. PICK k \in 1..Len(ops) : ops[k] = c.timer
      BY <1>1
    <3>2. PICK e \in Pending(q) \ Pending(s) : e.timer = ops[k] /\ e.time <= now
      BY <1>1
    <3>3. e = c
      BY <3>1, <3>2, OneEntry
    <3> QED
      BY <3>2, <3>3
  <2>2. ASSUME NEW c \in Pending(s) PROVE ~(c.time <= now)
    <3>1. c.time \in Int /\ now < c.time
      BY <1>1, <1>4
    <3> QED
      BY <3>1
  <2> QED
    BY <2>1, <2>2
<1>6. Timers(q) = {e.timer : e \in Pending(q)} /\ Timers(s) = {e.timer : e \in Pending(s)}
  BY TimersOf
<1>7. Timers(q) = Timers(s) \cup ToSet(ops)
  BY <1>1, <1>3, <1>6
<1>8. Timers(s) \cap ToSet(ops) = {}
  <2>1. ASSUME NEW c \in Pending(s), NEW e \in Pending(q) \ Pending(s), c.timer = e.timer
        PROVE  FALSE
    BY <1>1, <2>1, OneEntry
  <2> QED
    BY <1>3, <1>6, <2>1
<1> QED
  BY <1>1, <1>3, <1>5, <1>7, <1>8 DEF s, ops, DueTimers

(* epoll_wait reports the timerfd.                                         *)
LEMMA CheckStep == ASSUME IInv, CheckTimers PROVE IInv'
<1>1. TypeOK /\ HeapState(queue, op_queue, at)
  BY HeapStates DEF IInv
<1>2. /\ mono \in Int /\ offset \in Int /\ op_queue \in Seq(Threads) /\ Now \in Int
  BY <1>1, TimerAssumption DEF TypeOK, Now
<1> DEFINE g == get_ready_timers(queue, Now)
<1>3. /\ queue' = g.queue /\ op_queue' = op_queue \o g.ops /\ checking' = TRUE
      /\ mono' = mono /\ offset' = offset /\ steps' = steps
      /\ timer_fd' = timer_fd /\ seen' = seen /\ at' = at /\ due' = due
  BY DEF CheckTimers, clockVars
<1>4. Sound(queue) /\ Ordered(queue) /\ IsInjective(op_queue)
  BY <1>1 DEF HeapState
<1>5. Ready(queue, g, Now)
  BY <1>2, <1>4, GetReady
<1> DEFINE ops == g.ops
<1> HIDE DEF g
<1>6. /\ ops \in Seq(Threads) /\ Sound(queue') /\ Ordered(queue')
      /\ Timers(queue) = Timers(queue') \cup ToSet(ops)
      /\ Timers(queue') \cap ToSet(ops) = {}
  BY <1>2, <1>3, <1>4, <1>5, ReadyTimers
<1>7. /\ \A k, l \in 1..Len(ops) : ops[k] = ops[l] => k = l
      /\ Pending(queue') \subseteq Pending(queue)
      /\ \A k \in 1..Len(ops) : \E e \in Pending(queue) : e.timer = ops[k] /\ e.time <= Now
  BY <1>3, <1>5 DEF Ready, TakenOff
<1>8. ToSet(op_queue) \cap ToSet(ops) = {} /\ Timers(queue) \cap ToSet(op_queue) = {}
  BY <1>1, <1>6 DEF HeapState
<1>9. op_queue' = op_queue \o ops
  BY <1>3
<1> HIDE DEF ops
<1>10. /\ op_queue' \in Seq(Threads) /\ ToSet(op_queue') = ToSet(op_queue) \cup ToSet(ops)
       /\ IsInjective(op_queue')
  BY <1>2, <1>4, <1>6, <1>7, <1>8, <1>9, Concat, ConcatInjective
<1>11. TypeOK'
  <2>1. queue' \in Queues
    BY <1>6 DEF Sound
  <2> QED
    BY <1>1, <1>3, <1>10, <2>1 DEF TypeOK
<1>12. HeapSound'
  <2>1. Timers(queue') \cup ToSet(op_queue') = {t \in Threads : at'[t] = "sleep"}
    BY <1>1, <1>3, <1>6, <1>10 DEF HeapState
  <2>2. Timers(queue') \cap ToSet(op_queue') = {}
    BY <1>6, <1>8, <1>10
  <2> QED
    BY <1>6, <1>10, <1>11, <2>1, <2>2, HeapStates DEF HeapState
<1>13. ArmedInTime'
  BY <1>3 DEF ArmedInTime
<1>14. Punctual'
  <2>1. SUFFICES ASSUME steps = 0
                 PROVE  /\ offset = 0
                        /\ \A c \in Pending(queue') : Reaches(c.time, due[c.timer])
                        /\ \A i \in 1..Len(op_queue') : Reaches(mono, due[op_queue'[i]])
    BY <1>3 DEF Punctual
  <2>2. /\ offset = 0 /\ \A c \in Pending(queue) : Reaches(c.time, due[c.timer])
        /\ \A i \in 1..Len(op_queue) : Reaches(mono, due[op_queue[i]])
    BY <2>1 DEF IInv, Punctual
  <2>3. Now = mono
    BY <1>2, <2>2 DEF Now
  <2>4. ASSUME NEW k \in 1..Len(ops) PROVE Reaches(mono, due[ops[k]])
    <3>1. PICK e \in Pending(queue) : e.timer = ops[k] /\ e.time <= Now
      BY <1>7
    <3>2. Reaches(e.time, due[ops[k]]) /\ e.time \in Int
      BY <1>4, <2>2, <3>1, PendingType DEF Sound
    <3>3. due[ops[k]] \in Int
      BY <1>1, <1>6, Elements DEF TypeOK
    <3> QED
      BY <1>2, <2>3, <3>1, <3>2, <3>3, ReachesLater
  <2>5. ASSUME NEW i \in 1..Len(op_queue') PROVE Reaches(mono, due[op_queue'[i]])
    <3>1. /\ Len(op_queue') = Len(op_queue) + Len(ops)
          /\ \A j \in 1..Len(op_queue) : op_queue'[j] = op_queue[j]
          /\ \A j \in 1..Len(ops) : op_queue'[Len(op_queue) + j] = ops[j]
          /\ \A j \in 1..(Len(op_queue) + Len(ops)) :
                j \in 1..Len(op_queue) \/ \E k \in 1..Len(ops) : j = Len(op_queue) + k
      BY <1>2, <1>6, <1>9, Concat
    <3>2. CASE i \in 1..Len(op_queue)
      BY <2>2, <3>1, <3>2
    <3>3. CASE i \notin 1..Len(op_queue)
      <4>1. PICK k \in 1..Len(ops) : i = Len(op_queue) + k
        BY <3>1, <3>3
      <4>2. op_queue'[i] = ops[k]
        BY <3>1, <4>1
      <4> QED
        BY <2>4, <4>2
    <3> QED
      BY <3>2, <3>3
  <2> QED
    BY <1>7, <2>2, <2>5
<1> QED
  BY <1>11, <1>12, <1>13, <1>14 DEF IInv

(* The timerfd is armed again.                                             *)
LEMMA RearmStep == ASSUME IInv, Rearm PROVE IInv'
<1>1. TypeOK /\ HeapSound /\ Punctual
  BY DEF IInv
<1>2. /\ queue' = queue /\ op_queue' = op_queue /\ checking' = FALSE
      /\ mono' = mono /\ offset' = offset /\ steps' = steps /\ at' = at /\ due' = due
  BY DEF Rearm, clockVars
<1>3. /\ timer_fd' \in -1..(mono + MaxWait) /\ seen' \in Int
      /\ queue.heap # <<>> => Armed(queue, timer_fd', seen')
  <2>1. queue \in Queues /\ update_timeout(queue)
    BY <1>1 DEF Rearm, TypeOK
  <2> QED
    BY <1>1, <2>1, Arms
<1>4. TypeOK'
  BY <1>1, <1>2, <1>3 DEF TypeOK
<1>5. HeapSound'
  BY <1>1, <1>2, <1>4, HeapStates
<1>6. ArmedInTime'
  BY <1>2, <1>3 DEF ArmedInTime, Armed
<1>7. Punctual'
  BY <1>1, <1>2 DEF Punctual
<1> QED
  BY <1>4, <1>5, <1>6, <1>7 DEF IInv

(* The handler of a sleep.                                                 *)
LEMMA RunStepKeeps == ASSUME IInv, RunSleep PROVE IInv'
<1>1. TypeOK /\ HeapState(queue, op_queue, at) /\ ArmedInTime /\ Punctual
  BY HeapStates DEF IInv
<1>2. /\ ~checking /\ op_queue # <<>>
      /\ at' = [at EXCEPT ![Head(op_queue)] = "run"] /\ op_queue' = Tail(op_queue)
      /\ queue' = queue /\ checking' = checking /\ timer_fd' = timer_fd /\ seen' = seen
      /\ mono' = mono /\ offset' = offset /\ steps' = steps /\ due' = due
  BY DEF RunSleep, clockVars
<1>3. /\ op_queue \in Seq(Threads) /\ IsInjective(op_queue)
      /\ at \in [Threads -> {"run", "sleep"}]
  BY <1>1 DEF TypeOK, HeapState
<1>4. /\ Head(op_queue) \in Threads /\ op_queue' \in Seq(Threads) /\ IsInjective(op_queue')
      /\ Head(op_queue) \in ToSet(op_queue)
      /\ ToSet(op_queue') = ToSet(op_queue) \ {Head(op_queue)}
      /\ \A i \in 1..Len(op_queue') : i + 1 \in 1..Len(op_queue) /\ op_queue'[i] = op_queue[i + 1]
  BY <1>2, <1>3, Rest
<1>5. TypeOK'
  <2>1. at' \in [Threads -> {"run", "sleep"}]
    BY <1>2, <1>3, <1>4
  <2> QED
    BY <1>1, <1>2, <1>4, <2>1 DEF TypeOK
<1>6. HeapSound'
  <2>1. {t \in Threads : at'[t] = "sleep"} = {t \in Threads : at[t] = "sleep"} \ {Head(op_queue)}
    BY <1>2, <1>3, <1>4
  <2> QED
    BY <1>1, <1>2, <1>4, <1>5, <2>1, HeapStates DEF HeapState
<1>7. ArmedInTime'
  BY <1>1, <1>2 DEF ArmedInTime
<1>8. Punctual'
  BY <1>1, <1>2, <1>4 DEF Punctual
<1> QED
  BY <1>5, <1>6, <1>7, <1>8 DEF IInv

(* The clocks.                                                             *)
LEMMA ClockStep ==
    ASSUME IInv, Tick \/ \E s \in ClockSteps : SetClock(s)
    PROVE  IInv'
<1>1. TypeOK /\ HeapSound /\ ArmedInTime /\ Punctual
  BY DEF IInv
<1>2. /\ queue' = queue /\ op_queue' = op_queue /\ checking' = checking
      /\ timer_fd' = timer_fd /\ seen' = seen /\ at' = at /\ due' = due
  BY DEF Tick, SetClock
<1>3. /\ mono \in 0..MaxTime /\ offset \in Int /\ steps \in 0..MaxSteps /\ MaxWait \in Nat
      /\ timer_fd \in -1..(mono + MaxWait) /\ MaxTime \in Nat /\ MaxSteps \in Nat
  BY <1>1, TimerAssumption DEF TypeOK
<1>4. /\ mono' \in 0..MaxTime /\ mono' >= mono /\ offset' \in Int /\ steps' \in 0..MaxSteps
      /\ timer_fd \in -1..(mono' + MaxWait)
      /\ steps' = 0 => steps = 0 /\ offset' = offset
  <2>1. CASE Tick
    <3>1. mono < MaxTime /\ mono' = mono + 1 /\ offset' = offset /\ steps' = steps
      BY <2>1 DEF Tick
    <3> QED
      BY <1>3, <3>1
  <2>2. CASE \E s \in ClockSteps : SetClock(s)
    <3>1. PICK s \in ClockSteps :
             steps < MaxSteps /\ mono' = mono /\ offset' = offset + s /\ steps' = steps + 1
      BY <2>2 DEF SetClock
    <3>2. s \in Int
      BY TimerAssumption
    <3> QED
      BY <1>3, <3>1, <3>2
  <2> QED
    BY <2>1, <2>2
<1>5. TypeOK'
  BY <1>1, <1>2, <1>4 DEF TypeOK
<1>6. HeapSound'
  BY <1>1, <1>2, <1>5, HeapStates
<1>7. ArmedInTime'
  BY <1>1, <1>2 DEF ArmedInTime
<1>8. Punctual'
  <2>1. SUFFICES ASSUME steps' = 0
                 PROVE  /\ offset' = 0
                        /\ \A c \in Pending(queue) : Reaches(c.time, due[c.timer])
                        /\ \A i \in 1..Len(op_queue) : Reaches(mono', due[op_queue[i]])
    BY <1>2 DEF Punctual
  <2>2. /\ offset = 0 /\ offset' = offset /\ \A c \in Pending(queue) : Reaches(c.time, due[c.timer])
        /\ \A i \in 1..Len(op_queue) : Reaches(mono, due[op_queue[i]])
    BY <1>1, <1>4, <2>1 DEF Punctual
  <2>3. ASSUME NEW i \in 1..Len(op_queue) PROVE Reaches(mono', due[op_queue[i]])
    <3>1. op_queue[i] \in Threads /\ due \in [Threads -> Int]
      BY <1>1 DEF TypeOK
    <3>2. due[op_queue[i]] \in Int
      BY <3>1
    <3>3. Reaches(mono, due[op_queue[i]]) /\ mono <= mono' /\ mono \in Int /\ mono' \in Int
      BY <1>3, <1>4, <2>2
    <3> QED
      BY <3>2, <3>3, ReachesLater
  <2> QED
    BY <2>2, <2>3
<1> QED
  BY <1>5, <1>6, <1>7, <1>8 DEF IInv

(* Every step keeps the invariant.                                         *)
LEMMA IInvNext == IInv /\ [Next]_vars => IInv'
<1> SUFFICES ASSUME IInv, [Next]_vars PROVE IInv'
  OBVIOUS
<1>1. CASE UNCHANGED vars
  <2>1. /\ mono' = mono /\ offset' = offset /\ steps' = steps /\ queue' = queue
        /\ timer_fd' = timer_fd /\ seen' = seen /\ checking' = checking
        /\ op_queue' = op_queue /\ at' = at /\ due' = due
    BY <1>1 DEF vars, clockVars
  <2>2. TypeOK' /\ ArmedInTime' /\ Punctual'
    BY <2>1 DEF IInv, TypeOK, ArmedInTime, Punctual
  <2>3. HeapSound'
    BY <2>1, <2>2, HeapStates DEF IInv
  <2> QED
    BY <2>2, <2>3 DEF IInv
<1>2. ASSUME NEW t \in Threads, NEW d \in Durations, Sleep(t, d) PROVE IInv'
  BY <1>2, SleepStep
<1>3. CASE CheckTimers
  BY <1>3, CheckStep
<1>4. CASE Rearm
  BY <1>4, RearmStep
<1>5. CASE RunSleep
  BY <1>5, RunStepKeeps
<1>6. CASE Tick \/ \E s \in ClockSteps : SetClock(s)
  BY <1>6, ClockStep
<1> QED
  BY <1>1, <1>2, <1>3, <1>4, <1>5, <1>6 DEF Next, RunStep

----------------------------------------------------------------------------
(* The theorems.                                                           *)

(* The inductive invariant: the types, the heap, the timerfd, and while    *)
(* the clock was not set the times in the heap.                            *)
THEOREM TimerInvariant == Spec => []IInv
<1>1. Init => IInv
  BY InitIInv
<1>2. IInv /\ [Next]_vars => IInv'
  BY IInvNext
<1> QED
  BY <1>1, <1>2, PTL DEF Spec

(* The variables have their types, and the timerfd is never armed for      *)
(* longer than MaxWait (epoll_reactor.ipp:697).                            *)
THEOREM TimerTypes == Spec => []TypeOK
<1>1. IInv => TypeOK
  BY DEF IInv
<1> QED
  BY <1>1, TimerInvariant, PTL

(* enqueue_timer, remove_timer, up_heap and down_heap keep a heap in which *)
(* every timer knows its place, and no sleep is lost or there twice        *)
(* (timer_queue.hpp:249-330).                                              *)
THEOREM HeapStaysSound == Spec => []HeapSound
<1>1. IInv => HeapSound
  BY DEF IInv
<1> QED
  BY <1>1, TimerInvariant, PTL

(* Arming the timerfd only for a timer that becomes the first is enough    *)
(* (epoll_reactor.hpp:59).                                                 *)
THEOREM AlwaysArmedInTime == Spec => []ArmedInTime
<1>1. IInv => ArmedInTime
  BY DEF IInv
<1> QED
  BY <1>1, TimerInvariant, PTL

(* A sleep ends less than a millisecond early, unless the system clock is  *)
(* set: the loss is that of asio_sleep's conversion (luaAsio.cpp:453), for *)
(* every duration, and nothing is added to it on the way through the heap  *)
(* and the timerfd.                                                        *)
THEOREM NeverEarly == Spec => []NotEarly
<1>1. IInv => NotEarly
  BY DEF IInv, Punctual, NotEarly
<1> QED
  BY <1>1, TimerInvariant, PTL

(* get_ready_timers takes off all that is due, the earliest first          *)
(* (timer_queue.hpp:145).                                                  *)
THEOREM ExpireInOrder == Spec => ExpiresInOrder
<1> DEFINE Ordering ==
      LET due_now == {e \in ToSet(queue.heap) : e.time <= Now}
          TimeOf(t) == (CHOOSE e \in ToSet(queue.heap) : e.timer = t).time
          taken == SubSeq(op_queue', Len(op_queue) + 1, Len(op_queue'))
      IN  ~checking /\ checking' =>
            /\ ToSet(taken) = {e.timer : e \in due_now}
            /\ \A i \in 1..Len(taken) - 1 : TimeOf(taken[i]) <= TimeOf(taken[i + 1])
<1>1. ASSUME IInv, [Next]_vars PROVE [Ordering]_vars
  <2>1. SUFFICES ASSUME ~checking, checking' PROVE Ordering
    OBVIOUS
  <2>2. CheckTimers
    <3>1. CASE UNCHANGED vars
      BY <2>1, <3>1 DEF vars
    <3>2. \A t \in Threads, d \in Durations : ~Sleep(t, d)
      BY <2>1 DEF Sleep
    <3>3. ~Rearm /\ ~RunSleep /\ ~Tick /\ \A s \in ClockSteps : ~SetClock(s)
      BY <2>1 DEF Rearm, RunSleep, Tick, SetClock
    <3> QED
      BY <1>1, <3>1, <3>2, <3>3 DEF Next, RunStep
  <2>3. TypeOK /\ HeapState(queue, op_queue, at)
    BY <1>1, HeapStates DEF IInv
  <2>4. /\ op_queue \in Seq(Threads) /\ Now \in Int /\ Sound(queue) /\ Ordered(queue)
        /\ queue \in Queues
    BY <2>3, TimerAssumption DEF TypeOK, Now, HeapState
  <2> DEFINE g == get_ready_timers(queue, Now)
             ops == g.ops
  <2>5. op_queue' = op_queue \o ops
    BY <2>2 DEF CheckTimers
  <2>6. Ready(queue, g, Now)
    BY <2>4, GetReady
  <2> HIDE DEF g
  <2>7. /\ ops \in Seq(Threads)
        /\ ToSet(ops) = DueTimers(queue, Now)
    BY <2>4, <2>6, ReadyTimers
  <2>8. /\ \A k \in 1..(Len(ops) - 1) : \A d, e \in Pending(queue) :
              d.timer = ops[k] /\ e.timer = ops[k + 1] => d.time <= e.time
        /\ \A k \in 1..Len(ops) : \E e \in Pending(queue) : e.timer = ops[k]
    BY <2>6 DEF Ready, TakenOff
  <2> HIDE DEF ops
  <2>9. SubSeq(op_queue', Len(op_queue) + 1, Len(op_queue')) = ops
    BY <2>4, <2>5, <2>7, Appended
  <2>10. ToSet(queue.heap) = Pending(queue)
    <3>1. queue.heap \in Seq(Entries)
      BY <2>4, QueueParts
    <3> QED
      BY <3>1, Elements DEF Pending
  <2> DEFINE Of(t) == CHOOSE e \in Pending(queue) : e.timer = t
  <2>11. ASSUME NEW k \in 1..(Len(ops) - 1) PROVE Of(ops[k]).time <= Of(ops[k + 1]).time
    <3>1. k \in 1..Len(ops) /\ k + 1 \in 1..Len(ops)
      BY <2>7
    <3>2. /\ Of(ops[k]) \in Pending(queue) /\ Of(ops[k]).timer = ops[k]
          /\ Of(ops[k + 1]) \in Pending(queue) /\ Of(ops[k + 1]).timer = ops[k + 1]
      BY <2>8, <3>1
    <3> QED
      BY <2>8, <3>2
  <2> QED
    BY <2>7, <2>9, <2>10, <2>11 DEF DueTimers
<1> QED
  BY <1>1, TimerInvariant, PTL DEF Spec, ExpiresInOrder
=============================================================================
