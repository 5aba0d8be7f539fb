---------------------------- MODULE ReactorProofs ----------------------------
(***************************************************************************)
(* Proofs about Reactor, for every set of light threads, all sizes of      *)
(* transfers and of the kernel's buffers, and any number of sockets that   *)
(* use the descriptor_state one after the other.                           *)
(***************************************************************************)
EXTENDS Reactor, FiniteSetTheorems, FunctionTheorems, SequenceTheorems, TLAPS

----------------------------------------------------------------------------
(* Shapes.                                                                 *)
Items ==
    {Task} \cup [type : {"descriptor"}, events : SUBSET Directions]
           \cup [type : {"op"}, op : Ops]

Todos == {<<>>, <<"in">>, <<"out">>, <<"out", "in">>}

Shapes ==
    /\ TypeOK
    /\ op_queue \in Seq(Items)
    /\ io = <<>> \/ \E r \in [todo : Todos, done : Seq(Ops)] : io = <<r>>

(* Directions perform_io has not finished with.                            *)
Busy == IF InRunOne THEN ToSet(io[1].todo) ELSE {}

(* An operation waits in the queue of its direction, on the open socket,   *)
(* with bytes to transfer; a connect only as the first.                    *)
Waits(op, d, i) ==
    /\ Direction(op) = d /\ op.res = "none" /\ open /\ op.sock = sock
    /\ IF op.kind = "connect" THEN i = 1 ELSE op.left > 0

Waiters == \A d \in Directions : \A i \in 1..Len(waiting[d]) : Waits(waiting[d][i], d, i)

(* The task and the descriptor in the queue.                               *)
TaskOnce(q) ==
    \E p \in 1..Len(q) :
       /\ q[p].type = "task"
       /\ \A i \in 1..Len(q) : q[i].type = "task" => i = p
       /\ \A i \in 1..Len(q) : q[i].type = "descriptor" => i < p
DescriptorOnce(q) ==
    \A i, j \in 1..Len(q) : q[i].type = "descriptor" /\ q[j].type = "descriptor" => i = j

----------------------------------------------------------------------------
(* Edges.                                                                  *)
(* The kernel is asked for the directions that are waited for.             *)
Asked == open => "in" \in registered /\ (waiting["out"] # <<>> => "out" \in registered)

Failing(op) == op.kind # "connect" /\ op.res = "fail" /\ op.sock = sock

Notice(d) ==
    \/ listed /\ d \in registered
    \/ \E i \in Places("descriptor") : d \in op_queue[i].events
    \/ d \in Busy
    \/ \E op \in Outstanding : Failing(op)

(* A direction that is ready and that the next operation would not try at  *)
(* once is on its way to be tried.                                         *)
Edge(d) ==
    open /\ d \in registered /\ Ready(d) /\ (waiting[d] # <<>> \/ ~speculative[d]) => Notice(d)

(* Where there is no space the kernel knows that a writer needs some: that *)
(* is what makes it list the descriptor when there is.                     *)
SpaceAsked ==
    /\ open /\ space = 0 /\ (waiting["out"] # <<>> \/ ~speculative["out"])
          => nospace \/ "out" \in Busy
    /\ waiting["out"] # <<>> /\ waiting["out"][1].kind = "connect" /\ space = 0 => nospace

Edges ==
    /\ Asked /\ SpaceAsked
    /\ \A d \in Directions : Edge(d)
    /\ \A d \in Busy : speculative[d]

Queue == TaskOnce(op_queue) /\ DescriptorOnce(op_queue)

IInv == Shapes /\ Waiters /\ Queue /\ WorkExact /\ Edges

----------------------------------------------------------------------------
(* The scheduler's queue.                                                  *)
PlacesIn(q, type) == {i \in 1..Len(q) : q[i].type = type}
Count(q) == Cardinality(PlacesIn(q, "op"))
OpsIn(q) == {q[i].op : i \in PlacesIn(q, "op")}
Queued(q, d) == \E i \in PlacesIn(q, "descriptor") : d \in q[i].events
OpItems == [type : {"op"}, op : Ops]

(* The views of the queue as operators of any queue.                       *)
LEMMA QueueViews ==
    /\ \A type : Places(type) = PlacesIn(op_queue, type)
    /\ Outstanding = ToSet(waiting["in"]) \cup ToSet(waiting["out"]) \cup ToSet(Done)
                        \cup OpsIn(op_queue)
    /\ \A d : Notice(d) <=> \/ listed /\ d \in registered
                            \/ Queued(op_queue, d)
                            \/ d \in Busy
                            \/ \E op \in Outstanding : Failing(op)
BY DEF Places, PlacesIn, Outstanding, OpsIn, Notice, Queued

(* Items of the queue.                                                     *)
LEMMA ItemTypes ==
    /\ Task \in Items /\ Task.type = "task"
    /\ \A o \in Ops : /\ Finished(o) \in Items /\ Finished(o) \in OpItems
                      /\ Finished(o).type = "op" /\ Finished(o).op = o
    /\ \A e \in SUBSET Directions :
          /\ Descriptor(e) \in Items /\ Descriptor(e).type = "descriptor"
          /\ Descriptor(e).events = e
    /\ \A x \in Items : /\ x.type \in {"task", "descriptor", "op"}
                        /\ x.type = "op" => x.op \in Ops
                        /\ x.type = "descriptor" => x.events \in SUBSET Directions
    /\ \A x \in OpItems : x.type = "op" /\ x.op \in Ops
    /\ OpItems \subseteq Items
BY DEF Items, OpItems, Task, Finished, Descriptor

(* A function on 1..n is a sequence.                                       *)
LEMMA FunctionIsSeq ==
    ASSUME NEW S, NEW n \in Nat, NEW f \in [1..n -> S]
    PROVE  f \in Seq(S) /\ Len(f) = n
<1>1. f \in Seq(S)
  BY SeqDef
<1> QED
  BY <1>1, LenProperties

(* A queue has finitely many places.                                       *)
LEMMA PlacesFinite ==
    ASSUME NEW q \in Seq(Items), NEW type
    PROVE  /\ IsFiniteSet(PlacesIn(q, type)) /\ Cardinality(PlacesIn(q, type)) \in Nat
           /\ Len(q) \in Nat /\ \A i \in 1..Len(q) : q[i] \in Items
<1>1. Len(q) \in Nat /\ \A i \in 1..Len(q) : q[i] \in Items
  BY LenProperties, ElementOfSeq
<1>2. IsFiniteSet(1..Len(q))
  BY <1>1, FS_Interval
<1>3. PlacesIn(q, type) \in SUBSET (1..Len(q))
  BY DEF PlacesIn
<1>4. IsFiniteSet(PlacesIn(q, type))
  BY <1>2, <1>3, FS_Subset
<1> QED
  BY <1>1, <1>4, FS_CardinalityType

(* The operations in two queues, one behind the other, add up.             *)
LEMMA CountConcat ==
    ASSUME NEW s \in Seq(Items), NEW t \in Seq(Items)
    PROVE  /\ Count(s \o t) = Count(s) + Count(t)
           /\ Count(s) \in Nat /\ Count(t) \in Nat
<1> DEFINE n == Len(s)
           A == PlacesIn(s, "op")
           B == PlacesIn(t, "op")
           C == PlacesIn(s \o t, "op")
           Shift == [i \in B |-> i + n]
           D == {i \in C : i > n}
<1>1. n \in Nat /\ Len(t) \in Nat
  BY LenProperties
<1>2. /\ s \o t \in Seq(Items) /\ Len(s \o t) = n + Len(t)
      /\ \A i \in 1..n + Len(t) : (s \o t)[i] = IF i <= n THEN s[i] ELSE t[i - n]
  BY ConcatProperties
<1>3. IsFiniteSet(A) /\ IsFiniteSet(B) /\ IsFiniteSet(C)
      /\ Cardinality(A) \in Nat /\ Cardinality(B) \in Nat
  BY <1>2, PlacesFinite
<1>4. A \subseteq C
  BY <1>1, <1>2 DEF PlacesIn
<1>5. \A i \in C : i > n \/ i \in A
  BY <1>1, <1>2 DEF PlacesIn
<1>6. \A i \in A : i \in Nat /\ ~(i > n)
  BY <1>1 DEF PlacesIn
<1>7. \A i \in B : i + n \in D
  BY <1>1, <1>2 DEF PlacesIn
<1>8. \A j \in D : j - n \in B /\ (j - n) + n = j
  BY <1>1, <1>2 DEF PlacesIn
<1>9. \A i, j \in B : i + n = j + n => i = j
  BY <1>1 DEF PlacesIn
<1> HIDE DEF A, B, C, D, n
<1>10. Shift \in Bijection(B, D)
  <2>1. Shift \in [B -> D] /\ \A i \in B : Shift[i] = i + n
    BY <1>7
  <2>2. \A i, j \in B : Shift[i] = Shift[j] => i = j
    BY <1>9, <2>1
  <2>3. \A j \in D : \E i \in B : Shift[i] = j
    BY <1>8, <2>1
  <2> QED
    BY <2>1, <2>2, <2>3, Fun_IsBij
<1>11. IsFiniteSet(D) /\ Cardinality(D) = Cardinality(B)
  <2>1. ExistsBijection(B, D)
    BY <1>10 DEF ExistsBijection
  <2> QED
    BY <1>3, <2>1, FS_Bijection
<1>12. C = A \cup D
  BY <1>4, <1>5 DEF D
<1>13. A \cap D = {}
  BY <1>6 DEF D
<1>14. Cardinality(C) = Cardinality(A) + Cardinality(B)
  <2>1. Cardinality(A \cup D) = Cardinality(A) + Cardinality(D) - Cardinality(A \cap D)
    BY <1>3, <1>11, FS_Union
  <2>2. Cardinality(A \cap D) = 0
    BY <1>13, FS_EmptySet
  <2>3. Cardinality(C) = Cardinality(A \cup D)
    BY <1>12
  <2> QED
    BY <1>3, <1>11, <2>1, <2>2, <2>3
<1> QED
  BY <1>3, <1>14 DEF Count, A, B, C

(* A queue of one item, and the empty queue.                               *)
LEMMA CountOne ==
    ASSUME NEW x \in Items
    PROVE  /\ <<x>> \in Seq(Items) /\ Count(<<x>>) = IF x.type = "op" THEN 1 ELSE 0
           /\ Count(<<>>) = 0
<1>1. PlacesIn(<<x>>, "op") = IF x.type = "op" THEN {1} ELSE {}
  BY DEF PlacesIn
<1>2. PlacesIn(<<>>, "op") = {}
  BY DEF PlacesIn
<1>3. Cardinality({1}) = 1 /\ Cardinality({}) = 0
  BY FS_Singleton, FS_EmptySet
<1>4. CASE x.type = "op"
  <2>1. PlacesIn(<<x>>, "op") = {1}
    BY <1>1, <1>4
  <2>2. Count(<<x>>) = 1
    BY <1>3, <2>1 DEF Count
  <2>3. Count(<<>>) = 0
    BY <1>2, <1>3 DEF Count
  <2> QED
    BY <1>4, <2>2, <2>3
<1>5. CASE x.type # "op"
  <2>1. PlacesIn(<<x>>, "op") = {}
    BY <1>1, <1>5
  <2> QED
    BY <1>2, <1>3, <1>5, <2>1 DEF Count
<1> QED
  BY <1>4, <1>5

(* A queue of operations only.                                             *)
LEMMA CountOps ==
    ASSUME NEW f \in Seq(OpItems)
    PROVE  f \in Seq(Items) /\ Count(f) = Len(f)
<1>1. Len(f) \in Nat /\ \A i \in 1..Len(f) : f[i] \in OpItems
  BY LenProperties, ElementOfSeq
<1>2. PlacesIn(f, "op") = 1..Len(f)
  BY <1>1, ItemTypes DEF PlacesIn
<1>3. Cardinality(1..Len(f)) = Len(f)
  <2>1. Cardinality(1..Len(f)) = IF 1 > Len(f) THEN 0 ELSE Len(f) - 1 + 1
    <3>1. 1 \in Int /\ Len(f) \in Int
      BY <1>1
    <3> QED
      BY <3>1, FS_Interval
  <2> QED
    BY <1>1, <2>1
<1>4. f \in Seq(Items)
  BY ItemTypes
<1> QED
  BY <1>2, <1>3, <1>4 DEF Count

(* The first item is taken.                                                *)
LEMMA PopItem ==
    ASSUME NEW q \in Seq(Items), q # <<>>
    PROVE  /\ Head(q) \in Items /\ Tail(q) \in Seq(Items) /\ q[1] = Head(q)
           /\ Len(Tail(q)) = Len(q) - 1 /\ Len(q) \in Nat /\ Len(q) > 0
           /\ \A i \in 1..Len(q) - 1 : Tail(q)[i] = q[i + 1]
           /\ Count(q) = (IF Head(q).type = "op" THEN 1 ELSE 0) + Count(Tail(q))
           /\ Count(Tail(q)) \in Nat
<1>1. /\ Head(q) \in Items /\ Tail(q) \in Seq(Items) /\ q[1] = Head(q)
      /\ Len(Tail(q)) = Len(q) - 1 /\ Len(q) \in Nat /\ Len(q) > 0
      /\ \A i \in 1..Len(q) - 1 : Tail(q)[i] = q[i + 1]
  BY LenProperties, ElementOfSeq, EmptySeq, HeadTailProperties
<1>2. q = <<Head(q)>> \o Tail(q)
  BY <1>1, SeqEqual, ConcatProperties
<1>3. Count(q) = Count(<<Head(q)>>) + Count(Tail(q)) /\ Count(Tail(q)) \in Nat
  <2>1. <<Head(q)>> \in Seq(Items)
    BY <1>1
  <2> QED
    BY <1>1, <1>2, <2>1, CountConcat
<1> QED
  BY <1>1, <1>3, CountOne

(* What the queue loses with its first item.                               *)
LEMMA PopViews ==
    ASSUME NEW q \in Seq(Items), q # <<>>, Head(q).type # "task", TaskOnce(q), DescriptorOnce(q)
    PROVE  /\ TaskOnce(Tail(q)) /\ DescriptorOnce(Tail(q))
           /\ OpsIn(q) \subseteq OpsIn(Tail(q)) \cup {Head(q).op}
           /\ Head(q).type # "op" => OpsIn(q) \subseteq OpsIn(Tail(q))
           /\ \A d : Queued(q, d) => \/ Queued(Tail(q), d)
                                     \/ Head(q).type = "descriptor" /\ d \in Head(q).events
<1> DEFINE t == Tail(q)
           n == Len(q) - 1
<1>1. /\ q[1] = Head(q) /\ Len(t) = n /\ n \in Nat /\ Len(q) = n + 1
      /\ \A i \in 1..n : t[i] = q[i + 1]
  BY PopItem
<1>2. \A i \in 1..n + 1 : i # 1 => i - 1 \in 1..n /\ t[i - 1] = q[i]
  BY <1>1
<1>3. \A i \in 1..n : i + 1 \in 1..n + 1
  BY <1>1
<1> HIDE DEF t, n
<1>4. TaskOnce(t)
  <2>1. PICK p \in 1..n + 1 :
           /\ q[p].type = "task"
           /\ \A i \in 1..n + 1 : q[i].type = "task" => i = p
           /\ \A i \in 1..n + 1 : q[i].type = "descriptor" => i < p
    BY <1>1 DEF TaskOnce
  <2>2. p - 1 \in 1..n /\ t[p - 1].type = "task"
    BY <1>1, <1>2, <2>1
  <2>3. \A i \in 1..n : t[i].type = "task" => i = p - 1
    BY <1>1, <1>3, <2>1
  <2>4. \A i \in 1..n : t[i].type = "descriptor" => i < p - 1
    BY <1>1, <1>3, <2>1
  <2> QED
    BY <1>1, <2>2, <2>3, <2>4 DEF TaskOnce
<1>5. DescriptorOnce(t)
  <2> SUFFICES ASSUME NEW i \in 1..n, NEW j \in 1..n, t[i].type = "descriptor",
                      t[j].type = "descriptor"
               PROVE  i = j
    BY <1>1 DEF DescriptorOnce
  <2>1. i + 1 = j + 1
    BY <1>1, <1>3 DEF DescriptorOnce
  <2> QED
    BY <1>1, <2>1
<1>6. ASSUME NEW i \in 1..n + 1, i # 1, NEW type, q[i].type = type
      PROVE  i - 1 \in PlacesIn(t, type) /\ t[i - 1] = q[i]
  BY <1>1, <1>2, <1>6 DEF PlacesIn
<1>7. \A type : \A i \in PlacesIn(q, type) : i \in 1..n + 1 /\ q[i].type = type
  BY <1>1 DEF PlacesIn
<1>8. ASSUME NEW o \in OpsIn(q)
      PROVE  o \in OpsIn(t) \/ (o = Head(q).op /\ Head(q).type = "op")
  <2>1. PICK i \in PlacesIn(q, "op") : o = q[i].op
    BY DEF OpsIn
  <2>2. i \in 1..n + 1 /\ q[i].type = "op"
    BY <1>7
  <2>3. CASE i = 1
    BY <1>1, <2>1, <2>2, <2>3
  <2>4. CASE i # 1
    <3>1. i - 1 \in PlacesIn(t, "op") /\ t[i - 1] = q[i]
      BY <1>6, <2>2, <2>4
    <3> QED
      BY <2>1, <3>1 DEF OpsIn
  <2> QED
    BY <2>3, <2>4
<1>9. ASSUME NEW d, Queued(q, d)
      PROVE  Queued(t, d) \/ (Head(q).type = "descriptor" /\ d \in Head(q).events)
  <2>1. PICK i \in PlacesIn(q, "descriptor") : d \in q[i].events
    BY <1>9 DEF Queued
  <2>2. i \in 1..n + 1 /\ q[i].type = "descriptor"
    BY <1>7
  <2>3. CASE i = 1
    BY <1>1, <2>1, <2>2, <2>3
  <2>4. CASE i # 1
    <3>1. i - 1 \in PlacesIn(t, "descriptor") /\ t[i - 1] = q[i]
      BY <1>6, <2>2, <2>4
    <3> QED
      BY <2>1, <3>1 DEF Queued
  <2> QED
    BY <2>3, <2>4
<1> QED
  BY <1>4, <1>5, <1>8, <1>9 DEF t

(* Finished operations are queued behind the others.                       *)
LEMMA PushOps ==
    ASSUME NEW q \in Seq(Items), NEW f \in Seq(OpItems)
    PROVE  /\ q \o f \in Seq(Items) /\ Count(q \o f) = Count(q) + Len(f)
           /\ TaskOnce(q) => TaskOnce(q \o f)
           /\ DescriptorOnce(q) => DescriptorOnce(q \o f)
           /\ \A d : Queued(q, d) => Queued(q \o f, d)
           /\ OpsIn(q) \subseteq OpsIn(q \o f)
           /\ \A i \in 1..Len(f) : f[i].op \in OpsIn(q \o f)
<1> DEFINE n == Len(q)
           m == Len(f)
           r == q \o f
<1>1. f \in Seq(Items) /\ Count(f) = m
  BY CountOps
<1>2. n \in Nat /\ m \in Nat /\ \A i \in 1..m : f[i] \in OpItems /\ f[i].type = "op"
  BY LenProperties, ElementOfSeq, ItemTypes
<1>3. /\ r \in Seq(Items) /\ Len(r) = n + m
      /\ \A i \in 1..n + m : r[i] = IF i <= n THEN q[i] ELSE f[i - n]
  BY <1>1, ConcatProperties
<1>4. Count(r) = Count(q) + m
  BY <1>1, CountConcat
<1> HIDE DEF n, m, r
<1>5. \A i \in 1..n : i \in 1..n + m /\ r[i] = q[i]
  BY <1>2, <1>3
<1>6. \A i \in 1..n + m : (i \in 1..n /\ r[i] = q[i]) \/ r[i].type = "op"
  BY <1>2, <1>3
<1>7. \A i \in 1..m : n + i \in 1..n + m /\ r[n + i] = f[i]
  <2> SUFFICES ASSUME NEW i \in 1..m PROVE n + i \in 1..n + m /\ r[n + i] = f[i]
    OBVIOUS
  <2>1. n + i \in 1..n + m /\ ~(n + i <= n) /\ (n + i) - n = i
    BY <1>2
  <2> QED
    BY <1>3, <2>1
<1>8. TaskOnce(q) => TaskOnce(r)
  BY <1>3, <1>5, <1>6 DEF TaskOnce, n
<1>9. DescriptorOnce(q) => DescriptorOnce(r)
  BY <1>3, <1>6 DEF DescriptorOnce, n
<1>10. \A d : Queued(q, d) => Queued(r, d)
  BY <1>3, <1>5 DEF Queued, PlacesIn, n
<1>11. OpsIn(q) \subseteq OpsIn(r)
  BY <1>3, <1>5 DEF OpsIn, PlacesIn, n
<1>12. \A i \in 1..m : f[i].op \in OpsIn(r)
  BY <1>2, <1>3, <1>7 DEF OpsIn, PlacesIn
<1> QED
  BY <1>3, <1>4, <1>8, <1>9, <1>10, <1>11, <1>12 DEF m, r

----------------------------------------------------------------------------
(* System calls.                                                           *)
DescTypes ==
    /\ open \in BOOLEAN /\ sock \in 0..MaxSockets
    /\ waiting \in [Directions -> Seq(Ops)] /\ speculative \in [Directions -> BOOLEAN]
    /\ registered \subseteq Directions
    /\ avail \in 0..MaxBuffer /\ space \in 0..MaxBuffer /\ ended \in {"no", "eof", "err"}
    /\ nospace \in BOOLEAN /\ listed \in BOOLEAN

(* TypeOK in parts.                                                        *)
LEMMA TypeParts == TypeOK <=> DescTypes /\ work \in Nat /\ at \in [Threads -> {"run", "call"}]
BY DEF TypeOK, DescTypes

(* Min of two numbers.                                                     *)
LEMMA MinPair ==
    ASSUME NEW a \in Nat, NEW b \in Nat
    PROVE  Min({a, b}) \in {a, b} /\ Min({a, b}) <= a /\ Min({a, b}) <= b
<1>1. \E x \in {a, b} : \A y \in {a, b} : x <= y
  OBVIOUS
<1> QED
  BY <1>1 DEF Min

(* A system call transfers no more than is asked for and than there is,    *)
(* and no less than the smaller of the two.                                *)
LEMMA AmountFacts ==
    ASSUME DescTypes, NEW op \in Ops
    PROVE  LET a == Amount(op)
               most == IF Direction(op) = "in" THEN avail ELSE space
           IN  /\ a \in Nat /\ a <= op.left /\ a <= most
               /\ ended # "err" /\ op.kind # "connect" => a = op.left \/ a = most
<1> DEFINE most == IF Direction(op) = "in" THEN avail ELSE space
<1>1. op.left \in Nat /\ most \in Nat
  BY ReactorAssumption DEF Ops, DescTypes
<1>2. CASE ended = "err" \/ op.kind = "connect"
  BY <1>1, <1>2 DEF Amount
<1>3. CASE ~(ended = "err" \/ op.kind = "connect")
  <2>1. Amount(op) = Min({op.left, most})
    BY <1>3 DEF Amount
  <2> HIDE DEF most
  <2>2. /\ Amount(op) \in {op.left, most}
        /\ Amount(op) <= op.left /\ Amount(op) <= most
    BY <1>1, <2>1, MinPair
  <2>3. Amount(op) \in Nat
    BY <1>1, <2>2
  <2> QED
    BY <2>2, <2>3 DEF most
<1> QED
  BY <1>2, <1>3

(* An operation that was performed has its result.                         *)
LEMMA PerformedFacts ==
    ASSUME DescTypes, NEW op \in Ops
    PROVE  /\ Performed(op) \in Ops /\ Performed(op).who = op.who
           /\ Performed(op).kind = op.kind /\ Performed(op).sock = op.sock
           /\ Performed(op).res \in {"ok", "fail"}
           /\ Direction(op) \in Directions
<1>1. op.left - Amount(op) \in Nat
  BY AmountFacts DEF Ops
<1> QED
  BY <1>1 DEF Performed, Ops, Direction, Directions

(* Types after a system call, and what it leaves alone.                    *)
LEMMA CallTypes ==
    ASSUME DescTypes, NEW op \in Ops, SystemCall(op)
    PROVE  /\ avail' \in 0..MaxBuffer /\ space' \in 0..MaxBuffer /\ nospace' \in BOOLEAN
           /\ Direction(op) = "in" => space' = space /\ nospace' = nospace
           /\ Direction(op) = "out" => avail' = avail
           /\ nospace => nospace'
<1>1. /\ Amount(op) \in Nat
      /\ Direction(op) = "in" => Amount(op) <= avail
      /\ Direction(op) = "out" => Amount(op) <= space
  BY AmountFacts DEF Direction
<1>2. avail \in 0..MaxBuffer /\ space \in 0..MaxBuffer /\ MaxBuffer \in Nat /\ nospace \in BOOLEAN
  BY ReactorAssumption DEF DescTypes
<1>3. avail' \in 0..MaxBuffer
  BY <1>1, <1>2 DEF SystemCall
<1>4. space' \in 0..MaxBuffer
  BY <1>1, <1>2 DEF SystemCall
<1>5. /\ nospace' \in BOOLEAN
      /\ nospace => nospace'
      /\ op.kind # "write" => nospace' = nospace
  BY <1>2 DEF SystemCall
<1>6. Direction(op) = "in" => op.kind # "write"
  BY DEF Direction
<1> QED
  BY <1>3, <1>4, <1>5, <1>6 DEF SystemCall

(* A transfer that exhausts the socket fails, or takes all the space.      *)
LEMMA ExhaustedFacts ==
    ASSUME DescTypes, NEW op \in Ops, op.left > 0, SystemCall(op), Exhausted(op)
    PROVE  /\ op.kind # "connect"
           /\ \/ Performed(op).res = "fail"
              \/ Direction(op) = "out" /\ ended # "err" /\ space' = 0 /\ nospace'
<1>1. op.kind # "connect"
  <2>1. op.kind = "connect" => Direction(op) # "in"
    BY DEF Direction
  <2> QED
    BY <2>1 DEF Exhausted
<1>2. Performed(op).res = IF ended = "err" \/ Amount(op) = 0 THEN "fail" ELSE "ok"
  BY <1>1 DEF Performed, Ops
<1>3. CASE Direction(op) = "in"
  BY <1>1, <1>2, <1>3 DEF Exhausted
<1>4. CASE Direction(op) # "in"
  <2>1. op.kind = "write" /\ Direction(op) = "out" /\ Amount(op) < op.left
    BY <1>1, <1>4 DEF Exhausted, Direction, Ops
  <2>2. nospace'
    BY <2>1 DEF SystemCall
  <2>3. ended # "err" => Amount(op) = space
    <3>1. Amount(op) \in Nat /\ op.left \in Nat
      BY AmountFacts DEF Ops
    <3>2. ended # "err" => Amount(op) = op.left \/ Amount(op) = space
      BY <2>1, AmountFacts
    <3> QED
      BY <2>1, <3>1, <3>2
  <2>4. ended # "err" => space' = 0
    BY <2>1, <2>3 DEF SystemCall, DescTypes
  <2> QED
    BY <1>1, <1>2, <2>1, <2>2, <2>4
<1> QED
  BY <1>3, <1>4

(* EAGAIN.                                                                 *)
LEMMA AgainFacts ==
    ASSUME DescTypes, NEW op \in Ops, SystemCall(op), ~Ready(Direction(op))
    PROVE  /\ avail' = avail /\ space' = space
           /\ op.kind = "write" /\ op.left > 0 => nospace'
<1>1. Amount(op) \in Nat /\ avail \in Nat /\ space \in Nat /\ Direction(op) \in {"in", "out"}
  BY AmountFacts, ReactorAssumption DEF Direction, DescTypes
<1>2. /\ Direction(op) = "in" => avail = 0
      /\ Direction(op) = "out" => space = 0
  BY <1>1 DEF Ready
<1>3. Amount(op) = 0
  <2>1. /\ Direction(op) = "in" => Amount(op) <= avail
        /\ Direction(op) = "out" => Amount(op) <= space
    BY AmountFacts
  <2> QED
    BY <1>1, <1>2, <2>1
<1>4. avail' = avail /\ space' = space
  BY <1>1, <1>3 DEF SystemCall
<1>5. op.kind = "write" /\ op.left > 0 => nospace'
  BY <1>3 DEF SystemCall
<1> QED
  BY <1>4, <1>5

----------------------------------------------------------------------------
(* What start_op and deregister_descriptor keep.                           *)
Pending == \E op \in Outstanding : Failing(op)

(* What waits has no result, and waits on the open socket.                 *)
LEMMA WaitingFacts ==
    ASSUME DescTypes, Waiters
    PROVE  /\ \A d \in Directions :
                 /\ waiting[d] \in Seq(Ops) /\ Len(waiting[d]) \in Nat
                 /\ \A i \in 1..Len(waiting[d]) : waiting[d][i] \in Ops
                 /\ waiting[d] # <<>> => open /\ 1 \in 1..Len(waiting[d])
           /\ \A x \in ToSet(waiting["in"]) \cup ToSet(waiting["out"]) :
                 x \in Ops /\ x.res = "none"
<1>1. ASSUME NEW d \in Directions
      PROVE  /\ waiting[d] \in Seq(Ops) /\ Len(waiting[d]) \in Nat
             /\ \A i \in 1..Len(waiting[d]) : waiting[d][i] \in Ops
             /\ waiting[d] # <<>> => open /\ 1 \in 1..Len(waiting[d])
             /\ \A x \in ToSet(waiting[d]) : x \in Ops /\ x.res = "none"
  <2>1. waiting[d] \in Seq(Ops)
    BY DEF DescTypes
  <2>2. /\ Len(waiting[d]) \in Nat /\ DOMAIN waiting[d] = 1..Len(waiting[d])
        /\ \A i \in 1..Len(waiting[d]) : waiting[d][i] \in Ops
    BY <2>1, LenProperties, ElementOfSeq
  <2>3. \A i \in 1..Len(waiting[d]) : waiting[d][i].res = "none" /\ open
    BY DEF Waiters, Waits
  <2>4. waiting[d] # <<>> => 1 \in 1..Len(waiting[d])
    BY <2>1, <2>2, EmptySeq
  <2>5. \A x \in ToSet(waiting[d]) : x \in Ops /\ x.res = "none"
    BY <2>2, <2>3 DEF ToSet
  <2> QED
    BY <2>1, <2>2, <2>3, <2>4, <2>5
<1> QED
  BY <1>1 DEF Directions

(* Ways for a notification to be there in the next state.                  *)
LEMMA NoticeNext ==
    ASSUME NEW d,
           \/ listed' /\ d \in registered'
           \/ Queued(op_queue', d)
           \/ d \in Busy'
           \/ \E x \in OpsIn(op_queue') : Failing(x)'
           \/ \E x \in ToSet(Done') : Failing(x)'
    PROVE  Notice(d)'
BY DEF Notice, Queued, Places, PlacesIn, OpsIn, Outstanding

(* op's handler was the one in rest's place, or op is new.                 *)
Follows(rest) ==
    /\ rest \in Seq(Items) /\ TaskOnce(rest) /\ DescriptorOnce(rest)
    /\ \A d : Queued(op_queue, d) => Queued(rest, d)
    /\ Pending => \E x \in OpsIn(rest) : Failing(x)

Held(rest) == Len(waiting["in"]) + Len(waiting["out"]) + Count(rest)

(* start_op refuses the operation.                                         *)
LEMMA BadDescriptor ==
    ASSUME DescTypes, Waiters, Edges, NEW op \in Ops, NEW rest, Follows(rest),
           Busy = {}, Busy' = {},
           op_queue' = Append(rest, Finished([op EXCEPT !.res = "fail"])),
           UNCHANGED <<descVars, kernelVars>>
    PROVE  /\ DescTypes' /\ op_queue' \in Seq(Items) /\ Waiters' /\ Queue' /\ Edges'
           /\ Len(waiting'["in"]) + Len(waiting'["out"]) + Count(op_queue') = Held(rest) + 1
<1> DEFINE o == [op EXCEPT !.res = "fail"]
           f == <<Finished(o)>>
<1>1. o \in Ops
  BY DEF Ops
<1>2. f \in Seq(OpItems) /\ Len(f) = 1 /\ op_queue' = rest \o f
  BY <1>1, ItemTypes DEF Follows
<1> HIDE DEF f, o
<1>3. /\ op_queue' \in Seq(Items) /\ Count(op_queue') = Count(rest) + 1 /\ Queue'
      /\ \A d : Queued(rest, d) => Queued(op_queue', d)
      /\ OpsIn(rest) \subseteq OpsIn(op_queue') /\ Count(rest) \in Nat
  BY <1>2, PushOps, CountConcat, CountOps DEF Follows, Queue
<1>4. /\ UNCHANGED <<open, sock, waiting, speculative, registered>>
      /\ UNCHANGED <<avail, ended, space, nospace, listed>>
  BY DEF descVars, kernelVars
<1>5. DescTypes' /\ Waiters' /\ Asked' /\ SpaceAsked'
  BY <1>4 DEF DescTypes, Waiters, Waits, Edges, Asked, SpaceAsked
<1>6. ASSUME NEW d \in Directions, Notice(d) PROVE Notice(d)'
  <2>1. \/ listed /\ d \in registered
        \/ Queued(op_queue, d)
        \/ Pending
    BY <1>6, QueueViews DEF Pending
  <2>2. \/ listed' /\ d \in registered'
        \/ Queued(op_queue', d)
        \/ \E x \in OpsIn(op_queue') : Failing(x)'
    BY <1>3, <1>4, <2>1 DEF Follows, Failing
  <2> QED
    BY <2>2, NoticeNext
<1>7. \A d \in Directions : Edge(d)'
  BY <1>4, <1>6 DEF Edges, Edge, Ready
<1>8. Len(waiting["in"]) \in Nat /\ Len(waiting["out"]) \in Nat
  BY WaitingFacts DEF Directions
<1>9. Edges'
  BY <1>5, <1>7 DEF Edges
<1>10. Len(waiting'["in"]) + Len(waiting'["out"]) + Count(op_queue') = Held(rest) + 1
  <2>1. waiting' = waiting
    BY DEF descVars
  <2>2. Count(op_queue') = Count(rest) + 1 /\ Count(rest) \in Nat
    BY <1>3
  <2>3. \A a, b, c \in Nat : a + b + (c + 1) = a + b + c + 1
    OBVIOUS
  <2>4. Len(waiting["in"]) + Len(waiting["out"]) + (Count(rest) + 1)
           = Len(waiting["in"]) + Len(waiting["out"]) + Count(rest) + 1
    BY <1>8, <2>2, <2>3
  <2> QED
    BY <2>1, <2>2, <2>4, Zenon DEF Held
<1> QED
  BY <1>3, <1>5, <1>9, <1>10

(* start_op performs the operation at once.                                *)
LEMMA Speculates ==
    ASSUME DescTypes, Waiters, Edges, NEW op \in Ops, op.kind # "connect", op.left > 0,
           NEW rest, Follows(rest), Busy = {}, Busy' = {},
           open, op.sock = sock, waiting[Direction(op)] = <<>>, speculative[Direction(op)],
           SystemCall(op),
           speculative' = [speculative EXCEPT ![Direction(op)] = ~Exhausted(op)],
           op_queue' = Append(rest, Finished(Performed(op))),
           UNCHANGED <<open, sock, waiting, registered, ended, listed>>
    PROVE  /\ DescTypes' /\ op_queue' \in Seq(Items) /\ Waiters' /\ Queue' /\ Edges'
           /\ Len(waiting'["in"]) + Len(waiting'["out"]) + Count(op_queue') = Held(rest) + 1
<1>1. PICK o : o = Performed(op)
  OBVIOUS
<1>2. PICK d \in Directions : d = Direction(op)
  BY PerformedFacts
<1>3. o \in Ops /\ o.kind = op.kind /\ o.sock = op.sock
  BY <1>1, PerformedFacts
<1> DEFINE f == <<Finished(o)>>
<1>4. f \in Seq(OpItems) /\ Len(f) = 1 /\ op_queue' = rest \o f /\ f[1].op = o
  BY <1>1, <1>3, ItemTypes DEF Follows
<1> HIDE DEF f
<1>5. /\ op_queue' \in Seq(Items) /\ Count(op_queue') = Count(rest) + 1 /\ Queue'
      /\ \A e : Queued(rest, e) => Queued(op_queue', e)
      /\ OpsIn(rest) \subseteq OpsIn(op_queue') /\ Count(rest) \in Nat
      /\ o \in OpsIn(op_queue')
  <2>1. 1 \in 1..Len(f)
    BY <1>4
  <2>2. /\ op_queue' \in Seq(Items) /\ Count(op_queue') = Count(rest) + 1 /\ Queue'
        /\ \A e : Queued(rest, e) => Queued(op_queue', e)
        /\ OpsIn(rest) \subseteq OpsIn(op_queue') /\ Count(rest) \in Nat
    BY <1>4, PushOps, CountConcat, CountOps DEF Follows, Queue
  <2>3. f[1].op \in OpsIn(rest \o f)
    BY <1>4, <2>1, PushOps DEF Follows
  <2> QED
    BY <1>4, <2>2, <2>3
<1>6. /\ avail' \in 0..MaxBuffer /\ space' \in 0..MaxBuffer /\ nospace' \in BOOLEAN
      /\ d = "in" => space' = space /\ nospace' = nospace
      /\ d = "out" => avail' = avail
      /\ nospace => nospace'
  BY <1>2, CallTypes
<1>7. /\ speculative' \in [Directions -> BOOLEAN]
      /\ speculative'[d] = ~Exhausted(op)
      /\ \A e \in Directions : e # d => speculative'[e] = speculative[e]
  BY <1>2 DEF DescTypes, Exhausted
<1>8. DescTypes' /\ Waiters' /\ Asked'
  BY <1>6, <1>7 DEF DescTypes, Waiters, Waits, Edges, Asked
<1>9. ASSUME NEW e \in Directions, Notice(e) PROVE Notice(e)'
  <2>1. \/ listed /\ e \in registered
        \/ Queued(op_queue, e)
        \/ Pending
    BY <1>9, QueueViews DEF Pending
  <2>2. \/ listed' /\ e \in registered'
        \/ Queued(op_queue', e)
        \/ \E x \in OpsIn(op_queue') : Failing(x)'
    BY <1>5, <2>1 DEF Follows, Failing
  <2> QED
    BY <2>2, NoticeNext
<1>10. Exhausted(op) => Notice(d)' \/ (d = "out" /\ ended # "err" /\ space' = 0 /\ nospace')
  <2>1. CASE Exhausted(op) /\ o.res = "fail"
    <3>1. Failing(o)'
      BY <1>3, <2>1 DEF Failing
    <3> QED
      BY <1>5, <3>1, NoticeNext
  <2>2. CASE Exhausted(op) /\ o.res # "fail"
    BY <1>1, <1>2, <2>2, ExhaustedFacts
  <2> QED
    BY <2>1, <2>2
<1>11. Edge(d)'
  <2> SUFFICES ASSUME Ready(d)', ~speculative'[d] PROVE Notice(d)'
    BY <1>2 DEF Edge
  <2>1. ~(d = "out" /\ ended # "err" /\ space' = 0)
    BY DEF Ready
  <2> QED
    BY <1>7, <1>10, <2>1
<1>12. ASSUME NEW e \in Directions, e # d PROVE Edge(e)'
  <2>1. Ready(e)' <=> Ready(e)
    BY <1>2, <1>6, <1>12 DEF Ready, Directions
  <2> QED
    BY <1>7, <1>9, <1>12, <2>1 DEF Edges, Edge
<1>13. SpaceAsked'
  <2>1. CASE d = "in"
    BY <1>6, <1>7, <2>1 DEF Edges, SpaceAsked, Directions
  <2>2. CASE d = "out"
    <3>1. waiting'["out"] = <<>>
      BY <1>2, <2>2
    <3>2. ~speculative'["out"] => nospace'
      <4>1. CASE Exhausted(op)
        BY <1>2, <2>2, <4>1, ExhaustedFacts DEF SystemCall, Exhausted, Direction, Ops
      <4>2. CASE ~Exhausted(op)
        BY <1>7, <2>2, <4>2
      <4> QED
        BY <4>1, <4>2
    <3> QED
      BY <3>1, <3>2 DEF SpaceAsked
  <2> QED
    BY <2>1, <2>2 DEF Directions
<1>14. Len(waiting["in"]) \in Nat /\ Len(waiting["out"]) \in Nat
  BY WaitingFacts DEF Directions
<1>15. \A e \in Directions : Edge(e)'
  BY <1>11, <1>12
<1>16. Edges'
  BY <1>8, <1>13, <1>15 DEF Edges
<1>17. Len(waiting'["in"]) + Len(waiting'["out"]) + Count(op_queue') = Held(rest) + 1
  <2>1. waiting' = waiting
    BY DEF descVars
  <2>2. Count(op_queue') = Count(rest) + 1 /\ Count(rest) \in Nat
    BY <1>5
  <2>3. \A a, b, c \in Nat : a + b + (c + 1) = a + b + c + 1
    OBVIOUS
  <2>4. Len(waiting["in"]) + Len(waiting["out"]) + (Count(rest) + 1)
           = Len(waiting["in"]) + Len(waiting["out"]) + Count(rest) + 1
    BY <1>14, <2>2, <2>3
  <2> QED
    BY <2>1, <2>2, <2>4, Zenon DEF Held
<1> QED
  BY <1>5, <1>8, <1>16, <1>17

(* start_op queues the operation at the descriptor.                        *)
LEMMA QueuesUp ==
    ASSUME DescTypes, Waiters, Edges, NEW op \in Ops, op.kind # "connect", op.left > 0,
           op.res = "none", NEW rest, Follows(rest), Busy = {}, Busy' = {},
           NEW d, d = Direction(op), NEW tries \in BOOLEAN, tries = (waiting[d] = <<>> /\ speculative[d]),
           open, op.sock = sock, ~(tries /\ Ready(d)),
           IF tries THEN SystemCall(op) ELSE UNCHANGED <<avail, space, nospace>>,
           IF waiting[d] = <<>> THEN Register(d) ELSE UNCHANGED <<registered, listed>>,
           waiting' = [waiting EXCEPT ![d] = Append(@, op)],
           op_queue' = rest,
           UNCHANGED <<open, sock, speculative, ended>>
    PROVE  /\ DescTypes' /\ op_queue' \in Seq(Items) /\ Waiters' /\ Queue' /\ Edges'
           /\ Len(waiting'["in"]) + Len(waiting'["out"]) + Count(op_queue') = Held(rest) + 1
<1>1. d \in Directions
  BY PerformedFacts
<1>2. /\ avail' = avail /\ space' = space /\ nospace' \in BOOLEAN
      /\ nospace => nospace'
      /\ tries /\ d = "out" => nospace'
      /\ d = "in" => nospace' = nospace
  <2>1. CASE tries
    <3>1. d = "out" => op.kind = "write"
      BY DEF Direction, Ops
    <3>2. /\ avail' = avail /\ space' = space
          /\ op.kind = "write" /\ op.left > 0 => nospace'
      BY <2>1, AgainFacts
    <3>3. /\ nospace' \in BOOLEAN
          /\ nospace => nospace'
          /\ d = "in" => nospace' = nospace
      BY <2>1, CallTypes
    <3> QED
      BY <3>1, <3>2, <3>3
  <2>2. CASE ~tries
    BY <2>2 DEF DescTypes
  <2> QED
    BY <2>1, <2>2
<1>3. /\ registered \subseteq registered' /\ registered' \subseteq registered \cup {d}
      /\ d \in registered' /\ listed' \in BOOLEAN
      /\ listed => listed'
      /\ d \notin registered /\ Ready(d) => listed'
  <2>1. CASE waiting[d] = <<>>
    BY <2>1 DEF Register, DescTypes
  <2>2. CASE waiting[d] # <<>>
    <3>1. d \in registered
      BY <1>1, <2>2 DEF Edges, Asked, Directions
    <3> QED
      BY <2>2, <3>1 DEF DescTypes
  <2> QED
    BY <2>1, <2>2
<1>4. /\ waiting[d] \in Seq(Ops) /\ Len(waiting[d]) \in Nat /\ waiting'[d] = Append(waiting[d], op)
      /\ \A e \in Directions : e # d => waiting'[e] = waiting[e]
  BY <1>1, WaitingFacts DEF DescTypes
<1>5. /\ waiting'[d] \in Seq(Ops) /\ Len(waiting'[d]) = Len(waiting[d]) + 1
      /\ \A i \in 1..Len(waiting[d]) : waiting'[d][i] = waiting[d][i]
      /\ waiting'[d][Len(waiting[d]) + 1] = op
  BY <1>4, AppendProperties
<1>6. DescTypes'
  <2>1. waiting' \in [Directions -> Seq(Ops)]
    BY <1>1, <1>4, <1>5 DEF DescTypes
  <2> QED
    BY <1>1, <1>2, <1>3, <2>1 DEF DescTypes
<1>7. Waiters'
  <2> SUFFICES ASSUME NEW e \in Directions, NEW i \in 1..Len(waiting'[e]),
                      NEW x, x = waiting'[e][i]
               PROVE  Waits(x, e, i)'
    BY DEF Waiters, Waits
  <2>1. CASE e # d
    BY <1>4, <2>1 DEF Waiters, Waits
  <2>2. CASE e = d /\ i = Len(waiting[d]) + 1
    BY <1>5, <2>2 DEF Waits
  <2>3. CASE e = d /\ i # Len(waiting[d]) + 1
    <3>1. i \in 1..Len(waiting[d]) /\ x = waiting[e][i]
      BY <1>4, <1>5, <2>3
    <3> QED
      BY <2>3, <3>1 DEF Waiters, Waits
  <2> QED
    BY <2>1, <2>2, <2>3
<1>8. Queue' /\ op_queue' \in Seq(Items)
  BY DEF Follows, Queue
<1>9. Asked'
  BY <1>1, <1>3, <1>4 DEF Edges, Asked, Directions
<1>10. ASSUME NEW e \in Directions, Notice(e) PROVE Notice(e)'
  <2>1. \/ listed /\ e \in registered
        \/ Queued(op_queue, e)
        \/ Pending
    BY <1>10, QueueViews DEF Pending
  <2>2. \/ listed' /\ e \in registered'
        \/ Queued(op_queue', e)
        \/ \E x \in OpsIn(op_queue') : Failing(x)'
    BY <1>3, <2>1 DEF Follows, Failing
  <2> QED
    BY <2>2, NoticeNext
<1>11. \A e \in Directions : Ready(e)' <=> Ready(e)
  BY <1>2 DEF Ready
<1>12. ASSUME NEW e \in Directions, e # d PROVE Edge(e)'
  BY <1>3, <1>4, <1>10, <1>11, <1>12 DEF Edges, Edge
<1>13. Edge(d)'
  <2> SUFFICES ASSUME Ready(d) PROVE Notice(d)'
    BY <1>1, <1>11 DEF Edge
  <2>1. waiting[d] # <<>> \/ ~speculative[d]
    OBVIOUS
  <2>2. CASE d \in registered
    BY <1>1, <1>10, <2>1, <2>2 DEF Edges, Edge
  <2>3. CASE d \notin registered
    BY <1>3, <2>3, NoticeNext
  <2> QED
    BY <2>2, <2>3
<1>14. SpaceAsked'
  <2>1. CASE d = "in"
    BY <1>2, <1>4, <2>1 DEF Edges, SpaceAsked, Directions
  <2>2. CASE d = "out"
    <3>1. space = 0 => nospace'
      BY <1>2, <2>2 DEF Edges, SpaceAsked
    <3> QED
      BY <1>2, <3>1 DEF SpaceAsked
  <2> QED
    BY <1>1, <2>1, <2>2 DEF Directions
<1>15. Edges'
  BY <1>9, <1>12, <1>13, <1>14 DEF Edges
<1>16. Len(waiting'["in"]) + Len(waiting'["out"]) + Count(op_queue') = Held(rest) + 1
  <2>1. Len(waiting["in"]) \in Nat /\ Len(waiting["out"]) \in Nat
    BY WaitingFacts DEF Directions
  <2>2. Count(rest) \in Nat /\ Count(op_queue') = Count(rest)
    BY CountConcat DEF Follows
  <2>3. \A a, b, c \in Nat : /\ (a + 1) + b + c = a + b + c + 1
                             /\ a + (b + 1) + c = a + b + c + 1
    OBVIOUS
  <2>4. CASE d = "in"
    <3>1. Len(waiting'["in"]) = Len(waiting["in"]) + 1 /\ Len(waiting'["out"]) = Len(waiting["out"])
      BY <1>4, <1>5, <2>4 DEF Directions
    <3>2. (Len(waiting["in"]) + 1) + Len(waiting["out"]) + Count(rest)
             = Len(waiting["in"]) + Len(waiting["out"]) + Count(rest) + 1
      BY <2>1, <2>2, <2>3
    <3> QED
      BY <2>2, <3>1, <3>2, Zenon DEF Held
  <2>5. CASE d = "out"
    <3>1. Len(waiting'["in"]) = Len(waiting["in"]) /\ Len(waiting'["out"]) = Len(waiting["out"]) + 1
      BY <1>4, <1>5, <2>5 DEF Directions
    <3>2. Len(waiting["in"]) + (Len(waiting["out"]) + 1) + Count(rest)
             = Len(waiting["in"]) + Len(waiting["out"]) + Count(rest) + 1
      BY <2>1, <2>2, <2>3
    <3> QED
      BY <2>2, <3>1, <3>2, Zenon DEF Held
  <2> QED
    BY <1>1, <2>4, <2>5 DEF Directions
<1> QED
  BY <1>6, <1>7, <1>8, <1>15, <1>16

(* start_op keeps the invariant and adds one operation.                    *)
LEMMA StartFacts ==
    ASSUME DescTypes, Waiters, Edges, NEW op \in Ops, op.kind # "connect", op.left > 0,
           op.res = "none", NEW rest, Follows(rest), Busy = {}, Busy' = {},
           NEW gained, StartOp(op, rest, gained)
    PROVE  /\ DescTypes' /\ op_queue' \in Seq(Items) /\ Waiters' /\ Queue' /\ Edges'
           /\ Len(waiting'["in"]) + Len(waiting'["out"]) + Count(op_queue') = Held(rest) + 1
           /\ work' = work + gained
<1> DEFINE d == Direction(op)
           tries == waiting[d] = <<>> /\ speculative[d]
<1>1. work' = work + gained
  BY DEF StartOp
<1>2. CASE /\ open /\ op.sock = sock /\ tries /\ Ready(d)
           /\ SystemCall(op)
           /\ speculative' = [speculative EXCEPT ![d] = ~Exhausted(op)]
           /\ op_queue' = Append(rest, Finished(Performed(op)))
           /\ UNCHANGED <<open, sock, waiting, registered, ended, listed>>
  BY <1>1, <1>2, Speculates
<1>3. CASE /\ open /\ op.sock = sock /\ ~(tries /\ Ready(d))
           /\ IF tries THEN SystemCall(op) ELSE UNCHANGED <<avail, space, nospace>>
           /\ IF waiting[d] = <<>> THEN Register(d) ELSE UNCHANGED <<registered, listed>>
           /\ waiting' = [waiting EXCEPT ![d] = Append(@, op)]
           /\ op_queue' = rest
           /\ UNCHANGED <<open, sock, speculative, ended>>
  BY <1>1, <1>3, QueuesUp
<1>4. CASE /\ op_queue' = Append(rest, Finished([op EXCEPT !.res = "fail"]))
           /\ UNCHANGED <<descVars, kernelVars>>
  BY <1>1, <1>4, BadDescriptor
<1> QED
  BY <1>2, <1>3, <1>4 DEF StartOp

(* deregister_descriptor queues what waits and loses nothing.              *)
LEMMA DeregisterFacts ==
    ASSUME DescTypes, Waiters, NEW rest \in Seq(Items), TaskOnce(rest), DescriptorOnce(rest),
           Deregister(rest), Busy' = {}
    PROVE  /\ DescTypes' /\ op_queue' \in Seq(Items) /\ Waiters' /\ Queue' /\ Edges'
           /\ Len(waiting'["in"]) + Len(waiting'["out"]) + Count(op_queue') = Held(rest)
<1> DEFINE aborted == waiting["in"] \o waiting["out"]
           f == [i \in 1..Len(aborted) |-> Finished([aborted[i] EXCEPT !.res = "fail"])]
<1>1. /\ open' = FALSE /\ listed' = FALSE
      /\ waiting' = [d \in Directions |-> <<>>]
      /\ op_queue' = rest \o f
      /\ UNCHANGED <<sock, speculative, registered, avail, ended, space, nospace>>
  BY DEF Deregister, Directions
<1>2. /\ waiting["in"] \in Seq(Ops) /\ waiting["out"] \in Seq(Ops)
      /\ Len(waiting["in"]) \in Nat /\ Len(waiting["out"]) \in Nat
  BY WaitingFacts DEF Directions
<1>3. /\ aborted \in Seq(Ops) /\ Len(aborted) = Len(waiting["in"]) + Len(waiting["out"])
      /\ Len(aborted) \in Nat
  <2>1. aborted \in Seq(Ops) /\ Len(aborted) = Len(waiting["in"]) + Len(waiting["out"])
    BY <1>2, ConcatProperties
  <2> QED
    BY <1>2, <2>1, LenProperties
<1>4. \A i \in 1..Len(aborted) : aborted[i] \in Ops
  BY <1>3, ElementOfSeq
<1> HIDE DEF aborted
<1>5. f \in Seq(OpItems) /\ Len(f) = Len(aborted)
  <2>1. ASSUME NEW i \in 1..Len(aborted) PROVE f[i] \in OpItems
    <3>1. [aborted[i] EXCEPT !.res = "fail"] \in Ops
      BY <1>4 DEF Ops
    <3> QED
      BY <3>1, ItemTypes
  <2>2. f \in [1..Len(aborted) -> OpItems]
    BY <2>1
  <2> HIDE DEF f
  <2> QED
    BY <1>3, <2>2, FunctionIsSeq
<1> HIDE DEF f
<1>6. /\ op_queue' \in Seq(Items) /\ Count(op_queue') = Count(rest) + Len(f) /\ Queue'
      /\ Count(rest) \in Nat
  BY <1>1, <1>5, PushOps, CountConcat, CountOps DEF Queue
<1>7. waiting'["in"] = <<>> /\ waiting'["out"] = <<>> /\ waiting' \in [Directions -> Seq(Ops)]
  BY <1>1 DEF Directions
<1>8. DescTypes'
  BY <1>1, <1>7 DEF DescTypes
<1>9. Waiters' /\ Edges'
  BY <1>1, <1>7 DEF Waiters, Edges, Asked, SpaceAsked, Edge, Directions
<1>10. Len(waiting'["in"]) + Len(waiting'["out"]) + Count(op_queue') = Held(rest)
  <2>1. Len(waiting'["in"]) = 0 /\ Len(waiting'["out"]) = 0
    BY <1>7
  <2>2. Count(op_queue') = Count(rest) + (Len(waiting["in"]) + Len(waiting["out"]))
        /\ Count(rest) \in Nat
    BY <1>3, <1>5, <1>6
  <2>3. \A a, b, c \in Nat : 0 + 0 + (c + (a + b)) = a + b + c
    OBVIOUS
  <2>4. 0 + 0 + (Count(rest) + (Len(waiting["in"]) + Len(waiting["out"])))
           = Len(waiting["in"]) + Len(waiting["out"]) + Count(rest)
    BY <1>2, <2>2, <2>3
  <2> QED
    BY <2>1, <2>2, <2>4, Zenon DEF Held
<1> QED
  BY <1>6, <1>8, <1>9, <1>10

(* A handler runs, with rest queued behind it.                             *)
LEMMA HandleStep ==
    ASSUME IInv, Busy = {}, io' = <<>>, NEW op \in Ops, NEW rest \in Seq(Items),
           TaskOnce(rest), DescriptorOnce(rest), \A d : Queued(op_queue, d) => Queued(rest, d),
           Pending => Failing(op) \/ \E x \in OpsIn(rest) : Failing(x),
           work = Held(rest) + 1, Handle(op, rest)
    PROVE  IInv'
<1>1. DescTypes /\ Waiters /\ Edges /\ work \in Nat /\ at \in [Threads -> {"run", "call"}]
  BY TypeParts DEF IInv, Shapes
<1>2. Busy' = {} /\ Done' = <<>> /\ Len(Done') = 0
  BY DEF Busy, Done, InRunOne
<1>3. Held(rest) \in Nat
  <2>1. Len(waiting["in"]) \in Nat /\ Len(waiting["out"]) \in Nat
    BY <1>1, WaitingFacts DEF Directions
  <2>2. Count(rest) \in Nat
    BY CountConcat
  <2>3. \A a, b, c \in Nat : a + b + c \in Nat
    OBVIOUS
  <2>4. Len(waiting["in"]) + Len(waiting["out"]) + Count(rest) \in Nat
    BY <2>1, <2>2, <2>3
  <2> QED
    BY <2>4, Zenon DEF Held
<1> DEFINE total == Len(waiting'["in"]) + Len(waiting'["out"]) + Count(op_queue')
<1>4. ASSUME DescTypes', op_queue' \in Seq(Items), Waiters', Queue', Edges', work' = total,
             work' \in Nat, at' \in [Threads -> {"run", "call"}]
      PROVE  IInv'
  <2>1. TypeOK'
    BY <1>4 DEF TypeOK, DescTypes
  <2>2. Shapes'
    BY <1>4, <2>1 DEF Shapes
  <2>3. WorkExact'
    <3>1. PlacesIn(op_queue', "op") = Places("op")'
      BY DEF PlacesIn, Places
    <3>2. Len(waiting'["in"]) \in Nat /\ Len(waiting'["out"]) \in Nat
      <4>1. waiting'["in"] \in Seq(Ops) /\ waiting'["out"] \in Seq(Ops)
        BY <1>4 DEF DescTypes, Directions
      <4> QED
        BY <4>1, LenProperties
    <3>3. Count(op_queue') \in Nat
      BY <1>4, CountConcat
    <3>4. \A a, b, c \in Nat : a + b + c = a + b + 0 + c
      OBVIOUS
    <3>5. work' = Len(waiting'["in"]) + Len(waiting'["out"]) + 0 + Count(op_queue')
      BY <1>4, <3>2, <3>3, <3>4
    <3> QED
      BY <1>2, <3>1, <3>5, Zenon DEF WorkExact, Count
  <2> QED
    BY <1>4, <2>2, <2>3 DEF IInv
<1>5. CASE NeedsMore(op)
  <2> DEFINE o == [op EXCEPT !.res = "none"]
  <2>1. /\ o \in Ops /\ o.kind = op.kind /\ o.left = op.left /\ o.res = "none"
        /\ op.kind # "connect" /\ op.left > 0 /\ op.res = "ok"
    BY <1>5 DEF NeedsMore, Ops
  <2>2. StartOp(o, rest, 0) /\ at' = at
    BY <1>5 DEF Handle
  <2> HIDE DEF o
  <2>3. Follows(rest)
    BY <2>1 DEF Follows, Failing
  <2>4. /\ DescTypes' /\ op_queue' \in Seq(Items) /\ Waiters' /\ Queue' /\ Edges'
        /\ total = Held(rest) + 1 /\ work' = work + 0
    BY <1>1, <1>2, <2>1, <2>2, <2>3, StartFacts
  <2> HIDE DEF total
  <2> QED
    BY <1>1, <1>3, <1>4, <2>2, <2>4
<1>6. CASE ~NeedsMore(op)
  <2>1. at' = [at EXCEPT ![op.who] = "run"] /\ work' = work - 1
    BY <1>6 DEF Handle
  <2>2. at' \in [Threads -> {"run", "call"}] /\ work' = Held(rest) /\ work' \in Nat
    <3>1. at' \in [Threads -> {"run", "call"}]
      BY <1>1, <2>1
    <3>2. \A n \in Nat : (n + 1) - 1 = n
      OBVIOUS
    <3>3. work' = Held(rest)
      BY <1>3, <2>1, <3>2
    <3> QED
      BY <1>3, <3>1, <3>3
  <2>3. CASE ClosesOnError(op)
    <3>1. Deregister(rest)
      BY <1>6, <2>3 DEF Handle
    <3>2. /\ DescTypes' /\ op_queue' \in Seq(Items) /\ Waiters' /\ Queue' /\ Edges'
          /\ total = Held(rest)
      BY <1>1, <1>2, <3>1, DeregisterFacts
    <3> HIDE DEF total
    <3> QED
      BY <1>4, <2>2, <3>2
  <2>4. CASE ~ClosesOnError(op)
    <3>1. op_queue' = rest /\ UNCHANGED <<descVars, kernelVars>>
      BY <1>6, <2>4 DEF Handle
    <3>2. /\ UNCHANGED <<open, sock, waiting, speculative, registered>>
          /\ UNCHANGED <<avail, ended, space, nospace, listed>>
      BY <3>1 DEF descVars, kernelVars
    <3>3. DescTypes' /\ Waiters' /\ Asked' /\ SpaceAsked' /\ Queue'
      BY <1>1, <1>2, <3>1, <3>2 DEF DescTypes, Waiters, Waits, Edges, Asked, SpaceAsked, Queue
    <3>4. ASSUME NEW d \in Directions, open, Notice(d) PROVE Notice(d)'
      <4>1. \/ listed /\ d \in registered
            \/ Queued(op_queue, d)
            \/ Pending
        BY <3>4, QueueViews DEF Pending
      <4>2. ~Failing(op)
        BY <2>4, <3>4 DEF Failing, ClosesOnError
      <4>3. \/ listed' /\ d \in registered'
            \/ Queued(op_queue', d)
            \/ \E x \in OpsIn(op_queue') : Failing(x)'
        BY <3>1, <3>2, <4>1, <4>2 DEF Failing
      <4> QED
        BY <4>3, NoticeNext
    <3>5. \A d \in Directions : Edge(d)'
      BY <1>1, <3>2, <3>4 DEF Edges, Edge, Ready
    <3>6. Edges'
      BY <1>2, <3>3, <3>5 DEF Edges
    <3>7. work' = total
      BY <2>2, <3>1, <3>2 DEF Held
    <3> HIDE DEF total
    <3> QED
      BY <1>4, <2>2, <3>1, <3>3, <3>6, <3>7
  <2> QED
    BY <2>3, <2>4
<1> QED
  BY <1>5, <1>6

----------------------------------------------------------------------------
(* perform_io in progress.                                                 *)
LEMMA TodoFacts ==
    ASSUME NEW todo \in Todos
    PROVE  /\ todo \in Seq(Directions) /\ ToSet(todo) \subseteq Directions
           /\ todo = <<>> => ToSet(todo) = {}
           /\ todo # <<>> =>
                 /\ Head(todo) \in Directions /\ Tail(todo) \in Todos
                 /\ Head(todo) \in ToSet(todo)
                 /\ ToSet(Tail(todo)) = ToSet(todo) \ {Head(todo)}
<1>1. /\ ToSet(<<>>) = {}
      /\ ToSet(<<"in">>) = {"in"} /\ ToSet(<<"out">>) = {"out"}
      /\ ToSet(<<"out", "in">>) = {"out", "in"}
  BY DEF ToSet
<1>2. /\ Tail(<<"in">>) = <<>> /\ Tail(<<"out">>) = <<>> /\ Tail(<<"out", "in">>) = <<"in">>
      /\ Head(<<"in">>) = "in" /\ Head(<<"out">>) = "out" /\ Head(<<"out", "in">>) = "out"
  OBVIOUS
<1>3. CASE todo = <<>>
  BY <1>1, <1>3
<1>4. CASE todo = <<"in">>
  BY <1>1, <1>2, <1>4 DEF Todos, Directions
<1>5. CASE todo = <<"out">>
  BY <1>1, <1>2, <1>5 DEF Todos, Directions
<1>6. CASE todo = <<"out", "in">>
  BY <1>1, <1>2, <1>6 DEF Todos, Directions
<1> QED
  BY <1>3, <1>4, <1>5, <1>6 DEF Todos

(* perform_io in progress, or not.                                         *)
LEMMA IoFacts ==
    ASSUME Shapes
    PROVE  /\ InRunOne => /\ io[1].todo \in Todos /\ io[1].done \in Seq(Ops)
                          /\ io = <<io[1]>> /\ Busy = ToSet(io[1].todo) /\ Done = io[1].done
           /\ ~InRunOne => Busy = {} /\ Done = <<>>
           /\ Busy \subseteq Directions
<1>1. CASE InRunOne
  <2>1. PICK r \in [todo : Todos, done : Seq(Ops)] : io = <<r>>
    BY <1>1 DEF Shapes, InRunOne
  <2>2. io[1] = r
    BY <2>1
  <2> QED
    BY <1>1, <2>1, <2>2, TodoFacts DEF Busy, Done
<1>2. CASE ~InRunOne
  BY <1>2 DEF Busy, Done
<1> QED
  BY <1>1, <1>2

(* Failed operations of the socket are in the queue or in done.            *)
LEMMA PendingPlace ==
    ASSUME IInv, Pending
    PROVE  (\E x \in OpsIn(op_queue) : Failing(x)) \/ (\E x \in ToSet(Done) : Failing(x))
<1>1. PICK x \in Outstanding : Failing(x)
  BY DEF Pending
<1>2. x \notin ToSet(waiting["in"]) \cup ToSet(waiting["out"])
  BY <1>1, WaitingFacts, TypeParts DEF IInv, Shapes, Failing
<1>3. x \in ToSet(Done) \/ x \in OpsIn(op_queue)
  BY <1>2, QueueViews
<1> QED
  BY <1>1, <1>3

(* Between two calls of run_one the count is of what waits and what is     *)
(* queued.                                                                 *)
LEMMA OutsideRunOne ==
    ASSUME IInv, ~InRunOne
    PROVE  /\ Busy = {} /\ work = Held(op_queue)
           /\ Follows(op_queue) /\ Len(waiting["in"]) \in Nat /\ Len(waiting["out"]) \in Nat
           /\ Count(op_queue) \in Nat
<1>1. Busy = {} /\ Done = <<>> /\ ToSet(Done) = {}
  <2>1. Done = <<>> /\ ToSet(<<>>) = {}
    BY DEF Done, ToSet
  <2> QED
    BY <2>1 DEF Busy
<1>2. Len(waiting["in"]) \in Nat /\ Len(waiting["out"]) \in Nat
  BY WaitingFacts, TypeParts DEF IInv, Shapes, Directions
<1>3. op_queue \in Seq(Items) /\ Count(op_queue) \in Nat
  BY CountConcat DEF IInv, Shapes
<1>4. work = Held(op_queue)
  <2>1. Places("op") = PlacesIn(op_queue, "op") /\ Len(<<>>) = 0
    BY DEF Places, PlacesIn
  <2>2. work = Len(waiting["in"]) + Len(waiting["out"]) + 0 + Count(op_queue)
    BY <1>1, <2>1 DEF IInv, WorkExact, Count
  <2>3. \A a, b, c \in Nat : a + b + 0 + c = a + b + c
    OBVIOUS
  <2> QED
    BY <1>2, <1>3, <2>2, <2>3 DEF Held
<1>5. Follows(op_queue)
  BY <1>1, <1>3, PendingPlace DEF Follows, IInv, Queue
<1> QED
  BY <1>1, <1>2, <1>3, <1>4, <1>5

(* The count, in one formula for the next state.                           *)
LEMMA WorkNext ==
    ASSUME Len(waiting'["in"]) \in Nat, Len(waiting'["out"]) \in Nat, Count(op_queue') \in Nat,
           NEW n \in Nat, Len(Done') = n,
           work' = Len(waiting'["in"]) + Len(waiting'["out"]) + n + Count(op_queue')
    PROVE  WorkExact'
<1>1. PlacesIn(op_queue', "op") = Places("op")'
  BY DEF PlacesIn, Places
<1> QED
  BY <1>1, Zenon DEF WorkExact, Count

(* A step that takes nothing off the queues keeps every notification.      *)
LEMMA NoticeKept ==
    ASSUME UNCHANGED <<sock, waiting, registered, op_queue, io>>, listed => listed', NEW d, Notice(d)
    PROVE  Notice(d)'
<1>1. Outstanding' = Outstanding /\ Busy' = Busy
  BY DEF Outstanding, Done, InRunOne, Places, Busy
<1> QED
  BY <1>1 DEF Notice, Places, Failing

----------------------------------------------------------------------------
(* Init and the steps.                                                     *)
LEMMA InitIInv == Init => IInv
<1> SUFFICES ASSUME Init PROVE IInv
  OBVIOUS
<1>1. waiting["in"] = <<>> /\ waiting["out"] = <<>> /\ Len(<<>>) = 0
  BY DEF Init
<1>2. /\ op_queue = <<Task>> /\ op_queue \in Seq(Items) /\ Len(op_queue) = 1
      /\ op_queue[1].type = "task"
  BY ItemTypes DEF Init
<1>3. Busy = {} /\ Done = <<>>
  BY DEF Init, Busy, Done, InRunOne
<1>4. TypeOK
  <2>1. MaxBuffer \in Nat /\ MaxSockets \in Nat
    BY ReactorAssumption
  <2>2. <<>> \in Seq(Ops)
    OBVIOUS
  <2>3. waiting \in [Directions -> Seq(Ops)]
    BY <2>2 DEF Init, Directions
  <2>4. speculative \in [Directions -> BOOLEAN] /\ at \in [Threads -> {"run", "call"}]
    BY DEF Init, Directions
  <2>5. 0 \in 0..MaxBuffer /\ 0 \in 0..MaxSockets
    BY <2>1
  <2> QED
    BY <2>3, <2>4, <2>5 DEF Init, TypeOK
<1>5. Shapes
  BY <1>2, <1>4 DEF Shapes, Init
<1>6. Waiters
  BY <1>1 DEF Waiters, Directions
<1>7. Queue
  BY <1>2 DEF Queue, TaskOnce, DescriptorOnce
<1>8. WorkExact
  <2>1. Places("op") = {}
    BY <1>2 DEF Places
  <2>2. Cardinality(Places("op")) = 0
    BY <2>1, FS_EmptySet
  <2>3. work = 0
    BY DEF Init
  <2> QED
    BY <1>1, <1>3, <2>2, <2>3 DEF WorkExact
<1>9. Edges
  BY <1>1, <1>3 DEF Init, Edges, Asked, SpaceAsked, Edge
<1> QED
  BY <1>5, <1>6, <1>7, <1>8, <1>9 DEF IInv

(* Bytes arrive, space is freed, the peer ends: the kernel lists the       *)
(* descriptor whenever somebody may wait for it.                           *)
LEMMA KernelSteps == ASSUME IInv, Arrive \/ Drain \/ PeerEnds PROVE IInv'
<1>1. /\ UNCHANGED <<open, sock, waiting, speculative, registered, op_queue, work, io, at>>
      /\ open /\ listed' \in BOOLEAN
      /\ listed => listed'
  BY DEF Arrive, Drain, PeerEnds, descVars, IInv, Shapes, TypeOK
<1>2. DescTypes /\ MaxBuffer \in Nat
  BY TypeParts, ReactorAssumption DEF IInv, Shapes
<1>3. TypeOK'
  <2>1. avail' \in 0..MaxBuffer /\ space' \in 0..MaxBuffer
    BY <1>2 DEF Arrive, Drain, PeerEnds, DescTypes
  <2>2. ended' \in {"no", "eof", "err"} /\ nospace' \in BOOLEAN
    BY <1>2 DEF Arrive, Drain, PeerEnds, DescTypes
  <2> QED
    BY <1>1, <2>1, <2>2 DEF IInv, Shapes, TypeOK
<1>4. Shapes' /\ Waiters' /\ Queue' /\ WorkExact'
  BY <1>1, <1>3 DEF IInv, Shapes, Waiters, Waits, Queue, WorkExact, Places, Done, InRunOne
<1>5. Busy' = Busy
  BY <1>1 DEF Busy, InRunOne
<1>6. \A d : Notice(d) => Notice(d)'
  BY <1>1, NoticeKept
<1>7. \A d \in Directions : Edge(d)'
  <2>1. CASE listed'
    BY <2>1 DEF Edge, Notice
  <2>2. CASE ~listed'
    <3>1. Drain
      BY <2>2 DEF Arrive, PeerEnds
    <3>2. space \in Nat /\ avail' = avail /\ ended' = ended /\ ended # "err"
      BY <1>2, <3>1 DEF Drain, DescTypes
    <3>3. \A d : Ready(d)' => Ready(d) \/ (d = "out" /\ space = 0)
      BY <3>2 DEF Ready
    <3>4. ASSUME NEW d \in Directions PROVE Edge(d)'
      <4> SUFFICES ASSUME d \in registered, Ready(d)', waiting[d] # <<>> \/ ~speculative[d]
                   PROVE  Notice(d)'
        BY <1>1 DEF Edge
      <4>1. CASE Ready(d)
        BY <1>1, <1>6, <4>1 DEF IInv, Edges, Edge
      <4>2. CASE d = "out" /\ space = 0
        <5>1. nospace \/ "out" \in Busy
          BY <1>1, <4>2 DEF IInv, Edges, SpaceAsked
        <5>2. ~nospace
          BY <2>2, <3>1, <4>2 DEF Drain
        <5> QED
          BY <1>5, <4>2, <5>1, <5>2, NoticeNext
      <4> QED
        BY <3>3, <4>1, <4>2
    <3> QED
      BY <3>4
  <2> QED
    BY <2>1, <2>2
<1>8. SpaceAsked'
  <2>1. CASE Drain
    <3>1. space' # 0
      BY <1>2, <2>1 DEF Drain, DescTypes
    <3> QED
      BY <3>1 DEF SpaceAsked
  <2>2. CASE Arrive \/ PeerEnds
    BY <1>1, <1>5, <2>2 DEF Arrive, PeerEnds, IInv, Edges, SpaceAsked
  <2> QED
    BY <2>1, <2>2
<1>9. Edges'
  BY <1>1, <1>5, <1>7, <1>8 DEF IInv, Edges, Asked
<1> QED
  BY <1>4, <1>9 DEF IInv

(* register_descriptor for an accepted socket.                             *)
LEMMA AcceptedStep == ASSUME IInv, Accepted PROVE IInv'
<1>1. /\ ~InRunOne /\ ~open /\ sock < MaxSockets /\ open' = TRUE /\ sock' = sock + 1
      /\ speculative' = [d \in Directions |-> TRUE] /\ avail' = 0 /\ ended' = "no"
      /\ registered' = {"in"} /\ space' = MaxBuffer /\ nospace' = FALSE /\ listed' = FALSE
      /\ UNCHANGED <<waiting, op_queue, work, io, at>>
  BY DEF Accepted, NewSocket, Directions
<1>2. DescTypes /\ MaxBuffer \in Nat \ {0} /\ MaxSockets \in Nat
  BY TypeParts, ReactorAssumption DEF IInv, Shapes
<1>3. waiting["in"] = <<>> /\ waiting["out"] = <<>> /\ Len(<<>>) = 0
  BY <1>1, <1>2, WaitingFacts DEF IInv, Directions
<1>4. TypeOK'
  <2>1. sock' \in 0..MaxSockets /\ avail' \in 0..MaxBuffer /\ space' \in 0..MaxBuffer
    BY <1>1, <1>2 DEF DescTypes
  <2>2. speculative' \in [Directions -> BOOLEAN] /\ registered' \subseteq Directions
    BY <1>1 DEF Directions
  <2> QED
    BY <1>1, <2>1, <2>2 DEF IInv, Shapes, TypeOK
<1>5. Shapes' /\ Queue' /\ WorkExact'
  BY <1>1, <1>4 DEF IInv, Shapes, Queue, WorkExact, Places, Done, InRunOne
<1>6. Waiters'
  BY <1>1, <1>3 DEF Waiters, Directions
<1>7. Busy' = {}
  BY <1>1 DEF Busy, InRunOne
<1>8. Edges'
  BY <1>1, <1>2, <1>3, <1>7 DEF Edges, Asked, SpaceAsked, Edge, Directions
<1> QED
  BY <1>5, <1>6, <1>8 DEF IInv

(* start_connect_op.                                                       *)
LEMMA ConnectStep == ASSUME IInv, NEW t \in Threads, Connect(t) PROVE IInv'
<1>1. PICK c : c = [who |-> t, kind |-> "connect", left |-> 0, sock |-> sock', res |-> "none"]
  OBVIOUS
<1>2. /\ ~InRunOne /\ ~open /\ sock < MaxSockets /\ open' = TRUE /\ sock' = sock + 1
      /\ speculative' = [d \in Directions |-> TRUE] /\ avail' = 0 /\ ended' = "no"
      /\ registered' = {"in", "out"} /\ space' = 0 /\ nospace' = TRUE /\ listed' = FALSE
      /\ waiting' = [waiting EXCEPT !["out"] = <<c>>] /\ work' = work + 1
      /\ at' = [at EXCEPT ![t] = "call"]
      /\ UNCHANGED <<op_queue, io>>
  BY <1>1 DEF Connect, NewSocket, Directions
<1>3. DescTypes /\ MaxBuffer \in Nat \ {0} /\ MaxSockets \in Nat /\ work \in Nat
  BY TypeParts, ReactorAssumption DEF IInv, Shapes
<1>4. sock' \in 1..MaxSockets /\ sock' \in 0..MaxSockets
  BY <1>2, <1>3 DEF DescTypes
<1>5. c \in Ops /\ c.kind = "connect" /\ c.res = "none" /\ c.sock = sock' /\ Direction(c) = "out"
  BY <1>1, <1>4 DEF Ops, Direction
<1>6. waiting["in"] = <<>> /\ waiting["out"] = <<>> /\ Len(<<>>) = 0
  BY <1>2, <1>3, WaitingFacts DEF IInv, Directions
<1>7. /\ waiting'["in"] = <<>> /\ waiting'["out"] = <<c>> /\ waiting' \in [Directions -> Seq(Ops)]
      /\ Len(<<c>>) = 1 /\ <<c>>[1] = c
  BY <1>2, <1>3, <1>5, <1>6 DEF DescTypes, Directions
<1>8. TypeOK'
  <2>1. avail' \in 0..MaxBuffer /\ space' \in 0..MaxBuffer /\ work' \in Nat
    BY <1>2, <1>3
  <2>2. speculative' \in [Directions -> BOOLEAN] /\ registered' \subseteq Directions
    BY <1>2 DEF Directions
  <2>3. at' \in [Threads -> {"run", "call"}]
    BY <1>2 DEF IInv, Shapes, TypeOK
  <2> QED
    BY <1>2, <1>4, <1>7, <2>1, <2>2, <2>3 DEF TypeOK
<1>9. Shapes' /\ Queue'
  BY <1>2, <1>8 DEF IInv, Shapes, Queue
<1>10. WorkExact'
  <2>1. work = Held(op_queue) /\ Count(op_queue) \in Nat
    BY <1>2, OutsideRunOne
  <2>2. work = 0 + 0 + Count(op_queue)
    BY <1>6, <2>1 DEF Held
  <2>3. Len(waiting'["in"]) = 0 /\ Len(waiting'["out"]) = 1 /\ Len(Done') = 0 /\ op_queue' = op_queue
    BY <1>2, <1>6, <1>7 DEF Done, InRunOne
  <2>4. \A n \in Nat : (0 + 0 + n) + 1 = 0 + 1 + 0 + n
    OBVIOUS
  <2>5. work' = 0 + 1 + 0 + Count(op_queue)
    BY <1>2, <2>1, <2>2, <2>4
  <2>6. work' = Len(waiting'["in"]) + Len(waiting'["out"]) + 0 + Count(op_queue')
    BY <2>3, <2>5, Zenon
  <2> QED
    BY <2>1, <2>3, <2>6, WorkNext
<1>11. Waiters'
  BY <1>2, <1>5, <1>6, <1>7 DEF Waiters, Waits, Directions
<1>12. Busy' = {}
  BY <1>2 DEF Busy, InRunOne
<1>13. ~Ready("out")'
  BY <1>2 DEF Ready
<1>14. Edges'
  BY <1>2, <1>7, <1>12, <1>13 DEF Edges, Asked, SpaceAsked, Edge, Directions
<1> QED
  BY <1>9, <1>10, <1>11, <1>14 DEF IInv

(* start_connect_op, when connect(2) has finished at once.                 *)
LEMMA ConnectAtOnceStep ==
    ASSUME IInv, NEW t \in Threads, NEW res \in {"ok", "fail"}, ConnectAtOnce(t, res)
    PROVE  IInv'
<1>1. PICK c : c = [who |-> t, kind |-> "connect", left |-> 0, sock |-> sock', res |-> res]
  OBVIOUS
<1>2. /\ ~InRunOne /\ ~open /\ sock < MaxSockets /\ open' = TRUE /\ sock' = sock + 1
      /\ speculative' = [d \in Directions |-> TRUE] /\ avail' = 0 /\ ended' \in {"no", "err"}
      /\ registered' = {"in"} /\ space' = MaxBuffer /\ nospace' = FALSE /\ listed' \in BOOLEAN
      /\ op_queue' = Append(op_queue, Finished(c)) /\ work' = work + 1
      /\ at' = [at EXCEPT ![t] = "call"]
      /\ UNCHANGED <<waiting, io>>
  BY <1>1 DEF ConnectAtOnce, NewSocket, Directions
<1>3. DescTypes /\ MaxBuffer \in Nat \ {0} /\ MaxSockets \in Nat /\ work \in Nat
  BY TypeParts, ReactorAssumption DEF IInv, Shapes
<1>4. sock' \in 1..MaxSockets /\ sock' \in 0..MaxSockets
  BY <1>2, <1>3 DEF DescTypes
<1>5. c \in Ops
  BY <1>1, <1>4 DEF Ops
<1>6. waiting["in"] = <<>> /\ waiting["out"] = <<>> /\ Len(<<>>) = 0
  BY <1>2, <1>3, WaitingFacts DEF IInv, Directions
<1>7. Follows(op_queue) /\ work = Held(op_queue) /\ Count(op_queue) \in Nat
  BY <1>2, OutsideRunOne
<1>8. <<Finished(c)>> \in Seq(OpItems) /\ Len(<<Finished(c)>>) = 1
      /\ op_queue' = op_queue \o <<Finished(c)>>
  BY <1>2, <1>5, <1>7, ItemTypes DEF Follows
<1>9. op_queue' \in Seq(Items) /\ Count(op_queue') = Count(op_queue) + 1 /\ Queue'
  BY <1>7, <1>8, PushOps DEF Follows, Queue
<1>10. TypeOK'
  <2>1. avail' \in 0..MaxBuffer /\ space' \in 0..MaxBuffer /\ work' \in Nat
    BY <1>2, <1>3
  <2>2. speculative' \in [Directions -> BOOLEAN] /\ registered' \subseteq Directions
    BY <1>2 DEF Directions
  <2>3. at' \in [Threads -> {"run", "call"}] /\ waiting' \in [Directions -> Seq(Ops)]
    BY <1>2 DEF IInv, Shapes, TypeOK
  <2> QED
    BY <1>2, <1>4, <2>1, <2>2, <2>3 DEF TypeOK
<1>11. Shapes'
  BY <1>2, <1>9, <1>10 DEF IInv, Shapes
<1>12. WorkExact'
  <2>1. work = 0 + 0 + Count(op_queue)
    BY <1>6, <1>7 DEF Held
  <2>2. Len(waiting'["in"]) = 0 /\ Len(waiting'["out"]) = 0 /\ Len(Done') = 0
    BY <1>2, <1>6 DEF Done, InRunOne
  <2>3. \A n \in Nat : (0 + 0 + n) + 1 = 0 + 0 + 0 + (n + 1) /\ n + 1 \in Nat
    OBVIOUS
  <2>4. work' = 0 + 0 + 0 + (Count(op_queue) + 1)
    BY <1>2, <1>7, <2>1, <2>3
  <2>5. work' = Len(waiting'["in"]) + Len(waiting'["out"]) + 0 + Count(op_queue')
    BY <1>9, <2>2, <2>4, Zenon
  <2>6. Count(op_queue') \in Nat
    BY <1>7, <1>9, <2>3
  <2> QED
    BY <2>2, <2>5, <2>6, WorkNext
<1>13. Waiters'
  BY <1>2, <1>6 DEF Waiters, Directions
<1>14. Busy' = {}
  BY <1>2 DEF Busy, InRunOne
<1>15. Edges'
  BY <1>2, <1>3, <1>6, <1>14 DEF Edges, Asked, SpaceAsked, Edge, Directions
<1> QED
  BY <1>9, <1>11, <1>12, <1>13, <1>15 DEF IInv

(* A light thread starts a transfer.                                       *)
LEMMA StartStep ==
    ASSUME IInv, NEW t \in Threads, NEW kind \in {"read", "read_some", "write"}, NEW n \in Sizes,
           Start(t, kind, n)
    PROVE  IInv'
<1>1. PICK op : op = [who |-> t, kind |-> kind, left |-> n, sock |-> sock, res |-> "none"]
  OBVIOUS
<1>2. /\ ~InRunOne /\ sock > 0 /\ StartOp(op, op_queue, 1)
      /\ at' = [at EXCEPT ![t] = "call"] /\ io' = io
  BY <1>1 DEF Start
<1>3. DescTypes /\ work \in Nat /\ n \in Nat /\ n > 0 /\ MaxSockets \in Nat
  BY TypeParts, ReactorAssumption DEF IInv, Shapes
<1>4. /\ op \in Ops /\ op.kind # "connect" /\ op.left > 0 /\ op.res = "none"
  <2>1. sock \in 1..MaxSockets
    BY <1>2, <1>3 DEF DescTypes
  <2> QED
    BY <1>1, <1>3, <2>1 DEF Ops
<1>5. /\ Busy = {} /\ work = Held(op_queue) /\ Follows(op_queue)
  BY <1>2, OutsideRunOne
<1>6. Busy' = {} /\ Done' = <<>> /\ Len(<<>>) = 0
  BY <1>2 DEF Busy, Done, InRunOne
<1>7. /\ DescTypes' /\ op_queue' \in Seq(Items) /\ Waiters' /\ Queue' /\ Edges'
      /\ Len(waiting'["in"]) + Len(waiting'["out"]) + Count(op_queue') = Held(op_queue) + 1
      /\ work' = work + 1
  BY <1>2, <1>3, <1>4, <1>5, <1>6, StartFacts DEF IInv
<1>8. at' \in [Threads -> {"run", "call"}] /\ work' \in Nat
  BY <1>2, <1>3, <1>7 DEF IInv, Shapes, TypeOK
<1>9. Shapes'
  <2>1. TypeOK'
    BY <1>7, <1>8 DEF TypeOK, DescTypes
  <2> QED
    BY <1>2, <1>7, <2>1 DEF IInv, Shapes
<1>10. WorkExact'
  <2>1. waiting'["in"] \in Seq(Ops) /\ waiting'["out"] \in Seq(Ops)
    BY <1>7 DEF DescTypes, Directions
  <2>2. Len(waiting'["in"]) \in Nat /\ Len(waiting'["out"]) \in Nat /\ Count(op_queue') \in Nat
    BY <1>7, <2>1, LenProperties, CountConcat
  <2>3. work' = Len(waiting'["in"]) + Len(waiting'["out"]) + Count(op_queue')
    BY <1>5, <1>7
  <2>4. \A a, b, c \in Nat : a + b + c = a + b + 0 + c
    OBVIOUS
  <2>5. work' = Len(waiting'["in"]) + Len(waiting'["out"]) + 0 + Count(op_queue')
    BY <2>2, <2>3, <2>4
  <2> QED
    BY <1>6, <2>2, <2>5, WorkNext
<1> QED
  BY <1>7, <1>9, <1>10 DEF IInv

(* conn:close.                                                             *)
LEMMA CloseStep == ASSUME IInv, Close PROVE IInv'
<1>1. ~InRunOne /\ Deregister(op_queue) /\ UNCHANGED <<work, io, at>>
  BY DEF Close
<1>2. Busy = {} /\ work = Held(op_queue) /\ Follows(op_queue)
  BY <1>1, OutsideRunOne
<1>3. Busy' = {} /\ Done' = <<>> /\ Len(<<>>) = 0
  BY <1>1 DEF Busy, Done, InRunOne
<1>4. /\ DescTypes' /\ op_queue' \in Seq(Items) /\ Waiters' /\ Queue' /\ Edges'
      /\ Len(waiting'["in"]) + Len(waiting'["out"]) + Count(op_queue') = Held(op_queue)
  BY <1>1, <1>2, <1>3, DeregisterFacts, TypeParts DEF IInv, Shapes, Follows
<1>5. Shapes'
  <2>1. TypeOK'
    BY <1>1, <1>4 DEF IInv, Shapes, TypeOK, DescTypes
  <2> QED
    BY <1>1, <1>4, <2>1 DEF IInv, Shapes
<1>6. WorkExact'
  <2>1. waiting'["in"] \in Seq(Ops) /\ waiting'["out"] \in Seq(Ops)
    BY <1>4 DEF DescTypes, Directions
  <2>2. Len(waiting'["in"]) \in Nat /\ Len(waiting'["out"]) \in Nat /\ Count(op_queue') \in Nat
    BY <1>4, <2>1, LenProperties, CountConcat
  <2>3. work' = Len(waiting'["in"]) + Len(waiting'["out"]) + Count(op_queue')
    BY <1>1, <1>2, <1>4
  <2>4. \A a, b, c \in Nat : a + b + c = a + b + 0 + c
    OBVIOUS
  <2>5. work' = Len(waiting'["in"]) + Len(waiting'["out"]) + 0 + Count(op_queue')
    BY <2>2, <2>3, <2>4
  <2> QED
    BY <1>3, <2>2, <2>5, WorkNext
<1> QED
  BY <1>4, <1>5, <1>6 DEF IInv

(* The task, at least, is queued.                                          *)
LEMMA QueueNotEmpty ==
    ASSUME IInv PROVE op_queue \in Seq(Items) /\ op_queue # <<>> /\ Len(op_queue) \in Nat
<1>1. op_queue \in Seq(Items) /\ 1..Len(op_queue) # {}
  BY DEF IInv, Shapes, Queue, TaskOnce
<1> QED
  BY <1>1, PlacesFinite

(* run_one takes an operation.                                             *)
LEMMA RunOpStep == ASSUME IInv, RunOp PROVE IInv'
<1>1. PICK op : op = Head(op_queue).op
  OBVIOUS
<1>2. ~InRunOne /\ Head(op_queue).type = "op" /\ Handle(op, Tail(op_queue)) /\ io' = io
  BY <1>1 DEF RunOp, RunOne
<1>3. PICK rest : rest = Tail(op_queue)
  OBVIOUS
<1>4. /\ op_queue \in Seq(Items) /\ op_queue # <<>> /\ Head(op_queue) \in Items
      /\ rest \in Seq(Items) /\ Count(op_queue) = 1 + Count(rest) /\ Count(rest) \in Nat
  BY <1>2, <1>3, QueueNotEmpty, PopItem
<1>5. op \in Ops
  BY <1>1, <1>2, <1>4, ItemTypes
<1>6. /\ TaskOnce(rest) /\ DescriptorOnce(rest)
      /\ OpsIn(op_queue) \subseteq OpsIn(rest) \cup {op}
      /\ \A d : Queued(op_queue, d) => Queued(rest, d)
  <2>1. TaskOnce(op_queue) /\ DescriptorOnce(op_queue)
    BY DEF IInv, Queue
  <2> QED
    BY <1>1, <1>2, <1>3, <1>4, <2>1, PopViews
<1>7. /\ Busy = {} /\ work = Held(op_queue) /\ Follows(op_queue)
      /\ Len(waiting["in"]) \in Nat /\ Len(waiting["out"]) \in Nat
  BY <1>2, OutsideRunOne
<1>8. Pending => Failing(op) \/ \E x \in OpsIn(rest) : Failing(x)
  BY <1>6, <1>7 DEF Follows
<1>9. work = Held(rest) + 1
  <2>1. \A a, b, c \in Nat : a + b + (1 + c) = a + b + c + 1
    OBVIOUS
  <2>2. Len(waiting["in"]) + Len(waiting["out"]) + (1 + Count(rest))
           = Len(waiting["in"]) + Len(waiting["out"]) + Count(rest) + 1
    BY <1>4, <1>7, <2>1
  <2> QED
    BY <1>4, <1>7, <2>2, Zenon DEF Held
<1>10. io' = <<>>
  BY <1>2 DEF InRunOne
<1> QED
  BY <1>2, <1>3, <1>4, <1>5, <1>6, <1>7, <1>8, <1>9, <1>10, HandleStep

(* perform_io returns operations.                                          *)
LEMMA RunFirstDoneStep == ASSUME IInv, RunFirstDone PROVE IInv'
<1>1. PICK done : done = io[1].done
  OBVIOUS
<1>2. PICK f : f = [i \in 1..Len(done) - 1 |-> Finished(done[i + 1])]
  OBVIOUS
<1>3. PICK rest : rest = op_queue \o f
  OBVIOUS
<1>4. /\ InRunOne /\ io[1].todo = <<>> /\ done # <<>> /\ io' = <<>> /\ Handle(Head(done), rest)
  BY <1>1, <1>2, <1>3 DEF RunFirstDone
<1>5. done \in Seq(Ops) /\ Done = done /\ Busy = {}
  <2>1. /\ io[1].todo \in Todos /\ Busy = ToSet(io[1].todo) /\ Done = done /\ done \in Seq(Ops)
    BY <1>1, <1>4, IoFacts DEF IInv
  <2> QED
    BY <1>4, <2>1, TodoFacts
<1>6. /\ Len(done) \in Nat /\ Len(done) > 0 /\ DOMAIN done = 1..Len(done)
      /\ \A i \in 1..Len(done) : done[i] \in Ops
      /\ Head(done) = done[1]
  BY <1>4, <1>5, LenProperties, ElementOfSeq, EmptySeq
<1>7. Len(done) - 1 \in Nat /\ \A i \in 1..Len(done) - 1 : i + 1 \in 1..Len(done)
  BY <1>6
<1>8. /\ f \in Seq(OpItems) /\ Len(f) = Len(done) - 1
      /\ \A i \in 1..Len(done) - 1 : f[i].op = done[i + 1]
  <2>1. \A i \in 1..Len(done) - 1 : f[i] \in OpItems /\ f[i].op = done[i + 1]
    BY <1>2, <1>6, <1>7, ItemTypes
  <2>2. f \in [1..Len(done) - 1 -> OpItems]
    BY <1>2, <2>1
  <2> QED
    BY <1>7, <2>1, <2>2, FunctionIsSeq
<1>9. op_queue \in Seq(Items) /\ TaskOnce(op_queue) /\ DescriptorOnce(op_queue)
  BY DEF IInv, Shapes, Queue
<1>10. /\ rest \in Seq(Items) /\ Count(rest) = Count(op_queue) + Len(f)
       /\ TaskOnce(rest) /\ DescriptorOnce(rest)
       /\ \A d : Queued(op_queue, d) => Queued(rest, d)
       /\ OpsIn(op_queue) \subseteq OpsIn(rest)
       /\ \A i \in 1..Len(f) : f[i].op \in OpsIn(rest)
  BY <1>3, <1>8, <1>9, PushOps
<1>11. Pending => Failing(Head(done)) \/ \E x \in OpsIn(rest) : Failing(x)
  <2> SUFFICES ASSUME Pending PROVE Failing(Head(done)) \/ \E x \in OpsIn(rest) : Failing(x)
    OBVIOUS
  <2>1. CASE \E x \in OpsIn(op_queue) : Failing(x)
    BY <1>10, <2>1
  <2>2. CASE \E x \in ToSet(Done) : Failing(x)
    <3>1. PICK i \in 1..Len(done) : Failing(done[i])
      BY <1>5, <1>6, <2>2 DEF ToSet
    <3>2. CASE i = 1
      BY <1>6, <3>1, <3>2
    <3>3. CASE i # 1
      <4>1. i - 1 \in 1..Len(done) - 1 /\ (i - 1) + 1 = i
        BY <1>6, <3>3
      <4>2. done[i] \in OpsIn(rest)
        BY <1>8, <1>10, <4>1
      <4> QED
        BY <3>1, <4>2
    <3> QED
      BY <3>2, <3>3
  <2> QED
    BY <2>1, <2>2, PendingPlace
<1>12. work = Held(rest) + 1
  <2>1. Len(waiting["in"]) \in Nat /\ Len(waiting["out"]) \in Nat /\ Count(op_queue) \in Nat
    BY <1>9, WaitingFacts, TypeParts, CountConcat DEF IInv, Shapes, Directions
  <2>2. Places("op") = PlacesIn(op_queue, "op")
    BY DEF Places, PlacesIn
  <2>3. work = Len(waiting["in"]) + Len(waiting["out"]) + Len(done) + Count(op_queue)
    BY <1>5, <2>2 DEF IInv, WorkExact, Count
  <2>4. \A k \in Nat : k > 0 => k - 1 \in Nat /\ k = (k - 1) + 1
    OBVIOUS
  <2>5. PICK n \in Nat : n = Len(done) - 1 /\ Len(done) = n + 1
    <3>1. Len(done) \in Nat /\ Len(done) > 0
      BY <1>6
    <3> QED
      BY <2>4, <3>1
  <2>6. PICK a, b, c \in Nat :
           a = Len(waiting["in"]) /\ b = Len(waiting["out"]) /\ c = Count(op_queue)
    BY <2>1
  <2>7. a + b + (n + 1) + c = a + b + (c + n) + 1
    OBVIOUS
  <2>8. Count(rest) = c + n
    BY <1>8, <1>10, <2>5, <2>6
  <2> QED
    BY <2>3, <2>5, <2>6, <2>7, <2>8, Zenon DEF Held
<1>13. Head(done) \in Ops
  BY <1>6
<1> QED
  BY <1>4, <1>5, <1>10, <1>11, <1>12, <1>13, HandleStep

(* perform_io returns nothing.                                             *)
LEMMA NothingDoneStep == ASSUME IInv, NothingDone PROVE IInv'
<1>1. /\ InRunOne /\ io[1].todo = <<>> /\ io[1].done = <<>> /\ work' = work /\ io' = <<>>
      /\ UNCHANGED <<open, sock, waiting, speculative, registered, op_queue, at>>
      /\ UNCHANGED <<avail, ended, space, nospace, listed>>
  BY DEF NothingDone, Compensated, descVars, kernelVars
<1>2. Done = <<>> /\ Busy = {}
  <2>1. /\ io[1].todo \in Todos /\ Busy = ToSet(io[1].todo) /\ Done = io[1].done
    BY <1>1, IoFacts DEF IInv
  <2> QED
    BY <1>1, <2>1, TodoFacts
<1>3. Done' = <<>> /\ Busy' = {}
  BY <1>1 DEF Done, Busy, InRunOne
<1>4. Shapes' /\ Waiters' /\ Queue'
  BY <1>1 DEF IInv, Shapes, TypeOK, Waiters, Waits, Queue
<1>5. WorkExact'
  BY <1>1, <1>2, <1>3 DEF IInv, WorkExact, Places
<1>6. Outstanding' = Outstanding
  BY <1>1, <1>2, <1>3 DEF Outstanding, Places
<1>7. \A d \in Directions : Edge(d)'
  BY <1>1, <1>2, <1>3, <1>6 DEF IInv, Edges, Edge, Ready, Notice, Failing, Places
<1>8. Edges'
  BY <1>1, <1>2, <1>3, <1>7 DEF IInv, Edges, Asked, SpaceAsked
<1> QED
  BY <1>4, <1>5, <1>8 DEF IInv

(* run_one takes the descriptor item: its events move to perform_io.       *)
LEMMA RunDescriptorStep == ASSUME IInv, RunDescriptor PROVE IInv'
<1>1. PICK events : events = Head(op_queue).events
  OBVIOUS
<1>2. PICK todo : todo = (IF "out" \in events THEN <<"out">> ELSE <<>>)
                            \o (IF "in" \in events THEN <<"in">> ELSE <<>>)
  OBVIOUS
<1>3. /\ ~InRunOne /\ Head(op_queue).type = "descriptor"
      /\ io' = <<[todo |-> todo, done |-> <<>>]>>
      /\ speculative' = [d \in Directions |-> d \in events \/ speculative[d]]
      /\ op_queue' = Tail(op_queue)
      /\ UNCHANGED <<open, sock, waiting, registered, avail, ended, space, nospace, listed, work, at>>
  BY <1>1, <1>2 DEF RunDescriptor, RunOne, kernelVars, Directions
<1>4. /\ op_queue \in Seq(Items) /\ op_queue # <<>> /\ Head(op_queue) \in Items
      /\ op_queue' \in Seq(Items) /\ Count(op_queue) = 0 + Count(op_queue')
      /\ Count(op_queue') \in Nat
  BY <1>3, QueueNotEmpty, PopItem
<1>5. events \subseteq Directions
  BY <1>1, <1>3, <1>4, ItemTypes
<1>6. todo \in Todos /\ ToSet(todo) = events
  <2>1. /\ <<>> \o <<>> = <<>> /\ <<"out">> \o <<>> = <<"out">>
        /\ <<>> \o <<"in">> = <<"in">> /\ <<"out">> \o <<"in">> = <<"out", "in">>
    <3>1. /\ <<>> \in Seq(Directions) /\ <<"in">> \in Seq(Directions)
          /\ <<"out">> \in Seq(Directions)
      BY DEF Directions
    <3>2. \A s \in Seq(Directions) : s \o <<>> = s /\ <<>> \o s = s
      BY ConcatEmptySeq
    <3>3. <<"out">> \o <<"in">> = <<"out", "in">>
      <4>1. /\ Len(<<"out">> \o <<"in">>) = 2 /\ (<<"out">> \o <<"in">>)[1] = "out"
            /\ (<<"out">> \o <<"in">>)[2] = "in" /\ <<"out">> \o <<"in">> \in Seq(Directions)
        BY <3>1, ConcatProperties
      <4>2. /\ <<"out", "in">> \in Seq(Directions) /\ Len(<<"out", "in">>) = 2
            /\ <<"out", "in">>[1] = "out" /\ <<"out", "in">>[2] = "in"
        BY DEF Directions
      <4>3. \A i \in 1..2 : i = 1 \/ i = 2
        OBVIOUS
      <4>4. \A i \in 1..2 : (<<"out">> \o <<"in">>)[i] = <<"out", "in">>[i]
        BY <4>1, <4>2, <4>3, Zenon
      <4> QED
        BY <4>1, <4>2, <4>4, SeqEqual, Zenon
    <3> QED
      BY <3>1, <3>2, <3>3
  <2>2. /\ ToSet(<<>>) = {} /\ ToSet(<<"in">>) = {"in"} /\ ToSet(<<"out">>) = {"out"}
        /\ ToSet(<<"out", "in">>) = {"out", "in"}
    BY DEF ToSet
  <2>3. CASE "out" \in events /\ "in" \in events
    BY <1>2, <1>5, <2>1, <2>2, <2>3 DEF Todos, Directions
  <2>4. CASE "out" \in events /\ "in" \notin events
    BY <1>2, <1>5, <2>1, <2>2, <2>4 DEF Todos, Directions
  <2>5. CASE "out" \notin events /\ "in" \in events
    BY <1>2, <1>5, <2>1, <2>2, <2>5 DEF Todos, Directions
  <2>6. CASE "out" \notin events /\ "in" \notin events
    BY <1>2, <1>5, <2>1, <2>2, <2>6 DEF Todos, Directions
  <2> QED
    BY <2>3, <2>4, <2>5, <2>6
<1>7. /\ TaskOnce(op_queue') /\ DescriptorOnce(op_queue')
      /\ OpsIn(op_queue) \subseteq OpsIn(op_queue')
      /\ \A d : Queued(op_queue, d) => Queued(op_queue', d) \/ d \in events
  <2>1. TaskOnce(op_queue) /\ DescriptorOnce(op_queue)
    BY DEF IInv, Queue
  <2> QED
    BY <1>1, <1>3, <1>4, <2>1, PopViews
<1>8. /\ Busy = {} /\ work = Held(op_queue) /\ Follows(op_queue)
      /\ Len(waiting["in"]) \in Nat /\ Len(waiting["out"]) \in Nat
  BY <1>3, OutsideRunOne
<1>9. io' # <<>> /\ io'[1].todo = todo /\ io'[1].done = <<>> /\ Busy' = events /\ Done' = <<>>
  <2>1. io' # <<>> /\ io'[1].todo = todo /\ io'[1].done = <<>>
    BY <1>3
  <2> QED
    BY <1>6, <2>1 DEF Busy, Done, InRunOne
<1>10. Shapes'
  <2>1. speculative' \in [Directions -> BOOLEAN]
    BY <1>3 DEF IInv, Shapes, TypeOK
  <2>2. TypeOK'
    BY <1>3, <2>1 DEF IInv, Shapes, TypeOK
  <2>3. [todo |-> todo, done |-> <<>>] \in [todo : Todos, done : Seq(Ops)]
    BY <1>6
  <2> QED
    BY <1>3, <1>4, <2>2, <2>3 DEF Shapes
<1>11. Waiters' /\ Queue'
  BY <1>3, <1>7 DEF IInv, Waiters, Waits, Queue
<1>12. WorkExact'
  <2>1. \A a, b, c \in Nat : a + b + (0 + c) = a + b + 0 + c
    OBVIOUS
  <2>2. Len(waiting["in"]) + Len(waiting["out"]) + (0 + Count(op_queue'))
           = Len(waiting["in"]) + Len(waiting["out"]) + 0 + Count(op_queue')
    BY <1>4, <1>8, <2>1, Zenon
  <2>3. Len(Done') = 0 /\ work' = work /\ waiting' = waiting
    BY <1>3, <1>9
  <2>4. work' = Len(waiting'["in"]) + Len(waiting'["out"]) + 0 + Count(op_queue')
    BY <1>4, <1>8, <2>2, <2>3, Zenon DEF Held
  <2>5. Len(waiting'["in"]) \in Nat /\ Len(waiting'["out"]) \in Nat
    BY <1>8, <2>3
  <2>6. 0 \in Nat
    OBVIOUS
  <2> QED
    BY <1>4, <2>3, <2>4, <2>5, <2>6, WorkNext, Zenon
<1>13. \A d \in Directions : speculative'[d] = (d \in events \/ speculative[d])
  BY <1>3
<1>14. ASSUME NEW d \in Directions, Notice(d) PROVE Notice(d)'
  <2>1. \/ listed /\ d \in registered
        \/ Queued(op_queue, d)
        \/ \E x \in OpsIn(op_queue) : Failing(x)
    BY <1>8, <1>14, QueueViews DEF Pending, Follows
  <2>2. \/ listed' /\ d \in registered'
        \/ Queued(op_queue', d)
        \/ d \in Busy'
        \/ \E x \in OpsIn(op_queue') : Failing(x)'
    BY <1>3, <1>7, <1>9, <2>1 DEF Failing
  <2> QED
    BY <2>2, NoticeNext
<1>15. \A d \in Directions : Edge(d)'
  BY <1>3, <1>13, <1>14 DEF IInv, Edges, Edge, Ready
<1>16. SpaceAsked'
  BY <1>3, <1>8, <1>13 DEF IInv, Edges, SpaceAsked, Directions
<1>17. Edges'
  BY <1>3, <1>5, <1>9, <1>13, <1>15, <1>16 DEF IInv, Edges, Asked
<1> QED
  BY <1>10, <1>11, <1>12, <1>17 DEF IInv

Requeued(q, e) == Tail(q) \o (IF e = {} THEN <<>> ELSE <<Descriptor(e)>>) \o <<Task>>

(* task_cleanup: what was queued behind the task are operations, and the   *)
(* task follows the new descriptor item.                                   *)
LEMMA RequeueFacts ==
    ASSUME NEW q \in Seq(Items), q # <<>>, Head(q).type = "task", TaskOnce(q),
           NEW e \in SUBSET Directions, NEW r, r = Requeued(q, e)
    PROVE  /\ r \in Seq(Items) /\ Count(r) = Count(q) /\ Count(r) \in Nat
           /\ TaskOnce(r) /\ DescriptorOnce(r)
           /\ OpsIn(q) \subseteq OpsIn(r)
           /\ \A d : ~Queued(q, d)
           /\ \A d \in e : Queued(r, d)
<1>1. PICK items : items = (IF e = {} THEN <<>> ELSE <<Descriptor(e)>>)
  OBVIOUS
<1>2. PICK t : t = Tail(q)
  OBVIOUS
<1>3. PICK n : n = Len(t)
  OBVIOUS
<1>4. /\ t \in Seq(Items) /\ n \in Nat /\ Len(q) = n + 1 /\ q[1].type = "task"
      /\ \A i \in 1..n : t[i] = q[i + 1] /\ t[i] \in Items
      /\ Count(q) = 0 + Count(t) /\ Count(t) \in Nat
  <2>1. /\ t \in Seq(Items) /\ n = Len(q) - 1 /\ Len(q) \in Nat /\ Len(q) > 0
        /\ q[1].type = "task" /\ \A i \in 1..Len(q) - 1 : t[i] = q[i + 1]
        /\ Count(q) = 0 + Count(t) /\ Count(t) \in Nat
    BY <1>2, <1>3, PopItem
  <2>2. \A i \in 1..n : t[i] \in Items
    BY <1>3, <2>1, ElementOfSeq
  <2>3. n \in Nat /\ Len(q) = n + 1
    BY <2>1
  <2> QED
    BY <2>1, <2>2, <2>3
<1>5. \A i \in 2..n + 1 : q[i].type # "task" /\ q[i].type # "descriptor"
  <2>1. PICK p \in 1..n + 1 :
           /\ \A i \in 1..n + 1 : q[i].type = "task" => i = p
           /\ \A i \in 1..n + 1 : q[i].type = "descriptor" => i < p
    BY <1>4 DEF TaskOnce
  <2>2. p = 1
    BY <1>4, <2>1
  <2> QED
    BY <1>4, <2>1, <2>2
<1>6. \A i \in 1..n : t[i].type = "op"
  <2> SUFFICES ASSUME NEW i \in 1..n PROVE t[i].type = "op"
    OBVIOUS
  <2>1. i + 1 \in 2..n + 1
    BY <1>4
  <2> QED
    BY <1>4, <1>5, <2>1, ItemTypes
<1>7. PICK m : m = Len(items)
  OBVIOUS
<1>8. /\ items \in Seq(Items) /\ m \in {0, 1} /\ Count(items) = 0
      /\ m = 1 => items[1] = Descriptor(e) /\ items[1].type = "descriptor" /\ items[1].events = e
      /\ e # {} => m = 1
  <2>1. Descriptor(e) \in Items /\ Descriptor(e).type = "descriptor" /\ Descriptor(e).events = e
    BY ItemTypes
  <2>2. CASE e = {}
    <3>1. Count(items) = 0
      BY <1>1, <2>1, <2>2, CountOne
    <3> QED
      BY <1>1, <1>7, <2>2, <3>1
  <2>3. CASE e # {}
    <3>1. Count(items) = 0
      BY <1>1, <2>1, <2>3, CountOne
    <3> QED
      BY <1>1, <1>7, <2>1, <2>3, <3>1
  <2> QED
    BY <2>2, <2>3
<1>9. PICK s : s = t \o items
  OBVIOUS
<1>10. /\ s \in Seq(Items) /\ Len(s) = n + m /\ Count(s) = Count(t) + 0
      /\ \A i \in 1..n + m : s[i] = IF i <= n THEN t[i] ELSE items[i - n]
  BY <1>3, <1>4, <1>7, <1>8, <1>9, ConcatProperties, CountConcat
<1>11. <<Task>> \in Seq(Items) /\ Len(<<Task>>) = 1 /\ <<Task>>[1] = Task /\ Count(<<Task>>) = 0
  BY ItemTypes, CountOne
<1>12. /\ r \in Seq(Items) /\ Len(r) = n + m + 1 /\ Count(r) = Count(s) + 0
       /\ \A i \in 1..n + m + 1 : r[i] = IF i <= n + m THEN s[i] ELSE <<Task>>[i - (n + m)]
  <2>1. r = s \o <<Task>>
    BY <1>1, <1>2, <1>9 DEF Requeued
  <2>2. Count(r) = Count(s) + 0
    BY <1>10, <1>11, <2>1, CountConcat
  <2>3. /\ r \in Seq(Items) /\ Len(r) = Len(s) + 1
        /\ \A i \in 1..Len(s) + 1 : r[i] = IF i <= Len(s) THEN s[i] ELSE <<Task>>[i - Len(s)]
    <3>1. PICK u : u = <<Task>>
      OBVIOUS
    <3>2. s \in Seq(Items) /\ u \in Seq(Items) /\ Len(u) = 1 /\ r = s \o u
      BY <1>10, <1>11, <2>1, <3>1
    <3>3. /\ r \in Seq(Items) /\ Len(r) = Len(s) + 1
          /\ \A i \in 1..Len(s) + 1 : r[i] = IF i <= Len(s) THEN s[i] ELSE u[i - Len(s)]
      <4>1. /\ s \o u \in Seq(Items) /\ Len(s \o u) = Len(s) + Len(u)
            /\ \A i \in 1..Len(s) + Len(u) :
                  (s \o u)[i] = IF i <= Len(s) THEN s[i] ELSE u[i - Len(s)]
        BY <3>2, ConcatProperties, Zenon
      <4> QED
        BY <3>2, <4>1, Zenon
    <3> QED
      BY <3>1, <3>3, Zenon
  <2> QED
    BY <1>10, <2>2, <2>3, Zenon
<1>13. Count(r) = Count(q) /\ Count(r) \in Nat
  BY <1>4, <1>10, <1>12
<1>14. \A i \in 1..n : i \in 1..n + m + 1 /\ r[i] = t[i] /\ r[i].type = "op"
  <2> SUFFICES ASSUME NEW i \in 1..n
               PROVE  i \in 1..n + m + 1 /\ r[i] = t[i] /\ r[i].type = "op"
    OBVIOUS
  <2>1. i \in 1..n + m + 1 /\ i \in 1..n + m /\ i <= n /\ i <= n + m
    BY <1>4, <1>8
  <2>2. r[i] = s[i] /\ s[i] = t[i]
    BY <1>10, <1>12, <2>1, Zenon
  <2> QED
    BY <1>6, <2>1, <2>2
<1>15. m = 1 => r[n + 1] = Descriptor(e) /\ r[n + 1].type = "descriptor"
                  /\ r[n + 1].events = e /\ n + 1 \in 1..n + m + 1
  <2> SUFFICES ASSUME m = 1
               PROVE  r[n + 1] = Descriptor(e) /\ r[n + 1].type = "descriptor"
                        /\ r[n + 1].events = e /\ n + 1 \in 1..n + m + 1
    OBVIOUS
  <2>1. n + 1 \in 1..n + m /\ n + 1 \in 1..n + m + 1 /\ ~(n + 1 <= n) /\ (n + 1) - n = 1
        /\ n + 1 <= n + m
    BY <1>4
  <2>2. r[n + 1] = items[1]
    BY <1>10, <1>12, <2>1
  <2> QED
    BY <1>8, <2>1, <2>2
<1>16. r[n + m + 1].type = "task" /\ n + m + 1 \in 1..n + m + 1
  <2>1. n + m + 1 \in 1..n + m + 1 /\ ~(n + m + 1 <= n + m) /\ (n + m + 1) - (n + m) = 1
    BY <1>4, <1>8
  <2> QED
    BY <1>11, <1>12, <2>1, ItemTypes
<1>17. \A i \in 1..n + m + 1 : i \in 1..n \/ (i = n + 1 /\ m = 1) \/ i = n + m + 1
  BY <1>4, <1>8
<1>18. TaskOnce(r)
  <2>1. \A i \in 1..n + m + 1 : r[i].type = "task" => i = n + m + 1
    BY <1>14, <1>15, <1>17
  <2>2. \A i \in 1..n + m + 1 : r[i].type = "descriptor" => i = n + 1 /\ m = 1
    BY <1>14, <1>16, <1>17
  <2>3. m = 1 => n + 1 < n + m + 1
    BY <1>4
  <2>4. \A i \in 1..n + m + 1 : r[i].type = "descriptor" => i < n + m + 1
    BY <2>2, <2>3
  <2>5. PICK k : k = n + m + 1
    OBVIOUS
  <2>6. /\ Len(r) = k /\ k \in 1..k /\ r[k].type = "task"
        /\ \A i \in 1..k : r[i].type = "task" => i = k
        /\ \A i \in 1..k : r[i].type = "descriptor" => i < k
    BY <1>12, <1>16, <2>1, <2>4, <2>5, Zenon
  <2> QED
    BY <2>6 DEF TaskOnce
<1>19. DescriptorOnce(r)
  <2>1. \A i \in 1..n + m + 1 : r[i].type = "descriptor" => i = n + 1
    BY <1>14, <1>16, <1>17
  <2> QED
    BY <1>12, <2>1 DEF DescriptorOnce
<1>20. OpsIn(q) \subseteq OpsIn(r)
  <2> SUFFICES ASSUME NEW x \in OpsIn(q) PROVE x \in OpsIn(r)
    OBVIOUS
  <2>1. PICK i \in 1..n + 1 : q[i].type = "op" /\ x = q[i].op
    BY <1>4 DEF OpsIn, PlacesIn
  <2>2. i - 1 \in 1..n /\ t[i - 1] = q[i]
    BY <1>4, <2>1
  <2>3. i - 1 \in 1..n + m + 1 /\ r[i - 1] = q[i]
    BY <1>14, <2>2
  <2>4. i - 1 \in PlacesIn(r, "op")
    BY <1>12, <2>1, <2>3 DEF PlacesIn
  <2> QED
    BY <2>1, <2>3, <2>4 DEF OpsIn
<1>21. \A d : ~Queued(q, d)
  <2>1. \A i \in 1..n + 1 : i = 1 \/ i \in 2..n + 1
    BY <1>4
  <2>2. PlacesIn(q, "descriptor") = {}
    BY <1>4, <1>5, <2>1 DEF PlacesIn
  <2> QED
    BY <2>2 DEF Queued
<1>22. m = 1 => \A d \in e : Queued(r, d)
  BY <1>12, <1>15 DEF Queued, PlacesIn
<1> QED
  BY <1>8, <1>12, <1>13, <1>18, <1>19, <1>20, <1>21, <1>22

(* epoll_reactor::run: what was listed is in the descriptor item.          *)
LEMMA RunTaskStep == ASSUME IInv, RunTask PROVE IInv'
<1>1. PICK e : e = Reported
  OBVIOUS
<1>2. PICK r : r = Requeued(op_queue, e)
  OBVIOUS
<1>3. /\ ~InRunOne /\ Head(op_queue).type = "task" /\ listed' = FALSE
      /\ nospace' = (nospace \/ (listed /\ "out" \in registered /\ space = 0))
      /\ UNCHANGED <<open, sock, waiting, speculative, registered, avail, ended, space, work, io, at>>
  BY DEF RunTask, RunOne, descVars
<1>4. e \in SUBSET Directions
  <2>1. registered \subseteq Directions
    BY DEF IInv, Shapes, TypeOK
  <2> QED
    BY <1>1, <2>1 DEF Reported, Directions
<1>5. op_queue \in Seq(Items) /\ op_queue # <<>> /\ TaskOnce(op_queue)
  BY QueueNotEmpty DEF IInv, Queue
<1>6. /\ r \in Seq(Items) /\ Count(r) = Count(op_queue) /\ Count(r) \in Nat
      /\ TaskOnce(r) /\ DescriptorOnce(r)
      /\ OpsIn(op_queue) \subseteq OpsIn(r)
      /\ \A d : ~Queued(op_queue, d)
      /\ \A d \in e : Queued(r, d)
  BY <1>2, <1>3, <1>4, <1>5, RequeueFacts
<1>7. op_queue' = r
  BY <1>1, <1>2 DEF RunTask, Requeue, Requeued
<1>8. /\ Busy = {} /\ work = Held(op_queue) /\ Follows(op_queue)
      /\ Len(waiting["in"]) \in Nat /\ Len(waiting["out"]) \in Nat
  BY <1>3, OutsideRunOne
<1>9. Busy' = {} /\ Done' = <<>> /\ Len(<<>>) = 0
  BY <1>3 DEF Busy, Done, InRunOne
<1>10. Shapes'
  <2>1. nospace' \in BOOLEAN
    BY <1>3 DEF IInv, Shapes, TypeOK
  <2>2. TypeOK'
    BY <1>3, <2>1 DEF IInv, Shapes, TypeOK
  <2> QED
    BY <1>3, <1>6, <1>7, <2>2 DEF IInv, Shapes
<1>11. Waiters' /\ Queue'
  BY <1>3, <1>6, <1>7 DEF IInv, Waiters, Waits, Queue
<1>12. WorkExact'
  <2>1. PICK a, b, c \in Nat :
           a = Len(waiting["in"]) /\ b = Len(waiting["out"]) /\ c = Count(op_queue)
    BY <1>6, <1>8
  <2>2. a + b + c = a + b + 0 + c /\ 0 \in Nat
    OBVIOUS
  <2>3. waiting' = waiting /\ work' = work /\ Count(op_queue') = c
    BY <1>3, <1>6, <1>7, <2>1
  <2>4. work' = Len(waiting'["in"]) + Len(waiting'["out"]) + 0 + Count(op_queue')
    BY <1>8, <2>1, <2>2, <2>3, Zenon DEF Held
  <2>5. /\ Len(waiting'["in"]) \in Nat /\ Len(waiting'["out"]) \in Nat
        /\ Count(op_queue') \in Nat /\ Len(Done') = 0
    BY <1>9, <2>1, <2>3
  <2> QED
    BY <2>2, <2>4, <2>5, WorkNext, Zenon
<1>13. ASSUME NEW d \in Directions, Ready(d), Notice(d) PROVE Notice(d)'
  <2>1. \/ listed /\ d \in registered
        \/ \E x \in OpsIn(op_queue) : Failing(x)
    BY <1>6, <1>8, <1>13, QueueViews DEF Pending, Follows
  <2>2. listed /\ d \in registered => d \in e
    BY <1>1, <1>13 DEF Reported, Directions
  <2>3. \/ Queued(op_queue', d)
        \/ \E x \in OpsIn(op_queue') : Failing(x)'
    BY <1>3, <1>6, <1>7, <2>1, <2>2 DEF Failing
  <2> QED
    BY <2>3, NoticeNext
<1>14. \A d \in Directions : Edge(d)'
  BY <1>3, <1>13 DEF IInv, Edges, Edge, Ready
<1>15. SpaceAsked'
  BY <1>3, <1>8, <1>9 DEF IInv, Edges, SpaceAsked
<1>16. Edges'
  BY <1>3, <1>9, <1>14, <1>15 DEF IInv, Edges, Asked
<1> QED
  BY <1>10, <1>11, <1>12, <1>16 DEF IInv
(* The direction in turn, and the operation that waits first.              *)
LEMMA TurnFacts ==
    ASSUME IInv, InRunOne, io[1].todo # <<>>, NEW d, d = Head(io[1].todo)
    PROVE  /\ d \in Directions /\ d \in Busy /\ speculative[d]
           /\ io[1].todo \in Todos /\ io[1].done \in Seq(Ops)
           /\ Tail(io[1].todo) \in Todos /\ ToSet(Tail(io[1].todo)) = Busy \ {d}
           /\ ToSet(io[1].todo) = Busy /\ Done = io[1].done
           /\ waiting[d] \in Seq(Ops) /\ Len(waiting[d]) \in Nat
           /\ waiting[d] # <<>> =>
                 /\ Head(waiting[d]) = waiting[d][1] /\ Head(waiting[d]) \in Ops
                 /\ Direction(Head(waiting[d])) = d /\ Head(waiting[d]).sock = sock /\ open
                 /\ Head(waiting[d]).kind # "connect" => Head(waiting[d]).left > 0
<1>1. Shapes /\ DescTypes /\ Waiters /\ Edges
  BY TypeParts DEF IInv, Shapes
<1>2. /\ io[1].todo \in Todos /\ io[1].done \in Seq(Ops) /\ Busy = ToSet(io[1].todo)
      /\ Done = io[1].done /\ Busy \subseteq Directions
  BY <1>1, IoFacts
<1>3. /\ d \in Directions /\ Tail(io[1].todo) \in Todos /\ d \in Busy
      /\ ToSet(Tail(io[1].todo)) = Busy \ {d}
  BY <1>2, TodoFacts
<1>4. speculative[d]
  BY <1>1, <1>3 DEF Edges
<1>5. /\ waiting[d] \in Seq(Ops) /\ Len(waiting[d]) \in Nat
      /\ \A i \in 1..Len(waiting[d]) : waiting[d][i] \in Ops
      /\ waiting[d] # <<>> => open /\ 1 \in 1..Len(waiting[d])
  BY <1>1, <1>3, WaitingFacts
<1>6. ASSUME waiting[d] # <<>>
      PROVE  /\ Head(waiting[d]) = waiting[d][1] /\ Head(waiting[d]) \in Ops
             /\ Direction(Head(waiting[d])) = d /\ Head(waiting[d]).sock = sock /\ open
             /\ Head(waiting[d]).kind # "connect" => Head(waiting[d]).left > 0
  <2>1. PICK op : op = waiting[d][1]
    OBVIOUS
  <2>2. Head(waiting[d]) = op
    BY <1>5, <1>6, <2>1
  <2>3. op \in Ops /\ open
    BY <1>5, <1>6, <2>1
  <2>4. Waits(op, d, 1)
    BY <1>1, <1>3, <1>5, <1>6, <2>1 DEF Waiters
  <2> QED
    BY <2>1, <2>2, <2>3, <2>4 DEF Waits
<1> QED
  BY <1>2, <1>3, <1>4, <1>5, <1>6

(* perform_io leaves a direction: nothing waits, or EAGAIN.                *)
LEMMA LeaveDirectionStep == ASSUME IInv, LeaveDirection PROVE IInv'
<1>1. PICK d : d = Head(io[1].todo)
  OBVIOUS
<1>2. PICK op : op = Head(waiting[d])
  OBVIOUS
<1>3. /\ InRunOne /\ io[1].todo # <<>>
      /\ waiting[d] = <<>> \/ ~Ready(d)
      /\ IF waiting[d] = <<>> THEN UNCHANGED <<avail, space, nospace>> ELSE SystemCall(op)
      /\ io' = <<[io[1] EXCEPT !.todo = Tail(@)]>>
      /\ UNCHANGED <<open, sock, waiting, speculative, registered, ended, listed, op_queue, work, at>>
  BY <1>1, <1>2 DEF LeaveDirection, descVars
<1>4. /\ d \in Directions /\ d \in Busy /\ speculative[d]
      /\ Tail(io[1].todo) \in Todos /\ ToSet(Tail(io[1].todo)) = Busy \ {d}
      /\ io[1].done \in Seq(Ops) /\ Done = io[1].done
  BY <1>1, <1>3, TurnFacts
<1>5. waiting[d] # <<>> =>
         /\ op = waiting[d][1] /\ op \in Ops /\ Direction(op) = d
         /\ op.kind # "connect" => op.left > 0
  BY <1>1, <1>2, <1>3, TurnFacts
<1>6. DescTypes
  BY TypeParts DEF IInv, Shapes
<1>7. /\ avail' = avail /\ space' = space /\ nospace' \in BOOLEAN
      /\ nospace => nospace'
      /\ waiting[d] # <<>> /\ op.kind = "write" => nospace'
  <2>1. CASE waiting[d] = <<>>
    BY <1>3, <1>6, <2>1 DEF DescTypes
  <2>2. CASE waiting[d] # <<>>
    <3>1. SystemCall(op) /\ op \in Ops /\ ~Ready(Direction(op))
      BY <1>3, <1>5, <2>2
    <3>2. /\ avail' = avail /\ space' = space
          /\ op.kind = "write" /\ op.left > 0 => nospace'
      BY <1>6, <3>1, AgainFacts
    <3>3. nospace' \in BOOLEAN /\ (nospace => nospace')
      BY <1>6, <3>1, CallTypes
    <3> QED
      BY <1>5, <2>2, <3>2, <3>3
  <2> QED
    BY <2>1, <2>2
<1>8. PICK r : r = [io[1] EXCEPT !.todo = Tail(@)]
  OBVIOUS
<1>9. /\ r \in [todo : Todos, done : Seq(Ops)] /\ r.todo = Tail(io[1].todo) /\ r.done = io[1].done
  <2>1. PICK s \in [todo : Todos, done : Seq(Ops)] : io = <<s>>
    BY <1>3 DEF IInv, Shapes, InRunOne
  <2>2. io[1] = s
    BY <2>1
  <2>3. r = [s EXCEPT !.todo = Tail(s.todo)] /\ Tail(s.todo) \in Todos
    BY <1>4, <1>8, <2>2
  <2> QED
    BY <2>2, <2>3
<1>10. io' = <<r>> /\ io' # <<>> /\ io'[1] = r /\ Busy' = Busy \ {d} /\ Done' = Done
  <2>1. io' = <<r>> /\ io' # <<>> /\ io'[1] = r
    BY <1>3, <1>8
  <2> QED
    BY <1>4, <1>9, <2>1 DEF Busy, Done, InRunOne
<1>11. Shapes'
  <2>1. TypeOK'
    BY <1>3, <1>7 DEF IInv, Shapes, TypeOK
  <2> QED
    BY <1>3, <1>9, <1>10, <2>1 DEF IInv, Shapes
<1>12. Waiters' /\ Queue' /\ WorkExact'
  BY <1>3, <1>10 DEF IInv, Waiters, Waits, Queue, WorkExact, Places
<1>13. \A e \in Directions : Ready(e)' <=> Ready(e)
  BY <1>3, <1>7 DEF Ready
<1>14. Outstanding' = Outstanding
  BY <1>3, <1>10 DEF Outstanding, Places
<1>15. ASSUME NEW e \in Directions PROVE Edge(e)'
  <2>1. CASE e = d
    BY <1>3, <1>4, <1>13, <2>1 DEF Edge
  <2>2. CASE e # d
    <3>1. Notice(e) => Notice(e)'
      BY <1>3, <1>10, <1>14, <2>2 DEF Notice, Failing, Places
    <3> QED
      BY <1>3, <1>13, <3>1 DEF IInv, Edges, Edge
  <2> QED
    BY <2>1, <2>2
<1>16. SpaceAsked'
  <2>1. waiting["out"] # <<>> /\ waiting["out"][1].kind = "connect" /\ space = 0 => nospace'
    BY <1>7 DEF IInv, Edges, SpaceAsked
  <2>2. ASSUME open, space = 0, waiting["out"] # <<>> \/ ~speculative["out"]
        PROVE  nospace' \/ "out" \in Busy'
    <3>1. CASE nospace \/ ("out" \in Busy /\ d # "out")
      BY <1>7, <1>10, <3>1
    <3>2. CASE d = "out"
      <4>1. waiting[d] # <<>>
        BY <1>4, <2>2, <3>2
      <4>2. op.kind = "write" \/ op.kind = "connect"
        BY <1>5, <3>2, <4>1 DEF Direction, Ops
      <4> QED
        BY <1>5, <1>7, <2>1, <2>2, <3>2, <4>1, <4>2
    <3> QED
      BY <2>2, <3>1, <3>2 DEF IInv, Edges, SpaceAsked
  <2> QED
    BY <1>3, <1>7, <2>1, <2>2 DEF SpaceAsked
<1>17. Edges'
  BY <1>3, <1>10, <1>15, <1>16 DEF IInv, Edges, Asked
<1> QED
  BY <1>11, <1>12, <1>17 DEF IInv
(* perform_io performs an operation.                                       *)
LEMMA PerformIoStep == ASSUME IInv, PerformIo PROVE IInv'
<1>1. PICK d : d = Head(io[1].todo)
  OBVIOUS
<1>2. PICK op : op = Head(waiting[d])
  OBVIOUS
<1>3. /\ InRunOne /\ io[1].todo # <<>> /\ waiting[d] # <<>> /\ Ready(d) /\ SystemCall(op)
      /\ waiting' = [waiting EXCEPT ![d] = Tail(@)]
      /\ speculative' = [speculative EXCEPT ![d] = @ /\ ~Exhausted(op)]
      /\ io' = <<[todo |-> IF Exhausted(op) THEN Tail(io[1].todo) ELSE io[1].todo,
                  done |-> Append(io[1].done, Performed(op))]>>
      /\ UNCHANGED <<open, sock, registered, ended, listed, op_queue, work, at>>
  BY <1>1, <1>2 DEF PerformIo
<1>4. /\ d \in Directions /\ d \in Busy /\ speculative[d]
      /\ io[1].todo \in Todos /\ Tail(io[1].todo) \in Todos
      /\ ToSet(Tail(io[1].todo)) = Busy \ {d} /\ ToSet(io[1].todo) = Busy
      /\ io[1].done \in Seq(Ops) /\ Done = io[1].done
      /\ waiting[d] \in Seq(Ops) /\ Len(waiting[d]) \in Nat
  BY <1>1, <1>3, TurnFacts
<1>5. /\ op = waiting[d][1] /\ op \in Ops /\ Direction(op) = d /\ op.sock = sock
      /\ op.kind # "connect" => op.left > 0
  BY <1>1, <1>2, <1>3, TurnFacts
<1>6. DescTypes /\ Waiters /\ Edges
  BY TypeParts DEF IInv, Shapes
<1>7. /\ avail' \in 0..MaxBuffer /\ space' \in 0..MaxBuffer /\ nospace' \in BOOLEAN
      /\ d = "in" => space' = space /\ nospace' = nospace
      /\ d = "out" => avail' = avail
      /\ nospace => nospace'
  BY <1>3, <1>5, <1>6, CallTypes
<1>8. PICK o : o = Performed(op)
  OBVIOUS
<1>9. o \in Ops /\ o.kind = op.kind /\ o.sock = sock
  BY <1>5, <1>6, <1>8, PerformedFacts
<1>10. Exhausted(op) \in BOOLEAN /\ (Exhausted(op) => op.kind # "connect")
  <2>1. op.kind = "connect" => Direction(op) # "in"
    BY DEF Direction
  <2>2. Exhausted(op) => op.kind # "connect"
    BY <2>1 DEF Exhausted
  <2>3. CASE op.kind = "connect"
    BY <2>1, <2>2, <2>3 DEF Exhausted
  <2>4. CASE op.kind # "connect" /\ Direction(op) = "in"
    BY <2>2, <2>4 DEF Exhausted
  <2>5. CASE op.kind # "connect" /\ Direction(op) # "in"
    BY <2>2, <2>5 DEF Exhausted
  <2> QED
    BY <2>3, <2>4, <2>5
<1>11. Exhausted(op) =>
          \/ o.res = "fail"
          \/ d = "out" /\ ended # "err" /\ space' = 0 /\ nospace'
  BY <1>3, <1>5, <1>6, <1>8, <1>10, ExhaustedFacts
<1>12. Exhausted(op) /\ d = "out" => nospace'
  BY <1>3, <1>5, <1>10 DEF Exhausted, Direction, SystemCall, Ops
<1>13. /\ speculative' \in [Directions -> BOOLEAN] /\ speculative'[d] = ~Exhausted(op)
       /\ \A e \in Directions : e # d => speculative'[e] = speculative[e]
  BY <1>3, <1>4, <1>6, <1>10 DEF DescTypes
<1>14. /\ waiting'[d] = Tail(waiting[d])
       /\ \A e \in Directions : e # d => waiting'[e] = waiting[e]
       /\ waiting' \in [Directions -> Seq(Ops)]
       /\ Len(waiting[d]) > 0 /\ Len(waiting'[d]) = Len(waiting[d]) - 1
       /\ \A i \in 1..Len(waiting[d]) - 1 : waiting'[d][i] = waiting[d][i + 1]
  <2>1. /\ waiting'[d] = Tail(waiting[d])
        /\ \A e \in Directions : e # d => waiting'[e] = waiting[e]
    BY <1>3, <1>4, <1>6 DEF DescTypes
  <2>2. /\ Tail(waiting[d]) \in Seq(Ops) /\ Len(waiting[d]) > 0
        /\ Len(Tail(waiting[d])) = Len(waiting[d]) - 1
        /\ \A i \in 1..Len(waiting[d]) - 1 : Tail(waiting[d])[i] = waiting[d][i + 1]
    BY <1>3, <1>4, LenProperties, EmptySeq, HeadTailProperties
  <2>3. waiting' \in [Directions -> Seq(Ops)]
    BY <1>3, <1>4, <1>6, <2>2 DEF DescTypes
  <2> QED
    BY <2>1, <2>2, <2>3
<1>15. PICK r : r = [todo |-> IF Exhausted(op) THEN Tail(io[1].todo) ELSE io[1].todo,
                     done |-> Append(io[1].done, o)]
  OBVIOUS
<1>16. /\ r \in [todo : Todos, done : Seq(Ops)]
       /\ ToSet(r.todo) = IF Exhausted(op) THEN Busy \ {d} ELSE Busy
       /\ r.done = Append(io[1].done, o)
  <2>1. Append(io[1].done, o) \in Seq(Ops)
    BY <1>4, <1>9, AppendProperties
  <2> QED
    BY <1>4, <1>15, <2>1
<1>17. /\ io' = <<r>> /\ io' # <<>> /\ io'[1] = r /\ Done' = Append(Done, o)
       /\ Busy' = IF Exhausted(op) THEN Busy \ {d} ELSE Busy
  <2>1. io' = <<r>> /\ io' # <<>> /\ io'[1] = r
    BY <1>3, <1>8, <1>15
  <2> QED
    BY <1>4, <1>16, <2>1 DEF Busy, Done, InRunOne
<1>18. Shapes'
  <2>1. TypeOK'
    BY <1>3, <1>7, <1>13, <1>14 DEF IInv, Shapes, TypeOK
  <2> QED
    BY <1>3, <1>16, <1>17, <2>1 DEF IInv, Shapes
<1>19. \A i \in 1..Len(waiting'[d]) : \A x : x = waiting'[d][i] =>
          Waits(x, d, i)' /\ x.kind # "connect"
  <2> SUFFICES ASSUME NEW i \in 1..Len(waiting'[d]), NEW x, x = waiting'[d][i]
               PROVE  Waits(x, d, i)' /\ x.kind # "connect"
    OBVIOUS
  <2>1. i + 1 \in 1..Len(waiting[d]) /\ x = waiting[d][i + 1] /\ i + 1 # 1
    BY <1>4, <1>14
  <2>2. Waits(x, d, i + 1)
    BY <1>4, <1>6, <2>1 DEF Waiters
  <2> QED
    BY <1>3, <2>1, <2>2 DEF Waits
<1>20. Waiters' /\ Queue'
  <2>1. Queue'
    BY <1>3 DEF IInv, Queue
  <2>2. ASSUME NEW e \in Directions, NEW i \in 1..Len(waiting'[e]), NEW x, x = waiting'[e][i]
        PROVE  Waits(x, e, i)'
    <3>1. CASE e = d
      BY <1>19, <2>2, <3>1
    <3>2. CASE e # d
      BY <1>3, <1>6, <1>14, <2>2, <3>2 DEF Waiters, Waits
    <3> QED
      BY <3>1, <3>2
  <2>3. Waiters'
    BY <2>2 DEF Waiters, Waits
  <2> QED
    BY <2>1, <2>3
<1>21. Len(Done) \in Nat /\ Len(Done') = Len(Done) + 1 /\ o \in ToSet(Done')
       /\ ToSet(Done) \subseteq ToSet(Done')
  <2>1. PICK s : s = Done
    OBVIOUS
  <2>2. s \in Seq(Ops)
    BY <1>4, <2>1
  <2>3. PICK u : u = Append(s, o)
    OBVIOUS
  <2>4. /\ u \in Seq(Ops) /\ Len(s) \in Nat /\ Len(u) = Len(s) + 1 /\ u[Len(s) + 1] = o
        /\ \A i \in 1..Len(s) : u[i] = s[i]
        /\ DOMAIN u = 1..Len(s) + 1 /\ DOMAIN s = 1..Len(s)
    BY <1>9, <2>2, <2>3, AppendProperties, LenProperties
  <2>5. o \in ToSet(u) /\ ToSet(s) \subseteq ToSet(u)
    BY <2>4 DEF ToSet
  <2> QED
    BY <1>17, <2>1, <2>3, <2>4, <2>5
<1>22. ASSUME NEW e \in Directions, e # d, Notice(e) PROVE Notice(e)'
  <2>1. \/ listed /\ e \in registered
        \/ Queued(op_queue, e)
        \/ e \in Busy
        \/ \E x \in OpsIn(op_queue) : Failing(x)
        \/ \E x \in ToSet(Done) : Failing(x)
    BY <1>22, QueueViews, PendingPlace DEF Pending
  <2>2. \/ listed' /\ e \in registered'
        \/ Queued(op_queue', e)
        \/ e \in Busy'
        \/ \E x \in OpsIn(op_queue') : Failing(x)'
        \/ \E x \in ToSet(Done') : Failing(x)'
    BY <1>3, <1>17, <1>21, <1>22, <2>1 DEF Failing
  <2> QED
    BY <2>2, NoticeNext
<1>23. ASSUME NEW e \in Directions, e # d PROVE Edge(e)'
  <2>1. Ready(e)' <=> Ready(e)
    BY <1>3, <1>4, <1>7, <1>23 DEF Ready, Directions
  <2> QED
    BY <1>3, <1>6, <1>13, <1>14, <1>22, <1>23, <2>1 DEF Edges, Edge
<1>24. Edge(d)'
  <2> SUFFICES ASSUME Ready(d)' PROVE Notice(d)'
    BY DEF Edge
  <2>1. CASE ~Exhausted(op)
    BY <1>4, <1>17, <2>1, NoticeNext
  <2>2. CASE Exhausted(op)
    <3>1. ~(d = "out" /\ ended # "err" /\ space' = 0)
      BY <1>3 DEF Ready
    <3>2. Failing(o)'
      BY <1>3, <1>9, <1>10, <1>11, <2>2, <3>1 DEF Failing
    <3> QED
      BY <1>21, <3>2, NoticeNext
  <2> QED
    BY <2>1, <2>2
<1>25. SpaceAsked'
  <2>1. CASE d = "in"
    BY <1>3, <1>6, <1>7, <1>13, <1>14, <1>17, <2>1 DEF Edges, SpaceAsked, Directions
  <2>2. CASE d = "out"
    <3>1. nospace' \/ "out" \in Busy'
      BY <1>4, <1>12, <1>17, <2>2
    <3>2. waiting'["out"] # <<>> => waiting'["out"][1].kind # "connect"
      <4>1. waiting'["out"] # <<>> => 1 \in 1..Len(waiting'["out"])
        <5>1. waiting'["out"] \in Seq(Ops)
          BY <1>14 DEF Directions
        <5> QED
          BY <5>1, LenProperties, EmptySeq
      <4> QED
        BY <1>19, <2>2, <4>1
    <3> QED
      BY <3>1, <3>2 DEF SpaceAsked
  <2> QED
    BY <1>4, <2>1, <2>2 DEF Directions
<1>26. Asked'
  BY <1>3, <1>4, <1>6, <1>14 DEF Edges, Asked, Directions
<1>27. \A e \in Busy' : speculative'[e]
  <2>1. Busy \subseteq Directions
    BY IoFacts DEF IInv
  <2> QED
    BY <1>6, <1>13, <1>17, <2>1 DEF Edges
<1>28. Edges'
  BY <1>23, <1>24, <1>25, <1>26, <1>27 DEF Edges
<1>29. WorkExact'
  <2>1. PICK a, b, c, n \in Nat : a = Len(waiting["in"]) /\ b = Len(waiting["out"])
                                  /\ c = Count(op_queue) /\ n = Len(Done)
    <3>1. Len(waiting["in"]) \in Nat /\ Len(waiting["out"]) \in Nat
      BY <1>6, WaitingFacts DEF Directions
    <3>2. Count(op_queue) \in Nat
      BY CountConcat DEF IInv, Shapes
    <3> QED
      BY <1>21, <3>1, <3>2
  <2>2. work = a + b + n + c
    <3>1. Places("op") = PlacesIn(op_queue, "op")
      BY DEF Places, PlacesIn
    <3> QED
      BY <2>1, <3>1, Zenon DEF IInv, WorkExact, Count
  <2>3. PICK k \in Nat : k = n + 1
    OBVIOUS
  <2>4. Len(Done') = k /\ Count(op_queue') = c /\ work' = a + b + n + c
    BY <1>3, <1>21, <2>1, <2>2, <2>3
  <2>5. CASE d = "in"
    <3>1. PICK x \in Nat : x = a - 1 /\ a = x + 1
      <4>1. a > 0
        BY <1>14, <2>1, <2>5, Zenon
      <4> QED
        BY <4>1
    <3>2. Len(waiting'["in"]) = x /\ Len(waiting'["out"]) = b
      BY <1>14, <2>1, <2>5, <3>1 DEF Directions
    <3>3. a + b + n + c = x + b + k + c
      BY <2>3, <3>1
    <3>4. work' = Len(waiting'["in"]) + Len(waiting'["out"]) + k + Count(op_queue')
      BY <2>4, <3>2, <3>3, Zenon
    <3> QED
      BY <2>4, <3>2, <3>4, WorkNext, Zenon
  <2>6. CASE d = "out"
    <3>1. PICK x \in Nat : x = b - 1 /\ b = x + 1
      <4>1. b > 0
        BY <1>14, <2>1, <2>6, Zenon
      <4> QED
        BY <4>1
    <3>2. Len(waiting'["in"]) = a /\ Len(waiting'["out"]) = x
      BY <1>14, <2>1, <2>6, <3>1 DEF Directions
    <3>3. a + b + n + c = a + x + k + c
      BY <2>3, <3>1
    <3>4. work' = Len(waiting'["in"]) + Len(waiting'["out"]) + k + Count(op_queue')
      BY <2>4, <3>2, <3>3, Zenon
    <3> QED
      BY <2>4, <3>2, <3>4, WorkNext, Zenon
  <2> QED
    BY <1>4, <2>5, <2>6 DEF Directions
<1> QED
  BY <1>18, <1>20, <1>28, <1>29 DEF IInv

(* Every step keeps the invariant.                                         *)
LEMMA NextIInv == IInv /\ [Next]_vars => IInv'
<1> SUFFICES ASSUME IInv, [Next]_vars PROVE IInv'
  OBVIOUS
<1>1. CASE UserStep
  <2>1. CASE \E t \in Threads : Connect(t)
    BY <2>1, ConnectStep
  <2>2. CASE \E t \in Threads : \E res \in {"ok", "fail"} : ConnectAtOnce(t, res)
    BY <2>2, ConnectAtOnceStep
  <2>3. CASE \E n \in Sizes : \E t \in Readers, kind \in {"read", "read_some"} : Start(t, kind, n)
    <3>1. PICK n \in Sizes, t \in Readers, kind \in {"read", "read_some"} : Start(t, kind, n)
      BY <2>3
    <3>2. t \in Threads /\ kind \in {"read", "read_some", "write"}
      BY DEF Threads
    <3> QED
      BY <3>1, <3>2, StartStep
  <2>4. CASE \E n \in Sizes : \E t \in Writers : Start(t, "write", n)
    <3>1. PICK n \in Sizes, t \in Writers : Start(t, "write", n)
      BY <2>4
    <3>2. t \in Threads
      BY DEF Threads
    <3> QED
      BY <3>1, <3>2, StartStep
  <2> QED
    BY <1>1, <2>1, <2>2, <2>3, <2>4, AcceptedStep, CloseStep DEF UserStep
<1>2. CASE Arrive \/ Drain \/ PeerEnds
  BY <1>2, KernelSteps
<1>3. CASE RunStep
  BY <1>3, RunTaskStep, RunDescriptorStep, RunOpStep, PerformIoStep, LeaveDirectionStep,
     RunFirstDoneStep, NothingDoneStep DEF RunStep
<1>4. CASE UNCHANGED vars
  <2>1. /\ UNCHANGED <<open, sock, waiting, speculative, registered, op_queue, work, io, at>>
        /\ UNCHANGED <<avail, ended, space, nospace, listed>>
    BY <1>4 DEF vars, descVars, kernelVars
  <2>2. Shapes' /\ Waiters' /\ Queue' /\ WorkExact'
    BY <2>1 DEF IInv, Shapes, TypeOK, Waiters, Waits, Queue, WorkExact, Places, Done, InRunOne
  <2>3. Busy' = Busy
    BY <2>1 DEF Busy, InRunOne
  <2>4. \A d \in Directions : Edge(d)'
    BY <2>1, NoticeKept DEF IInv, Edges, Edge, Ready
  <2>5. Edges'
    BY <2>1, <2>3, <2>4 DEF IInv, Edges, Asked, SpaceAsked
  <2> QED
    BY <2>2, <2>5 DEF IInv
<1> QED
  BY <1>1, <1>2, <1>3, <1>4 DEF Next

----------------------------------------------------------------------------
(* The inductive invariant: the types and the items of the queues; what    *)
(* waits, waits on the open socket in its direction; the task behind at    *)
(* most one descriptor item; the exact count; and, for every direction     *)
(* that was asked for and that the next operation would not try by itself, *)
(* a notification on its way (epoll_reactor.ipp and scheduler.ipp).        *)
THEOREM ReactorInvariant == Spec => []IInv
<1>1. Init => IInv
  BY InitIInv
<1>2. IInv /\ [Next]_vars => IInv'
  BY NextIInv
<1> QED
  BY <1>1, <1>2, PTL DEF Spec

(* TypeOK: no system call of perform_io or start_op takes more than the    *)
(* buffers hold, so no transfer ends with a negative rest.                 *)
THEOREM ReactorTypes == Spec => []TypeOK
<1>1. IInv => TypeOK
  BY DEF IInv, Shapes
<1> QED
  BY <1>1, ReactorInvariant, PTL

(* outstanding_work_ counts the operations whose handlers have not run:    *)
(* start_op, perform_io's compensation and work_cleanup keep it exact, so  *)
(* the io_context neither stops early nor runs for ever.                   *)
THEOREM WorkIsExact == Spec => []WorkExact
<1>1. IInv => WorkExact
  BY DEF IInv
<1> QED
  BY <1>1, ReactorInvariant, PTL

(* No edge is lost: where an operation waits for a direction that is       *)
(* ready, the event that will perform or abort it is on its way            *)
(* (start_op, perform_io and the handlers' close).                         *)
THEOREM EdgesAreKept == Spec => []NoLostEdge
<1>1. IInv => NoLostEdge
  <2> SUFFICES ASSUME IInv, NEW d \in {"in", "out"}, open, waiting[d] # <<>>, Ready(d)
               PROVE  \/ listed /\ d \in registered
                      \/ \E i \in Places("descriptor") : d \in op_queue[i].events
                      \/ InRunOne /\ d \in ToSet(io[1].todo)
                      \/ \E op \in Outstanding :
                            op.kind # "connect" /\ op.res = "fail" /\ op.sock = sock
    BY DEF NoLostEdge
  <2>1. d \in registered
    BY DEF IInv, Edges, Asked
  <2>2. Notice(d)
    BY <2>1 DEF IInv, Edges, Edge, Directions
  <2>3. d \in Busy => InRunOne /\ d \in ToSet(io[1].todo)
    BY DEF Busy
  <2> QED
    BY <2>2, <2>3 DEF Notice, Failing
<1> QED
  BY <1>1, ReactorInvariant, PTL

(* The task is queued once and behind every descriptor item, of which      *)
(* there is at most one: the assumption of epoll_reactor::run.             *)
THEOREM TaskStaysBehind == Spec => []TaskBehindDescriptors
<1>1. IInv => TaskBehindDescriptors
  <2> SUFFICES ASSUME IInv PROVE TaskBehindDescriptors
    OBVIOUS
  <2>1. PICK p \in 1..Len(op_queue) :
           /\ op_queue[p].type = "task"
           /\ \A i \in 1..Len(op_queue) : op_queue[i].type = "task" => i = p
           /\ \A i \in 1..Len(op_queue) : op_queue[i].type = "descriptor" => i < p
    BY DEF IInv, Queue, TaskOnce
  <2>2. Places("task") = {p}
    BY <2>1 DEF Places
  <2>3. Cardinality(Places("task")) = 1
    BY <2>2, FS_Singleton
  <2>4. ASSUME NEW i \in Places("descriptor")
        PROVE  Places("descriptor") = {i} /\ \A j \in Places("task") : i < j
    <3>1. Places("descriptor") = {i}
      BY DEF IInv, Queue, DescriptorOnce, Places
    <3>2. i < p
      BY <2>1 DEF Places
    <3> QED
      BY <2>2, <3>1, <3>2
  <2> QED
    BY <2>3, <2>4 DEF TaskBehindDescriptors
<1> QED
  BY <1>1, ReactorInvariant, PTL
=============================================================================
