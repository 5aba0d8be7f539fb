-------------------------- MODULE ConnectionProofs --------------------------
(***************************************************************************)
(* The safety properties of a connection, for every set of light threads   *)
(* and all sizes.                                                          *)
(***************************************************************************)
EXTENDS Connection, SequenceTheorems, TLAPS

(* Operations of different light threads.                                  *)
Distinct(s) ==
    /\ s \in Seq(Ops)
    /\ \A k, l \in 1..Len(s) : s[k].who = s[l].who => k = l

Apart(S, T) == \A x \in S, y \in T : x.who # y.who

(* Queues q of the descriptor and queued handlers rest: every operation is *)
(* in one place, waits in its own direction and without a result, and has  *)
(* one when its handler is queued.                                         *)
InQueues(q) == ToSet(q["in"]) \cup ToSet(q["out"])

Queues(q, rest) ==
    /\ q \in [{"in", "out"} -> Seq(Ops)]
    /\ \A d \in {"in", "out"} :
          /\ Distinct(q[d])
          /\ \A x \in ToSet(q[d]) : Direction(x.kind) = d /\ x.res = "none"
    /\ Distinct(rest)
    /\ \A x \in ToSet(rest) : x.res # "none"
    /\ Apart(ToSet(q["in"]), ToSet(q["out"])) /\ Apart(InQueues(q), ToSet(rest))

(* What an operation relies on: its light thread is in the call, and its   *)
(* handler owns the object; that of connect does not, but nobody else has  *)
(* con yet, and con keeps the object for it.                               *)
OpSound(op) ==
    /\ op.got <= op.size
    /\ at[op.who] = op.kind
    /\ IF op.kind = "connect"
       THEN holders = {op.who} /\ con = "usable"
       ELSE op.who \in owners

OpsSound == \A op \in Outstanding : OpSound(op)

(* The object exists as long as it is owned.                               *)
Owned == object = "alive" <=> owners # {}

(* Lua keeps its pointer while a light thread can use con.                 *)
LuaKeeps == con = "usable" /\ holders # {} => "lua" \in owners

(* Before the connection exists nobody has to do with it.                  *)
Unborn ==
    object = "none" =>
       /\ holders = {} /\ con = "usable" /\ Outstanding = {}
       /\ \A t \in Users : at[t] = "idle"

(* The same operation, perhaps with a result; a set of operations of which *)
(* some may have failed since.                                             *)
Same(x, y) == x.who = y.who /\ x.kind = y.kind /\ x.size = y.size /\ x.got = y.got

Carried(A, B) ==
    /\ \A x \in B : \E y \in A : Same(x, y) /\ (x = y \/ x.res = "fail")
    /\ \A y \in A : \E x \in B : Same(x, y)

(* TypeOK without what Queues and OpsSound say.                            *)
Types ==
    /\ object \in {"none", "alive", "freed"} /\ owners \subseteq Users \cup {"lua"}
    /\ con \in {"usable", "closed"} /\ holders \subseteq Users
    /\ socket \in {"open", "closed"}
    /\ read_buff \in Seq(Nat) /\ capacity \in Nat /\ stale \subseteq Users
    /\ at \in [Users -> Kinds \cup {"idle", "run", "done", "lost"}]
    /\ peer \in {"open", "finished", "reset"} /\ sent \in Nat /\ received \in 0..sent
    /\ returned \in [Users -> Seq(Nat)]
    /\ out \in Seq(Users \X Nat \X Nat)
    /\ wrote \in [Users -> Seq(Nat)] /\ acked \in [Users -> Nat]

(* A light thread was lost by the one close of the socket that threw.      *)
LostByClose ==
    \A t \in Users : at[t] = "lost" =>
       /\ CloseErrors /\ socket = "closed"
       /\ \A u \in Users : at[u] = "lost" => u = t

(* CallsReturn, with what keeps a second light thread from being lost.     *)
Returning ==
    /\ \A t \in Users : at[t] \in Kinds => \E op \in Outstanding : op.who = t
    /\ LostByClose

IInv ==
    /\ Types /\ Queues(op_queue, ready) /\ OpsSound /\ Owned /\ LuaKeeps /\ Unborn
    /\ NothingWaitsOnClosed /\ Returning

----------------------------------------------------------------------------
(* Queues of operations, seen as sets.                                     *)

(* The operations in a queue.                                              *)
LEMMA SetOfQueue ==
    ASSUME NEW s \in Seq(Ops)
    PROVE  /\ ToSet(s) = {s[k] : k \in 1..Len(s)}
           /\ ToSet(s) \subseteq Ops
BY LenProperties, ElementOfSeq DEF ToSet

(* A queue of one operation.                                               *)
LEMMA SingleOp ==
    ASSUME NEW x \in Ops
    PROVE  Distinct(<<x>>) /\ ToSet(<<x>>) = {x}
BY DEF Distinct, ToSet

(* A queue of none.                                                        *)
LEMMA EmptyQueue == Distinct(<<>>) /\ ToSet(<<>>) = {}
BY DEF Distinct, ToSet

(* Two queues without a light thread in common can be joined.              *)
LEMMA ConcatOps ==
    ASSUME NEW s, NEW u, Distinct(s), Distinct(u), Apart(ToSet(s), ToSet(u))
    PROVE  Distinct(s \o u) /\ ToSet(s \o u) = ToSet(s) \cup ToSet(u)
<1> DEFINE c == s \o u
<1>1. /\ s \in Seq(Ops) /\ u \in Seq(Ops) /\ Len(s) \in Nat /\ Len(u) \in Nat
  BY LenProperties DEF Distinct
<1>2. /\ c \in Seq(Ops) /\ Len(c) = Len(s) + Len(u)
      /\ \A k \in 1..Len(s) : c[k] = s[k]
      /\ \A k \in 1..Len(u) : c[Len(s) + k] = u[k]
  BY <1>1, ConcatProperties
<1>3. \A k \in 1..Len(c) : k \in 1..Len(s) \/ \E l \in 1..Len(u) : k = Len(s) + l
  <2> SUFFICES ASSUME NEW k \in 1..Len(c), ~(k \in 1..Len(s))
               PROVE  \E l \in 1..Len(u) : k = Len(s) + l
    OBVIOUS
  <2>1. k - Len(s) \in 1..Len(u) /\ k = Len(s) + (k - Len(s))
    BY <1>1, <1>2
  <2> QED
    BY <2>1
<1> HIDE DEF c
<1>4. /\ ToSet(s) = {s[k] : k \in 1..Len(s)} /\ ToSet(u) = {u[k] : k \in 1..Len(u)}
      /\ ToSet(c) = {c[k] : k \in 1..Len(c)}
  BY <1>1, <1>2, SetOfQueue
<1>5. ToSet(c) = ToSet(s) \cup ToSet(u)
  <2>1. \A k \in 1..Len(s) : k \in 1..Len(c)
    BY <1>1, <1>2
  <2>2. \A k \in 1..Len(u) : Len(s) + k \in 1..Len(c)
    BY <1>1, <1>2
  <2>3. ToSet(s) \subseteq ToSet(c)
    BY <1>2, <1>4, <2>1
  <2>4. ToSet(u) \subseteq ToSet(c)
    BY <1>2, <1>4, <2>2
  <2>5. ASSUME NEW x \in ToSet(c) PROVE x \in ToSet(s) \cup ToSet(u)
    <3>1. PICK k \in 1..Len(c) : x = c[k]
      BY <1>4
    <3>2. CASE k \in 1..Len(s)
      BY <1>2, <1>4, <3>1, <3>2
    <3>3. CASE \E l \in 1..Len(u) : k = Len(s) + l
      BY <1>2, <1>4, <3>1, <3>3
    <3> QED
      BY <1>3, <3>1, <3>2, <3>3
  <2> QED
    BY <2>3, <2>4, <2>5
<1>6. \A k \in 1..Len(s), l \in 1..Len(u) : s[k].who # u[l].who
  BY <1>4 DEF Apart
<1>7. ASSUME NEW k \in 1..Len(c), NEW l \in 1..Len(c), c[k].who = c[l].who
      PROVE  k = l
  <2>1. CASE k \in 1..Len(s) /\ l \in 1..Len(s)
    BY <1>2, <1>7, <2>1 DEF Distinct
  <2>2. CASE k \in 1..Len(s) /\ \E n \in 1..Len(u) : l = Len(s) + n
    BY <1>2, <1>6, <1>7, <2>2
  <2>3. CASE l \in 1..Len(s) /\ \E n \in 1..Len(u) : k = Len(s) + n
    BY <1>2, <1>6, <1>7, <2>3
  <2>4. CASE (\E n \in 1..Len(u) : k = Len(s) + n) /\ \E n \in 1..Len(u) : l = Len(s) + n
    <3>1. PICK m \in 1..Len(u) : k = Len(s) + m
      BY <2>4
    <3>2. PICK n \in 1..Len(u) : l = Len(s) + n
      BY <2>4
    <3>3. u[m].who = u[n].who
      BY <1>2, <1>7, <3>1, <3>2
    <3> QED
      BY <3>1, <3>2, <3>3 DEF Distinct
  <2> QED
    BY <1>3, <2>1, <2>2, <2>3, <2>4
<1> QED
  BY <1>2, <1>5, <1>7 DEF Distinct, c

(* An operation is queued behind the others,                               *)
LEMMA AppendOp ==
    ASSUME NEW s, Distinct(s), NEW x \in Ops, Apart(ToSet(s), {x})
    PROVE  Distinct(Append(s, x)) /\ ToSet(Append(s, x)) = ToSet(s) \cup {x}
<1>1. Append(s, x) = s \o <<x>>
  BY AppendIsConcat DEF Distinct
<1>2. Distinct(<<x>>) /\ ToSet(<<x>>) = {x}
  BY SingleOp
<1>3. Distinct(s \o <<x>>) /\ ToSet(s \o <<x>>) = ToSet(s) \cup ToSet(<<x>>)
  BY <1>2, ConcatOps
<1> QED
  BY <1>1, <1>2, <1>3

(* or before them.                                                         *)
LEMMA PrependOp ==
    ASSUME NEW s, Distinct(s), NEW x \in Ops, Apart(ToSet(s), {x})
    PROVE  Distinct(<<x>> \o s) /\ ToSet(<<x>> \o s) = ToSet(s) \cup {x}
<1>1. Apart({x}, ToSet(s))
  BY DEF Apart
<1> QED
  BY <1>1, SingleOp, ConcatOps

(* The first operation is taken off a queue.                               *)
LEMMA HeadOp ==
    ASSUME NEW s, Distinct(s), s # <<>>
    PROVE  /\ Head(s) \in Ops /\ Distinct(Tail(s))
           /\ ToSet(s) = ToSet(Tail(s)) \cup {Head(s)}
           /\ Apart(ToSet(Tail(s)), {Head(s)})
<1>1. /\ s \in Seq(Ops) /\ Tail(s) \in Seq(Ops) /\ Head(s) \in Ops
      /\ Len(s) \in Nat \ {0} /\ Len(Tail(s)) = Len(s) - 1
      /\ \A k \in 1..Len(Tail(s)) : Tail(s)[k] = s[k + 1]
      /\ Head(s) = s[1]
  BY HeadTailProperties, EmptySeq DEF Distinct
<1>2. \A k \in 1..Len(Tail(s)) : k + 1 \in 1..Len(s) /\ k + 1 # 1
  BY <1>1
<1>3. \A k \in 1..Len(s) : k = 1 \/ \E l \in 1..Len(Tail(s)) : k = l + 1
  <2> SUFFICES ASSUME NEW k \in 1..Len(s), k # 1
               PROVE  \E l \in 1..Len(Tail(s)) : k = l + 1
    OBVIOUS
  <2>1. k - 1 \in 1..Len(Tail(s)) /\ k = (k - 1) + 1
    BY <1>1
  <2> QED
    BY <2>1
<1>4. /\ ToSet(s) = {s[k] : k \in 1..Len(s)}
      /\ ToSet(Tail(s)) = {Tail(s)[k] : k \in 1..Len(Tail(s))}
  BY <1>1, SetOfQueue
<1>5. ToSet(s) = ToSet(Tail(s)) \cup {Head(s)}
  <2>1. ToSet(Tail(s)) \subseteq ToSet(s)
    BY <1>1, <1>2, <1>4
  <2>2. Head(s) \in ToSet(s)
    BY <1>1, <1>4
  <2>3. ASSUME NEW x \in ToSet(s), x # Head(s) PROVE x \in ToSet(Tail(s))
    BY <1>1, <1>3, <1>4, <2>3
  <2> QED
    BY <2>1, <2>2, <2>3
<1>6. Apart(ToSet(Tail(s)), {Head(s)})
  BY <1>1, <1>2, <1>4 DEF Apart, Distinct
<1>7. Distinct(Tail(s))
  BY <1>1, <1>2 DEF Distinct
<1> QED
  BY <1>1, <1>5, <1>6, <1>7

(* Another result, the same operation.                                     *)
LEMMA WithResultOp ==
    ASSUME NEW x \in Ops, NEW res \in {"none", "ok", "fail"}
    PROVE  /\ WithResult(x, res) \in Ops
           /\ WithResult(x, res).who = x.who /\ WithResult(x, res).kind = x.kind
           /\ WithResult(x, res).size = x.size /\ WithResult(x, res).got = x.got
           /\ WithResult(x, res).res = res
BY DEF WithResult, Ops

(* What an abort makes of a queue.                                         *)
Failed(s) == [k \in 1..Len(s) |-> WithResult(s[k], "fail")]

(* All operations of a queue are aborted.                                  *)
LEMMA AbortOps ==
    ASSUME NEW s, Distinct(s)
    PROVE  /\ Distinct(Failed(s))
           /\ ToSet(Failed(s)) = {WithResult(x, "fail") : x \in ToSet(s)}
<1>1. /\ s \in Seq(Ops) /\ Len(s) \in Nat /\ \A k \in 1..Len(s) : s[k] \in Ops
  BY LenProperties, ElementOfSeq DEF Distinct
<1>2. \A k \in 1..Len(s) : WithResult(s[k], "fail") \in Ops /\ WithResult(s[k], "fail").who = s[k].who
  BY <1>1, WithResultOp
<1>3. /\ Failed(s) \in Seq(Ops) /\ Len(Failed(s)) = Len(s)
      /\ \A k \in 1..Len(s) : Failed(s)[k] = WithResult(s[k], "fail")
  BY <1>1, <1>2 DEF Failed
<1>4. /\ ToSet(s) = {s[k] : k \in 1..Len(s)}
      /\ ToSet(Failed(s)) = {Failed(s)[k] : k \in 1..Len(s)}
  BY <1>1, <1>3, SetOfQueue
<1> QED
  BY <1>2, <1>3, <1>4 DEF Distinct

----------------------------------------------------------------------------
(* What the operators of Connection do to the queues.                      *)

(* What waits, and what is queued to be handled, are apart.                *)
LEMMA QueueFacts ==
    ASSUME NEW rest, Queues(op_queue, rest)
    PROVE  /\ Waiting = InQueues(op_queue) /\ Waiting \subseteq Ops
           /\ ToSet(rest) \subseteq Ops
           /\ \A x \in Waiting : x.res = "none"
           /\ Apart(Waiting, ToSet(rest))
<1>1. Waiting = InQueues(op_queue)
  BY DEF Waiting, InQueues
<1>2. ToSet(op_queue["in"]) \subseteq Ops /\ ToSet(op_queue["out"]) \subseteq Ops
  BY SetOfQueue DEF Queues, Distinct
<1>3. ToSet(rest) \subseteq Ops
  BY SetOfQueue DEF Queues, Distinct
<1> QED
  BY <1>1, <1>2, <1>3 DEF Queues, InQueues

(* Closing the socket: nothing waits any more and no operation is lost.    *)
LEMMA CloseFacts ==
    ASSUME NEW rest, Queues(op_queue, rest), CloseSocket(rest)
    PROVE  /\ socket' = "closed" /\ Waiting' = {}
           /\ Queues(op_queue', ready')
           /\ Outstanding' = ToSet(rest) \cup {WithResult(x, "fail") : x \in Waiting}
           /\ Carried(Waiting \cup ToSet(rest), Outstanding')
<1> DEFINE a == op_queue["in"] \o op_queue["out"]
<1>1. Distinct(a) /\ ToSet(a) = Waiting
  BY ConcatOps DEF Queues, Waiting
<1>2. Distinct(Failed(a)) /\ ToSet(Failed(a)) = {WithResult(x, "fail") : x \in Waiting}
  BY <1>1, AbortOps
<1>3. /\ socket' = "closed" /\ op_queue' = [d \in {"in", "out"} |-> <<>>]
      /\ ready' = rest \o Failed(a)
  BY DEF CloseSocket, Failed
<1> HIDE DEF a
<1>4. /\ Waiting \subseteq Ops /\ ToSet(rest) \subseteq Ops /\ Apart(Waiting, ToSet(rest))
      /\ \A x \in Waiting : x.res = "none"
  BY QueueFacts
<1>5. \A x \in Waiting : /\ WithResult(x, "fail") \in Ops
                         /\ Same(WithResult(x, "fail"), x)
                         /\ WithResult(x, "fail").res = "fail"
  BY <1>4, WithResultOp DEF Same
<1>6. Apart(ToSet(rest), ToSet(Failed(a)))
  BY <1>2, <1>4, <1>5 DEF Apart, Same
<1>7. Distinct(ready') /\ ToSet(ready') = ToSet(rest) \cup ToSet(Failed(a))
  BY <1>2, <1>3, <1>6, ConcatOps DEF Queues
<1>8. op_queue'["in"] = <<>> /\ op_queue'["out"] = <<>>
  BY <1>3
<1>9. Waiting' = {}
  BY <1>8, EmptyQueue DEF Waiting
<1>10. Outstanding' = ToSet(rest) \cup {WithResult(x, "fail") : x \in Waiting}
  BY <1>2, <1>7, <1>9 DEF Outstanding
<1>11. Carried(Waiting \cup ToSet(rest), Outstanding')
  BY <1>5, <1>10 DEF Carried, Same
<1>12. \A x \in ToSet(ready') : x.res # "none"
  BY <1>2, <1>5, <1>7 DEF Queues
<1>13. op_queue' \in [{"in", "out"} -> Seq(Ops)]
  BY <1>3
<1>14. Queues(op_queue', ready')
  BY <1>7, <1>8, <1>12, <1>13, EmptyQueue DEF Queues, InQueues, Apart
<1> QED
  BY <1>3, <1>9, <1>10, <1>11, <1>14

(* start_op: the new operation waits, or its handler is queued with the    *)
(* result the socket gives at once.                                        *)
LEMMA StartFacts ==
    ASSUME NEW rest, Queues(op_queue, rest), NEW op \in Ops, op.res = "none",
           Apart(Waiting \cup ToSet(rest), {op}), StartOp(op, rest)
    PROVE  /\ socket' = socket
           /\ socket = "closed" => Waiting' = Waiting
           /\ Queues(op_queue', ready')
           /\ \E o \in Ops :
                 /\ Same(o, op) /\ Outstanding' = Waiting \cup ToSet(rest) \cup {o}
                 /\ o.res = "ok" => op.size = 0
                 /\ o.res = "fail" => socket = "closed"
                 /\ o.res = "none" => socket # "closed"
<1>1. /\ Waiting \subseteq Ops /\ ToSet(rest) \subseteq Ops /\ Apart(Waiting, ToSet(rest))
      /\ Waiting = InQueues(op_queue)
      /\ Apart(Waiting, {op}) /\ Apart(ToSet(rest), {op})
  BY QueueFacts DEF Apart
<1>2. ASSUME NEW res \in {"ok", "fail"}, op_queue' = op_queue,
             ready' = Append(rest, WithResult(op, res))
      PROVE  /\ Queues(op_queue', ready') /\ Waiting' = Waiting
             /\ WithResult(op, res) \in Ops /\ Same(WithResult(op, res), op)
             /\ WithResult(op, res).res = res
             /\ Outstanding' = Waiting \cup ToSet(rest) \cup {WithResult(op, res)}
  <2> DEFINE o == WithResult(op, res)
  <2>1. o \in Ops /\ Same(o, op) /\ o.res = res
    BY WithResultOp DEF Same
  <2> HIDE DEF o
  <2>2. Apart(ToSet(rest), {o}) /\ Apart(Waiting, {o})
    BY <1>1, <2>1 DEF Apart, Same
  <2>3. Distinct(ready') /\ ToSet(ready') = ToSet(rest) \cup {o}
    BY <1>2, <2>1, <2>2, AppendOp DEF Queues, o
  <2>4. Waiting' = Waiting
    BY <1>2 DEF Waiting
  <2>5. Queues(op_queue', ready')
    <3>1. \A x \in ToSet(ready') : x.res # "none"
      BY <1>2, <2>1, <2>3 DEF Queues
    <3>2. Apart(InQueues(op_queue'), ToSet(ready'))
      BY <1>1, <1>2, <2>2, <2>3 DEF Apart
    <3> QED
      BY <1>2, <2>3, <3>1, <3>2 DEF Queues
  <2>6. Outstanding' = Waiting \cup ToSet(rest) \cup {o}
    BY <2>3, <2>4 DEF Outstanding
  <2> QED
    BY <2>1, <2>4, <2>5, <2>6 DEF o
<1>3. CASE op.kind # "connect" /\ op.size = 0
  <2>1. op_queue' = op_queue /\ ready' = Append(rest, WithResult(op, "ok")) /\ socket' = socket
    BY <1>3 DEF StartOp
  <2> QED
    BY <1>2, <1>3, <2>1
<1>4. CASE ~(op.kind # "connect" /\ op.size = 0) /\ socket = "closed"
  <2>1. op_queue' = op_queue /\ ready' = Append(rest, WithResult(op, "fail")) /\ socket' = socket
    BY <1>4 DEF StartOp
  <2> QED
    BY <1>2, <1>4, <2>1
<1>5. CASE ~(op.kind # "connect" /\ op.size = 0) /\ socket # "closed"
  <2> DEFINE d == Direction(op.kind)
             e == IF d = "in" THEN "out" ELSE "in"
  <2>1. /\ ready' = rest /\ socket' = socket
        /\ op_queue' = [op_queue EXCEPT ![d] = Append(@, op)]
    BY <1>5 DEF StartOp
  <2>2. d \in {"in", "out"} /\ e \in {"in", "out"} /\ d # e
    BY DEF Direction
  <2>3. /\ op_queue'[d] = Append(op_queue[d], op) /\ op_queue'[e] = op_queue[e]
        /\ DOMAIN op_queue' = {"in", "out"}
    BY <2>1, <2>2 DEF Queues
  <2>4. \A f \in {"in", "out"} : f = d \/ f = e
    BY <2>2
  <2>5. Direction(op.kind) = d
    OBVIOUS
  <2> HIDE DEF d, e
  <2>6. Apart(ToSet(op_queue[d]), {op}) /\ Apart(ToSet(op_queue[e]), {op})
    BY <1>1, <2>2 DEF Apart, InQueues
  <2>7. Distinct(op_queue'[d]) /\ ToSet(op_queue'[d]) = ToSet(op_queue[d]) \cup {op}
    BY <2>2, <2>3, <2>6, AppendOp DEF Queues
  <2>8. Distinct(op_queue'[e]) /\ ToSet(op_queue'[e]) = ToSet(op_queue[e])
    BY <2>2, <2>3 DEF Queues
  <2>9. InQueues(op_queue') = InQueues(op_queue) \cup {op}
    BY <2>2, <2>4, <2>7, <2>8 DEF InQueues
  <2>10. op_queue' \in [{"in", "out"} -> Seq(Ops)]
    <3>1. DOMAIN op_queue' = {"in", "out"} /\ \A f \in {"in", "out"} : op_queue'[f] \in Seq(Ops)
      BY <2>3, <2>4, <2>7, <2>8 DEF Distinct
    <3>2. op_queue' = [f \in {"in", "out"} |-> op_queue'[f]]
      BY <2>1, <3>1 DEF Queues
    <3> QED
      BY <3>1, <3>2
  <2>11. Apart(ToSet(op_queue'["in"]), ToSet(op_queue'["out"]))
    <3>1. Apart(ToSet(op_queue'[d]), ToSet(op_queue'[e]))
      BY <2>2, <2>6, <2>7, <2>8 DEF Queues, Apart
    <3> QED
      BY <2>2, <3>1 DEF Apart
  <2>12. \A f \in {"in", "out"} : \A x \in ToSet(op_queue'[f]) : Direction(x.kind) = f /\ x.res = "none"
    BY <2>2, <2>4, <2>5, <2>7, <2>8 DEF Queues
  <2>13. Apart(InQueues(op_queue'), ToSet(ready'))
    BY <1>1, <2>1, <2>9 DEF Apart
  <2>14. Queues(op_queue', ready')
    BY <2>1, <2>4, <2>7, <2>8, <2>10, <2>11, <2>12, <2>13 DEF Queues
  <2>15. Outstanding' = Waiting \cup ToSet(rest) \cup {op}
    BY <1>1, <2>1, <2>9 DEF Outstanding, Waiting, InQueues
  <2> QED
    BY <1>5, <2>1, <2>14, <2>15 DEF Same
<1> QED
  BY <1>3, <1>4, <1>5

(* A shared pointer goes: the last one frees the object, which closes its  *)
(* socket.                                                                 *)
LEMMA ReleaseFacts ==
    ASSUME NEW owner, NEW closing \in BOOLEAN, NEW rest,
           Queues(op_queue, rest), Release(owner, closing, rest)
    PROVE  /\ owners' = owners \ {owner}
           /\ object' = IF owners' = {} THEN "freed" ELSE object
           /\ Queues(op_queue', ready')
           /\ Carried(Waiting \cup ToSet(rest), Outstanding')
           /\ IF closing \/ owners' = {} THEN socket' = "closed" /\ Waiting' = {}
              ELSE /\ socket' = socket /\ Waiting' = Waiting
                   /\ Outstanding' = Waiting \cup ToSet(rest)
<1>1. /\ owners' = owners \ {owner}
      /\ object' = IF owners' = {} THEN "freed" ELSE object
  BY DEF Release
<1>2. CASE closing \/ owners' = {}
  <2>1. CloseSocket(rest)
    BY <1>2 DEF Release
  <2> QED
    BY <1>1, <1>2, <2>1, CloseFacts
<1>3. CASE ~(closing \/ owners' = {})
  <2>1. socket' = socket /\ op_queue' = op_queue /\ ready' = rest
    BY <1>3 DEF Release
  <2>2. Waiting' = Waiting /\ Outstanding' = Waiting \cup ToSet(rest)
    BY <2>1 DEF Outstanding, Waiting
  <2> QED
    BY <1>1, <1>3, <2>1, <2>2 DEF Carried, Same
<1> QED
  BY <1>2, <1>3

(* The kernel finishes the operation that waits first.                     *)
LEMMA FinishFacts ==
    ASSUME Queues(op_queue, ready), NEW d \in {"in", "out"}, op_queue[d] # <<>>,
           NEW o \in Ops, o.who = Head(op_queue[d]).who, o.res # "none",
           FinishFirst(d, o)
    PROVE  /\ Queues(op_queue', ready') /\ Waiting' \subseteq Waiting
           /\ Head(op_queue[d]) \in Waiting /\ Head(op_queue[d]) \in Ops
           /\ Direction(Head(op_queue[d]).kind) = d
           /\ \E R : /\ Outstanding = R \cup {Head(op_queue[d])}
                     /\ Outstanding' = R \cup {o}
                     /\ Apart(R, {o})
<1> DEFINE e == IF d = "in" THEN "out" ELSE "in"
           h == Head(op_queue[d])
<1>1. e \in {"in", "out"} /\ d # e /\ \A f \in {"in", "out"} : f = d \/ f = e
  OBVIOUS
<1>2. /\ op_queue'[d] = Tail(op_queue[d]) /\ op_queue'[e] = op_queue[e]
      /\ op_queue' = [op_queue EXCEPT ![d] = Tail(op_queue[d])]
      /\ ready' \in {Append(ready, o), <<o>> \o ready}
  BY <1>1 DEF FinishFirst, Queues
<1> HIDE DEF e
<1>3. /\ h \in Ops /\ Distinct(op_queue'[d])
      /\ ToSet(op_queue[d]) = ToSet(op_queue'[d]) \cup {h}
      /\ Apart(ToSet(op_queue'[d]), {h})
  BY <1>2, HeadOp DEF Queues
<1> HIDE DEF h
<1>4. /\ Waiting = InQueues(op_queue) /\ Waiting \subseteq Ops
      /\ Apart(Waiting, ToSet(ready)) /\ \A x \in Waiting : x.res = "none"
  BY QueueFacts
<1>5. Apart(ToSet(op_queue[d]), ToSet(op_queue[e]))
  BY <1>1 DEF Queues, Apart
<1> DEFINE V == ToSet(op_queue'[d]) \cup ToSet(op_queue[e])
<1>6. /\ InQueues(op_queue) = V \cup {h} /\ InQueues(op_queue') = V
  BY <1>1, <1>2, <1>3 DEF InQueues
<1>7. Apart(V, {h}) /\ Apart(ToSet(ready), {h})
  BY <1>3, <1>4, <1>5, <1>6 DEF Apart
<1>8. o.who = h.who
  BY DEF h
<1>9. Apart(V, {o}) /\ Apart(ToSet(ready), {o})
  BY <1>7, <1>8 DEF Apart
<1>10. Distinct(ready') /\ ToSet(ready') = ToSet(ready) \cup {o}
  <2>1. Distinct(ready)
    BY DEF Queues
  <2>2. CASE ready' = Append(ready, o)
    BY <1>9, <2>1, <2>2, AppendOp
  <2>3. CASE ready' = <<o>> \o ready
    BY <1>9, <2>1, <2>3, PrependOp
  <2> QED
    BY <1>2, <2>2, <2>3
<1>11. op_queue' \in [{"in", "out"} -> Seq(Ops)]
  <2>1. Tail(op_queue[d]) \in Seq(Ops)
    BY <1>2, <1>3 DEF Distinct
  <2> QED
    BY <1>2, <2>1 DEF Queues
<1>12. Apart(ToSet(op_queue'["in"]), ToSet(op_queue'["out"]))
  <2>1. Apart(ToSet(op_queue'[d]), ToSet(op_queue'[e]))
    BY <1>2, <1>3, <1>5 DEF Apart
  <2> QED
    BY <1>1, <2>1 DEF Apart
<1>13. \A f \in {"in", "out"} : /\ Distinct(op_queue'[f])
                                /\ \A x \in ToSet(op_queue'[f]) : Direction(x.kind) = f /\ x.res = "none"
  BY <1>1, <1>2, <1>3 DEF Queues
<1>14. Apart(InQueues(op_queue'), ToSet(ready'))
  BY <1>4, <1>6, <1>9, <1>10 DEF Apart
<1>15. \A x \in ToSet(ready') : x.res # "none"
  BY <1>10 DEF Queues
<1>16. Queues(op_queue', ready')
  BY <1>10, <1>11, <1>12, <1>13, <1>14, <1>15 DEF Queues
<1>17. Waiting' = V
  BY <1>6 DEF Waiting, InQueues
<1>18. Outstanding = (V \cup ToSet(ready)) \cup {h} /\ Outstanding' = (V \cup ToSet(ready)) \cup {o}
  BY <1>4, <1>6, <1>10, <1>17 DEF Outstanding
<1>19. Apart(V \cup ToSet(ready), {o})
  BY <1>9 DEF Apart
<1>20. Direction(h.kind) = d
  BY <1>3 DEF Queues
<1> QED
  BY <1>3, <1>4, <1>6, <1>16, <1>17, <1>18, <1>19, <1>20 DEF h

(* run_one takes the first queued handler.                                 *)
LEMMA PopFacts ==
    ASSUME Queues(op_queue, ready), ready # <<>>
    PROVE  /\ Queues(op_queue, Tail(ready))
           /\ Head(ready) \in Ops /\ Head(ready).res # "none"
           /\ Outstanding = Waiting \cup ToSet(Tail(ready)) \cup {Head(ready)}
           /\ Apart(Waiting \cup ToSet(Tail(ready)), {Head(ready)})
<1>1. /\ Head(ready) \in Ops /\ Distinct(Tail(ready))
      /\ ToSet(ready) = ToSet(Tail(ready)) \cup {Head(ready)}
      /\ Apart(ToSet(Tail(ready)), {Head(ready)})
  BY HeadOp DEF Queues
<1>2. Waiting = InQueues(op_queue) /\ Apart(Waiting, ToSet(ready))
  BY QueueFacts
<1>3. Queues(op_queue, Tail(ready)) /\ Head(ready).res # "none"
  BY <1>1 DEF Queues, Apart
<1>4. Apart(Waiting \cup ToSet(Tail(ready)), {Head(ready)})
  BY <1>1, <1>2 DEF Apart
<1> QED
  BY <1>1, <1>3, <1>4 DEF Outstanding

(* Outstanding operations are operations.                                  *)
LEMMA OutstandingOps ==
    ASSUME Queues(op_queue, ready)
    PROVE  Outstanding \subseteq Ops
BY QueueFacts DEF Outstanding

----------------------------------------------------------------------------
(* Max of two numbers.                                                     *)
LEMMA MaxPair == ASSUME NEW a \in Nat, NEW b \in Nat PROVE Max({a, b}) \in Nat
<1>1. \E x \in {a, b} : \A y \in {a, b} : x >= y
  OBVIOUS
<1> QED
  BY <1>1 DEF Max

(* Min of two numbers.                                                     *)
LEMMA MinPair ==
    ASSUME NEW a \in Nat, NEW b \in Nat
    PROVE  Min({a, b}) \in Nat /\ Min({a, b}) <= a /\ Min({a, b}) <= b
<1>1. \E x \in {a, b} : \A y \in {a, b} : x <= y
  OBVIOUS
<1>2. Min({a, b}) \in {a, b} /\ \A y \in {a, b} : Min({a, b}) <= y
  BY <1>1 DEF Min
<1> QED
  BY <1>2

(* The read buffer is resized to what the read is for; while no read is    *)
(* outstanding nobody holds a stale pointer into it.                       *)
LEMMA BufferFacts ==
    ASSUME Types, Outstanding \subseteq Ops, NEW n \in Nat, NEW always \in BOOLEAN,
           PrepareBuffer(n, always)
    PROVE  /\ read_buff' \in Seq(Nat) /\ Len(read_buff') = n
           /\ capacity' \in Nat /\ stale' \subseteq Users
           /\ (\A op \in Outstanding : Direction(op.kind) # "in") => stale' = stale
<1>1. read_buff' = Resize(read_buff, n)
  BY DEF PrepareBuffer
<1>2. read_buff \in Seq(Nat) /\ Len(read_buff) \in Nat
      /\ \A k \in 1..n : k <= Len(read_buff) => read_buff[k] \in Nat
  BY LenProperties, ElementOfSeq DEF Types
<1>3. read_buff' \in Seq(Nat) /\ Len(read_buff') = n
  BY <1>1, <1>2 DEF Resize
<1>4. Max({n, 2 * capacity}) \in Nat
  <2>1. 2 * capacity \in Nat
    BY DEF Types
  <2> QED
    BY <2>1, MaxPair
<1>5. capacity' \in Nat
  BY <1>4 DEF PrepareBuffer, Types
<1>6. stale' \subseteq stale \cup {op.who : op \in {x \in Outstanding : Direction(x.kind) = "in"}}
  BY DEF PrepareBuffer
<1>7. \A op \in Outstanding : op.who \in Users
  BY DEF Ops
<1>8. stale \subseteq stale'
  BY DEF PrepareBuffer
<1>9. stale' \subseteq Users
  <2>1. stale \subseteq Users
    BY DEF Types
  <2> QED
    BY <1>6, <1>7, <2>1
<1>10. (\A op \in Outstanding : Direction(op.kind) # "in") => stale' = stale
  BY <1>6, <1>8
<1> QED
  BY <1>3, <1>5, <1>9, <1>10

(* Before the connection exists.                                           *)
LEMMA InitIInv == Init => IInv
<1> SUFFICES ASSUME Init PROVE IInv
  OBVIOUS
<1>1. op_queue["in"] = <<>> /\ op_queue["out"] = <<>> /\ ready = <<>>
  BY DEF Init
<1>2. Outstanding = {} /\ Waiting = {}
  BY <1>1, EmptyQueue DEF Outstanding, Waiting
<1>3. Queues(op_queue, ready)
  BY <1>1, EmptyQueue DEF Init, Queues, InQueues, Apart
<1>4. Types
  BY DEF Init, Types
<1>5. \A t \in Users : at[t] = "idle"
  BY DEF Init
<1>6. Returning
  BY <1>5 DEF Returning, LostByClose, Kinds
<1> QED
  BY <1>2, <1>3, <1>4, <1>5, <1>6
     DEF Init, IInv, OpsSound, Owned, LuaKeeps, Unborn, NothingWaitsOnClosed

(* While a connect is outstanding nobody can call anything.                *)
LEMMA NoConnectInCall ==
    ASSUME IInv, NEW t \in Users, at[t] = "run", t \in holders
    PROVE  \A op \in Outstanding : op.kind # "connect"
<1> SUFFICES ASSUME NEW op \in Outstanding, op.kind = "connect" PROVE FALSE
  OBVIOUS
<1>1. OpSound(op)
  BY DEF IInv, OpsSound
<1>2. at[op.who] = "connect" /\ holders = {op.who}
  BY <1>1 DEF OpSound
<1> QED
  BY <1>2

(* A light thread that runs has no operation outstanding.                  *)
LEMMA NoOpInRun ==
    ASSUME IInv, NEW t \in Users, at[t] = "run"
    PROVE  \A op \in Outstanding : op.who # t /\ op.kind \in Kinds /\ op.who \in Users
<1>1. Outstanding \subseteq Ops
  BY OutstandingOps DEF IInv
<1>2. \A op \in Outstanding : op.kind \in Kinds /\ op.who \in Users
  BY <1>1 DEF Ops
<1>3. "run" \notin Kinds
  BY DEF Kinds
<1>4. \A op \in Outstanding : at[op.who] = op.kind
  BY DEF IInv, OpsSound, OpSound
<1> QED
  BY <1>2, <1>3, <1>4

(* Steps that leave queues and owners alone and move one running light     *)
(* thread, or an idle one, to a place outside of calls.                    *)
LEMMA MoveStep ==
    ASSUME IInv, Types', NEW t \in Users, at[t] \in {"run", "idle"},
           NEW p \in {"run", "done"}, at' = [at EXCEPT ![t] = p], UNCHANGED <<object, owners, con, opVars>>,
           object # "none",
           holders' # {} => holders # {},
           \A op \in Outstanding : op.kind = "connect" => holders' = holders
    PROVE  IInv'
<1>1. Waiting' = Waiting /\ Outstanding' = Outstanding
  BY DEF Waiting, Outstanding, opVars
<1>2. Outstanding \subseteq Ops
  BY OutstandingOps DEF IInv
<1>3. {"run", "done", "idle"} \cap Kinds = {}
  BY DEF Kinds
<1>4. \A op \in Outstanding : op.who # t /\ op.who \in Users
  BY <1>2, <1>3 DEF IInv, OpsSound, OpSound, Ops
<1>5. \A u \in Users : u # t => at'[u] = at[u]
  BY DEF Types, IInv
<1>6. OpsSound'
  BY <1>1, <1>4, <1>5 DEF IInv, OpsSound, OpSound
<1>7. at'[t] = p
  BY DEF Types, IInv
<1>8. Returning'
  BY <1>1, <1>3, <1>5, <1>7 DEF Returning, LostByClose, IInv, opVars
<1> QED
  BY <1>1, <1>6, <1>8 DEF IInv, Owned, LuaKeeps, Unborn, NothingWaitsOnClosed, Queues, opVars

(* A light thread starts an operation: it captures a shared pointer and    *)
(* yields.                                                                 *)
LEMMA CallStep ==
    ASSUME IInv, Types', NEW t \in Users, MayCall(t), Capture(t),
           NEW kind \in Kinds, kind # "connect", NEW size \in Nat,
           StartOp(NewOp(t, kind, size), ready),
           at' = [at EXCEPT ![t] = kind], UNCHANGED <<object, con, holders>>
    PROVE  IInv'
<1> DEFINE new == NewOp(t, kind, size)
<1>1. /\ new \in Ops /\ new.res = "none" /\ new.who = t /\ new.kind = kind
      /\ new.got = 0 /\ new.size = size
  BY DEF NewOp, Ops
<1> HIDE DEF new
<1>2. at[t] = "run" /\ t \in holders
  BY DEF MayCall
<1>3. /\ \A op \in Outstanding : op.kind # "connect"
      /\ \A op \in Outstanding : op.who # t /\ op.who \in Users
  BY <1>2, NoConnectInCall, NoOpInRun
<1>4. Apart(Waiting \cup ToSet(ready), {new})
  BY <1>1, <1>3 DEF Apart, Outstanding
<1>5. StartOp(new, ready) /\ Queues(op_queue, ready)
  BY DEF new, IInv
<1>6. /\ socket' = socket /\ (socket = "closed" => Waiting' = Waiting)
      /\ Queues(op_queue', ready')
      /\ \E o \in Ops : Same(o, new) /\ Outstanding' = Waiting \cup ToSet(ready) \cup {o}
  BY <1>1, <1>4, <1>5, StartFacts
<1>7. PICK o \in Ops : Same(o, new) /\ Outstanding' = Outstanding \cup {o}
  BY <1>6 DEF Outstanding
<1>8. owners' = owners \cup {t} /\ at'[t] = kind /\ \A u \in Users : u # t => at'[u] = at[u]
  BY DEF Capture, IInv, Types
<1>9. OpSound(o)'
  BY <1>1, <1>7, <1>8 DEF OpSound, Same
<1>10. ASSUME NEW op \in Outstanding PROVE OpSound(op)'
  <2>1. op.kind # "connect" /\ op.who # t /\ op.who \in Users
    BY <1>3
  <2>2. OpSound(op)
    BY DEF IInv, OpsSound
  <2> QED
    BY <1>8, <2>1, <2>2 DEF OpSound
<1>11. OpsSound'
  BY <1>7, <1>9, <1>10 DEF OpsSound
<1>12. object # "none" /\ owners # {}
  BY <1>2 DEF IInv, Unborn, LuaKeeps, MayCall
<1>13. Owned' /\ Unborn' /\ LuaKeeps'
  BY <1>8, <1>12 DEF IInv, Owned, Unborn, LuaKeeps
<1>14. NothingWaitsOnClosed'
  BY <1>6 DEF IInv, NothingWaitsOnClosed
<1>15. Returning'
  BY <1>1, <1>6, <1>7, <1>8 DEF IInv, Returning, LostByClose, Same, Kinds
<1> QED
  BY <1>6, <1>11, <1>13, <1>14, <1>15 DEF IInv

(* The socket is closed while its operations stay owned.                   *)
LEMMA CloseStep ==
    ASSUME IInv, Types', NEW t \in Users, MayCall(t), CloseSocket(ready),
           UNCHANGED <<object, owners, holders, at>>
    PROVE  IInv'
<1>1. \A op \in Outstanding : op.kind # "connect"
  BY NoConnectInCall DEF MayCall
<1>2. /\ socket' = "closed" /\ Waiting' = {} /\ Queues(op_queue', ready')
      /\ Carried(Outstanding, Outstanding')
  BY CloseFacts DEF IInv, Outstanding
<1>3. ASSUME NEW x \in Outstanding' PROVE OpSound(x)'
  <2>1. PICK y \in Outstanding : Same(x, y)
    BY <1>2 DEF Carried
  <2>2. OpSound(y) /\ y.kind # "connect"
    BY <1>1 DEF IInv, OpsSound
  <2> QED
    BY <2>1, <2>2 DEF OpSound, Same
<1>4. OpsSound'
  BY <1>3 DEF OpsSound
<1>5. object # "none"
  BY DEF MayCall, IInv, Unborn
<1>6. Owned' /\ LuaKeeps' /\ Unborn' /\ NothingWaitsOnClosed'
  BY <1>2, <1>5 DEF IInv, MayCall, Owned, LuaKeeps, Unborn, NothingWaitsOnClosed
<1>7. ASSUME NEW u \in Users, at'[u] \in Kinds PROVE \E op \in Outstanding' : op.who = u
  <2>1. PICK y \in Outstanding : y.who = u
    BY <1>7 DEF IInv, Returning
  <2> QED
    BY <1>2, <2>1 DEF Carried, Same
<1>8. Returning'
  BY <1>2, <1>7 DEF IInv, Returning, LostByClose
<1> QED
  BY <1>2, <1>4, <1>6, <1>8 DEF IInv

(* Creation: no operation, or that of connect.                             *)
LEMMA AcceptedStep == ASSUME IInv, Types', Accepted PROVE IInv'
<1>1. object = "none" /\ Outstanding = {}
  BY DEF Accepted, IInv, Unborn
<1>2. Outstanding' = Outstanding /\ Waiting' = Waiting
  BY DEF Accepted, Outstanding, Waiting
<1>3. Queues(op_queue', ready')
  BY DEF Accepted, IInv
<1>4. Returning'
  BY DEF Accepted, Returning, LostByClose, Kinds
<1>5. OpsSound' /\ Owned' /\ LuaKeeps' /\ Unborn' /\ NothingWaitsOnClosed'
  BY <1>1, <1>2 DEF Accepted, OpsSound, Owned, LuaKeeps, Unborn, NothingWaitsOnClosed
<1> QED
  BY <1>3, <1>4, <1>5 DEF IInv

(* asio.connect.                                                           *)
LEMMA ConnectStep == ASSUME IInv, Types', NEW t \in Users, Connect(t) PROVE IInv'
<1> DEFINE new == NewOp(t, "connect", 0)
<1>1. /\ new \in Ops /\ new.res = "none" /\ new.who = t /\ new.kind = "connect"
      /\ new.got = 0 /\ new.size = 0
  BY DEF NewOp, Ops, Kinds
<1>2. /\ object = "none" /\ Outstanding = {} /\ \A u \in Users : at[u] = "idle"
  BY DEF Connect, IInv, Unborn
<1>3. /\ op_queue' = [op_queue EXCEPT !["out"] = <<new>>] /\ ready' = ready
      /\ object' = "alive" /\ owners' = {"lua"} /\ con' = "usable" /\ socket' = "open"
      /\ holders' = {t} /\ at' = [at EXCEPT ![t] = "connect"]
  BY DEF Connect
<1> HIDE DEF new
<1>4. /\ op_queue'["in"] = op_queue["in"] /\ op_queue'["out"] = <<new>>
      /\ ToSet(op_queue["in"]) = {} /\ ToSet(ready) = {}
  BY <1>2, <1>3 DEF IInv, Queues, Outstanding, Waiting
<1>5. Distinct(<<new>>) /\ ToSet(<<new>>) = {new}
  BY <1>1, SingleOp
<1>6. /\ Waiting' = {new} /\ Outstanding' = {new}
  BY <1>3, <1>4, <1>5 DEF Waiting, Outstanding
<1>7. Queues(op_queue', ready')
  <2>1. op_queue' \in [{"in", "out"} -> Seq(Ops)]
    BY <1>1, <1>3 DEF IInv, Queues
  <2>2. Direction(new.kind) = "out"
    BY <1>1 DEF Direction
  <2>3. InQueues(op_queue') = {new}
    BY <1>4, <1>5 DEF InQueues
  <2> QED
    BY <1>1, <1>3, <1>4, <1>5, <2>1, <2>2, <2>3 DEF IInv, Queues, Apart
<1>8. at'[t] = "connect" /\ \A u \in Users : u # t => at'[u] = "idle"
  BY <1>2, <1>3 DEF IInv, Types
<1>9. OpsSound'
  BY <1>1, <1>3, <1>6, <1>8 DEF OpsSound, OpSound
<1>10. Returning'
  BY <1>1, <1>6, <1>8 DEF Returning, LostByClose, Kinds
<1>11. Owned' /\ LuaKeeps' /\ Unborn' /\ NothingWaitsOnClosed'
  BY <1>3 DEF Owned, LuaKeeps, Unborn, NothingWaitsOnClosed
<1> QED
  BY <1>7, <1>9, <1>10, <1>11 DEF IInv

(* An operation comes to an outcome: it is the same, with more bytes.      *)
LEMMA FinishStep ==
    ASSUME IInv, Types', NEW d \in {"in", "out"}, op_queue[d] # <<>>,
           NEW o \in Ops, o.who = Head(op_queue[d]).who, o.kind = Head(op_queue[d]).kind,
           o.got <= o.size, o.res # "none", FinishFirst(d, o)
    PROVE  IInv'
<1> DEFINE h == Head(op_queue[d])
<1>1. /\ Queues(op_queue', ready') /\ Waiting' \subseteq Waiting
      /\ \E R : Outstanding = R \cup {h} /\ Outstanding' = R \cup {o} /\ Apart(R, {o})
  BY FinishFacts DEF IInv
<1>2. PICK R : Outstanding = R \cup {h} /\ Outstanding' = R \cup {o}
  BY <1>1
<1>3. UNCHANGED <<object, owners, con, holders, socket, at>>
  BY DEF FinishFirst, ownVars
<1>4. o.who = h.who /\ o.kind = h.kind
  OBVIOUS
<1> HIDE DEF h
<1>5. OpSound(o)'
  <2>1. OpSound(h)
    BY <1>2 DEF IInv, OpsSound
  <2> QED
    BY <1>3, <1>4, <2>1 DEF OpSound
<1>6. OpsSound'
  BY <1>2, <1>3, <1>5 DEF IInv, OpsSound, OpSound
<1>7. Returning'
  BY <1>2, <1>3, <1>4 DEF IInv, Returning, LostByClose
<1>8. object # "none"
  BY <1>2 DEF IInv, Unborn
<1>9. Owned' /\ LuaKeeps' /\ Unborn' /\ NothingWaitsOnClosed'
  BY <1>1, <1>3, <1>8 DEF IInv, Owned, LuaKeeps, Unborn, NothingWaitsOnClosed
<1> QED
  BY <1>1, <1>6, <1>7, <1>9 DEF IInv

(* A composed operation goes on with its next transfer.                    *)
LEMMA RunTransferStep == ASSUME IInv, Types', RunTransfer PROVE IInv'
<1> DEFINE h == Head(ready)
           n == WithResult(h, "none")
           R == Waiting \cup ToSet(Tail(ready))
<1>1. /\ Queues(op_queue, Tail(ready)) /\ h \in Ops
      /\ Outstanding = R \cup {h} /\ Apart(R, {h})
  BY PopFacts DEF IInv, RunTransfer
<1>2. n \in Ops /\ Same(n, h) /\ n.res = "none"
  BY <1>1, WithResultOp DEF Same
<1>3. Apart(R, {n})
  BY <1>1, <1>2 DEF Apart, Same
<1>4. /\ StartOp(n, Tail(ready))
      /\ UNCHANGED <<object, owners, con, holders, at>>
  BY DEF RunTransfer, ownVars
<1> HIDE DEF n, h
<1>5. /\ socket' = socket /\ (socket = "closed" => Waiting' = Waiting)
      /\ Queues(op_queue', ready')
      /\ \E o \in Ops : Same(o, n) /\ Outstanding' = R \cup {o}
  BY <1>1, <1>2, <1>3, <1>4, StartFacts
<1>6. PICK o \in Ops : Same(o, h) /\ Outstanding' = R \cup {o}
  BY <1>2, <1>5 DEF Same
<1> HIDE DEF R
<1>7. OpSound(o)'
  <2>1. OpSound(h)
    BY <1>1 DEF IInv, OpsSound
  <2> QED
    BY <1>4, <1>6, <2>1 DEF OpSound, Same
<1>8. OpsSound'
  BY <1>1, <1>4, <1>6, <1>7 DEF IInv, OpsSound, OpSound
<1>9. Returning'
  BY <1>1, <1>4, <1>5, <1>6 DEF IInv, Returning, LostByClose, Same
<1>10. object # "none"
  BY <1>1 DEF IInv, Unborn
<1>11. Owned' /\ LuaKeeps' /\ Unborn' /\ NothingWaitsOnClosed'
  BY <1>4, <1>5, <1>10 DEF IInv, Owned, LuaKeeps, Unborn, NothingWaitsOnClosed
<1> QED
  BY <1>5, <1>8, <1>9, <1>11 DEF IInv

(* A shared pointer goes, with the operation whose handler held it.        *)
LEMMA ReleaseStep ==
    ASSUME IInv, Types', ready # <<>>, NEW closing \in BOOLEAN,
           Head(ready).kind # "connect",
           Release(Head(ready).who, closing, Tail(ready)),
           UNCHANGED <<con, holders>>,
           \/ at' = [at EXCEPT ![Head(ready).who] = "run"]
           \/ /\ at' = [at EXCEPT ![Head(ready).who] = "lost"]
              /\ closing /\ CloseErrors /\ socket = "open"
    PROVE  IInv'
<1> DEFINE h == Head(ready)
           t == h.who
           R == Waiting \cup ToSet(Tail(ready))
<1>1. /\ Queues(op_queue, Tail(ready)) /\ h \in Ops
      /\ Outstanding = R \cup {h} /\ Apart(R, {h})
  BY PopFacts DEF IInv
<1>2. /\ owners' = owners \ {t}
      /\ object' = IF owners' = {} THEN "freed" ELSE object
      /\ Queues(op_queue', ready')
      /\ Carried(R, Outstanding')
      /\ IF closing \/ owners' = {} THEN socket' = "closed" /\ Waiting' = {}
         ELSE socket' = socket /\ Waiting' = Waiting
  BY <1>1, ReleaseFacts
<1>3. \A u \in Users : u # t => at'[u] = at[u]
  BY DEF IInv, Types
<1>4. t \in Users /\ t # "lua" /\ \A y \in R : y.who \in Users
  BY <1>1, OutstandingOps, ConnectionAssumption DEF Ops, IInv
<1>5. \A y \in R : y.who # t
  BY <1>1 DEF Apart
<1>6. at'[t] = "run" \/ (at'[t] = "lost" /\ closing /\ CloseErrors /\ socket = "open")
  BY <1>4 DEF IInv, Types
<1> HIDE DEF h, t, R
<1>7. ASSUME NEW x \in Outstanding' PROVE OpSound(x)'
  <2>1. PICK y \in R : Same(x, y)
    BY <1>2, <1>7 DEF Carried
  <2>2. OpSound(y)
    BY <1>1 DEF IInv, OpsSound
  <2>3. at'[y.who] = at[y.who] /\ (y.who \in owners => y.who \in owners')
    BY <1>2, <1>3, <1>4, <1>5
  <2> QED
    BY <2>1, <2>2, <2>3 DEF OpSound, Same
<1>8. OpsSound'
  BY <1>7 DEF OpsSound
<1>9. ASSUME NEW u \in Users, at'[u] \in Kinds PROVE \E op \in Outstanding' : op.who = u
  <2>1. u # t
    BY <1>6, <1>9 DEF Kinds
  <2>2. at[u] \in Kinds
    BY <1>3, <1>9, <2>1
  <2>3. PICK y \in Outstanding : y.who = u
    BY <2>2 DEF IInv, Returning
  <2>4. y \in R
    BY <1>1, <2>1, <2>3 DEF t
  <2> QED
    BY <1>2, <2>3, <2>4 DEF Carried, Same
<1>14. LostByClose'
  <2>1. socket = "closed" => socket' = "closed"
    BY <1>2
  <2>2. CASE at'[t] = "run"
    BY <1>3, <2>1, <2>2 DEF IInv, Returning, LostByClose
  <2>3. CASE at'[t] = "lost" /\ closing /\ CloseErrors /\ socket = "open"
    <3>1. \A u \in Users : at[u] # "lost"
      BY <2>3 DEF IInv, Returning, LostByClose
    <3> QED
      BY <1>2, <1>3, <2>3, <3>1 DEF LostByClose
  <2> QED
    BY <1>6, <2>2, <2>3
<1>15. Returning'
  BY <1>9, <1>14 DEF Returning
<1>10. object # "none"
  BY <1>1 DEF IInv, Unborn
<1>11. Owned' /\ Unborn'
  BY <1>2, <1>10 DEF IInv, Owned, Unborn
<1>12. LuaKeeps'
  BY <1>2, <1>4 DEF IInv, LuaKeeps
<1>13. NothingWaitsOnClosed'
  BY <1>2 DEF IInv, NothingWaitsOnClosed
<1> QED
  BY <1>2, <1>8, <1>11, <1>12, <1>13, <1>15 DEF IInv

(* Lua collects con: its shared pointer goes.                              *)
LEMMA CollectStep == ASSUME IInv, Types', Collect PROVE IInv'
<1>1. /\ owners' = owners \ {"lua"}
      /\ object' = IF owners' = {} THEN "freed" ELSE object
      /\ Queues(op_queue', ready')
      /\ Carried(Outstanding, Outstanding')
      /\ IF owners' = {} THEN socket' = "closed" /\ Waiting' = {}
         ELSE socket' = socket /\ Waiting' = Waiting
  BY ReleaseFacts DEF Collect, IInv, Outstanding
<1>2. /\ UNCHANGED <<con, holders, at>> /\ (con = "closed" \/ holders = {})
      /\ "lua" \in owners
  BY DEF Collect
<1>3. Outstanding \subseteq Ops
  BY OutstandingOps DEF IInv
<1>4. ASSUME NEW x \in Outstanding' PROVE OpSound(x)'
  <2>1. PICK y \in Outstanding : Same(x, y)
    BY <1>1 DEF Carried
  <2>2. OpSound(y) /\ y.who \in Users /\ y.who # "lua"
    BY <1>3, ConnectionAssumption DEF IInv, OpsSound, Ops
  <2> QED
    BY <1>1, <1>2, <2>1, <2>2 DEF OpSound, Same
<1>5. OpsSound'
  BY <1>4 DEF OpsSound
<1>6. Returning'
  <2>1. ASSUME NEW u \in Users, at'[u] \in Kinds PROVE \E op \in Outstanding' : op.who = u
    <3>1. PICK y \in Outstanding : y.who = u
      BY <1>2, <2>1 DEF IInv, Returning
    <3> QED
      BY <1>1, <3>1 DEF Carried, Same
  <2>2. LostByClose'
    BY <1>1, <1>2 DEF IInv, Returning, LostByClose
  <2> QED
    BY <2>1, <2>2 DEF Returning
<1>7. Owned' /\ Unborn'
  BY <1>1, <1>2 DEF IInv, Owned, Unborn
<1>8. LuaKeeps' /\ NothingWaitsOnClosed'
  BY <1>1, <1>2 DEF IInv, LuaKeeps, NothingWaitsOnClosed
<1> QED
  BY <1>1, <1>5, <1>6, <1>7, <1>8 DEF IInv

(* The handler of connect.                                                 *)
LEMMA RunConnectStep == ASSUME IInv, Types', RunConnect PROVE IInv'
<1> DEFINE h == Head(ready)
           t == h.who
           R == Waiting \cup ToSet(Tail(ready))
<1>1. /\ Queues(op_queue, Tail(ready)) /\ h \in Ops /\ t \in Users
      /\ Outstanding = R \cup {h} /\ Apart(R, {h})
  BY PopFacts DEF IInv, RunConnect, Ops
<1>2. /\ UNCHANGED <<object, owners, con, socket, op_queue>> /\ ready' = Tail(ready)
      /\ at' = [at EXCEPT ![t] = "run"] /\ h.kind = "connect"
      /\ holders' \subseteq holders
  BY DEF RunConnect
<1>3. Outstanding' = R /\ Waiting' = Waiting /\ Queues(op_queue', ready')
  BY <1>1, <1>2 DEF Outstanding, Waiting
<1>4. at'[t] = "run" /\ \A u \in Users : u # t => at'[u] = at[u]
  BY <1>1, <1>2 DEF IInv, Types
<1>5. holders = {t}
  BY <1>1, <1>2 DEF IInv, OpsSound, OpSound
<1> HIDE DEF h, t, R
<1>6. ASSUME NEW y \in R PROVE OpSound(y)'
  <2>1. y.who # t /\ y.who \in Users
    BY <1>1, OutstandingOps DEF Apart, IInv, Ops, t
  <2>2. OpSound(y)
    BY <1>1 DEF IInv, OpsSound
  <2>3. y.kind # "connect"
    BY <1>5, <2>1, <2>2 DEF OpSound
  <2> QED
    BY <1>2, <1>4, <2>1, <2>2, <2>3 DEF OpSound
<1>7. OpsSound'
  BY <1>3, <1>6 DEF OpsSound
<1>8. Returning'
  <2>1. ASSUME NEW u \in Users, at'[u] \in Kinds PROVE \E op \in R : op.who = u
    <3>1. u # t
      BY <1>4, <2>1 DEF Kinds
    <3> QED
      BY <1>1, <1>4, <2>1, <3>1 DEF IInv, Returning, t
  <2>2. LostByClose'
    BY <1>2, <1>4 DEF IInv, Returning, LostByClose
  <2> QED
    BY <1>3, <2>1, <2>2 DEF Returning
<1>9. object # "none"
  BY <1>1 DEF IInv, Unborn
<1>10. Owned' /\ Unborn' /\ LuaKeeps' /\ NothingWaitsOnClosed'
  BY <1>2, <1>3, <1>5, <1>9 DEF IInv, Owned, Unborn, LuaKeeps, NothingWaitsOnClosed
<1> QED
  BY <1>3, <1>7, <1>8, <1>10 DEF IInv

----------------------------------------------------------------------------
(* The steps, one by one.                                                  *)

(* Steps after which only ownership, places and the socket may differ.     *)
LEMMA DataUnchanged ==
    ASSUME Types, UNCHANGED <<buffVars, peerVars, inVars, outVars>>,
           object' \in {"none", "alive", "freed"}, owners' \subseteq Users \cup {"lua"},
           con' \in {"usable", "closed"}, holders' \subseteq Users,
           socket' \in {"open", "closed"},
           at' \in [Users -> Kinds \cup {"idle", "run", "done", "lost"}]
    PROVE  Types'
BY DEF Types, buffVars, peerVars, inVars, outVars

(* What closing, starting and releasing do to the socket and the object.   *)
LEMMA SocketTypes ==
    /\ \A rest : CloseSocket(rest) => socket' = "closed"
    /\ \A op, rest : StartOp(op, rest) => socket' = socket
    /\ \A owner, closing, rest : Release(owner, closing, rest) =>
          /\ socket' \in {socket, "closed"} /\ owners' \subseteq owners
          /\ object' \in {object, "freed"}
BY DEF CloseSocket, StartOp, Release

(* The connection is accepted, or connect starts.                          *)
LEMMA CreateSteps ==
    ASSUME IInv, Accepted \/ \E t \in Users : Connect(t)
    PROVE  IInv'
<1>1. CASE Accepted
  <2>1. at' \in [Users -> Kinds \cup {"idle", "run", "done", "lost"}]
    BY <1>1 DEF Accepted
  <2>2. Types'
    BY <1>1, <2>1, DataUnchanged DEF Accepted, IInv
  <2> QED
    BY <1>1, <2>2, AcceptedStep
<1>2. ASSUME NEW t \in Users, Connect(t) PROVE IInv'
  <2>1. at' \in [Users -> Kinds \cup {"idle", "run", "done", "lost"}]
    BY <1>2 DEF Connect, IInv, Types, Kinds
  <2>2. Types'
    BY <1>2, <2>1, DataUnchanged DEF Connect, IInv
  <2> QED
    BY <1>2, <2>2, ConnectStep
<1> QED
  BY <1>1, <1>2

(* A light thread passes con to another one.                               *)
LEMMA ShareStep ==
    ASSUME IInv, NEW t \in Users, NEW u \in Users, Share(t, u) PROVE IInv'
<1>1. /\ at[t] = "run" /\ t \in holders /\ at[u] = "idle"
      /\ holders' = holders \cup {u} /\ at' = [at EXCEPT ![u] = "run"]
      /\ UNCHANGED <<object, owners, con, buffVars, opVars, peerVars, inVars, outVars>>
  BY DEF Share
<1>2. \A op \in Outstanding : op.kind # "connect"
  BY <1>1, NoConnectInCall
<1>3. at' \in [Users -> Kinds \cup {"idle", "run", "done", "lost"}]
  BY <1>1 DEF IInv, Types
<1>4. Types'
  <2>1. holders' \subseteq Users
    BY <1>1 DEF IInv, Types
  <2> QED
    BY <1>1, <1>3, <2>1, DataUnchanged DEF IInv, Types, opVars
<1>5. object # "none"
  BY <1>1 DEF IInv, Unborn
<1> QED
  BY <1>1, <1>2, <1>4, <1>5, MoveStep

(* A light thread ends, or fails with an error.                            *)
LEMMA EndSteps ==
    ASSUME IInv, NEW t \in Users, Return(t) \/ Fail(t) PROVE IInv'
<1>1. /\ at[t] = "run" /\ at' = [at EXCEPT ![t] = "done"]
      /\ holders' = holders \ {t} \/ holders' = holders
      /\ UNCHANGED <<object, owners, con, buffVars, opVars, peerVars, inVars, outVars>>
  BY DEF Return, Fail, ownVars
<1>2. ASSUME NEW op \in Outstanding, op.kind = "connect" PROVE holders' = holders
  <2>1. op.who # t
    BY <1>1, NoOpInRun
  <2>2. OpSound(op)
    BY DEF IInv, OpsSound
  <2>3. holders = {op.who}
    BY <1>2, <2>2 DEF OpSound
  <2> QED
    BY <1>1, <2>1, <2>3
<1>3. at' \in [Users -> Kinds \cup {"idle", "run", "done", "lost"}]
  BY <1>1 DEF IInv, Types
<1>4. Types'
  <2>1. holders' \subseteq Users
    BY <1>1 DEF IInv, Types
  <2> QED
    BY <1>1, <1>3, <2>1, DataUnchanged DEF IInv, Types, opVars
<1>5. object # "none"
  BY <1>1 DEF IInv, Unborn
<1> QED
  BY <1>1, <1>2, <1>4, <1>5, MoveStep

(* conn:read and conn:read_some.                                           *)
LEMMA ReadSteps ==
    ASSUME IInv, NEW t \in Users, ReadSome(t) \/ \E n \in Sizes : Read(t, n)
    PROVE  IInv'
<1>1. ASSUME NEW n \in Nat, NEW always \in BOOLEAN, NEW kind \in {"read", "read_some"},
             MayCall(t), Capture(t), PrepareBuffer(n, always),
             StartOp(NewOp(t, kind, n), ready), at' = [at EXCEPT ![t] = kind],
             UNCHANGED <<object, con, holders, peerVars, inVars, outVars>>
      PROVE  IInv'
  <2>1. /\ read_buff' \in Seq(Nat) /\ capacity' \in Nat /\ stale' \subseteq Users
    BY <1>1, BufferFacts, OutstandingOps DEF IInv
  <2>2. socket' = socket /\ owners' = owners \cup {t}
    BY <1>1, SocketTypes DEF Capture
  <2>3. kind \in Kinds /\ kind # "connect"
    BY DEF Kinds
  <2>4. at' \in [Users -> Kinds \cup {"idle", "run", "done", "lost"}]
    BY <1>1, <2>3 DEF IInv, Types
  <2>5. Types'
    BY <1>1, <2>1, <2>2, <2>4 DEF IInv, Types, peerVars, inVars, outVars
  <2> QED
    BY <1>1, <2>3, <2>5, CallStep
<1>2. CASE ReadSome(t)
  <2>1. MAX_BUFF_SIZE \in Nat
    BY ConnectionAssumption
  <2> QED
    BY <1>1, <1>2, <2>1 DEF ReadSome
<1>3. ASSUME NEW n \in Sizes, Read(t, n) PROVE IInv'
  <2>1. n \in Nat
    BY ConnectionAssumption
  <2> QED
    BY <1>1, <1>3, <2>1 DEF Read
<1> QED
  BY <1>2, <1>3

(* conn:write.                                                             *)
LEMMA WriteStep ==
    ASSUME IInv, NEW t \in Users, NEW n \in Lengths, Write(t, n)
    PROVE  IInv'
<1>1. n \in Nat
  BY ConnectionAssumption
<1>2. /\ MayCall(t) /\ Capture(t) /\ StartOp(NewOp(t, "write", n), ready)
      /\ wrote' = [wrote EXCEPT ![t] = Append(@, n)]
      /\ at' = [at EXCEPT ![t] = "write"]
      /\ UNCHANGED <<object, con, holders, buffVars, peerVars, inVars, out, acked>>
  BY DEF Write
<1>3. socket' = socket /\ owners' = owners \cup {t}
  BY <1>2, SocketTypes DEF Capture
<1>4. "write" \in Kinds
  BY DEF Kinds
<1>5. at' \in [Users -> Kinds \cup {"idle", "run", "done", "lost"}]
  BY <1>2, <1>4 DEF IInv, Types
<1>6. wrote' \in [Users -> Seq(Nat)]
  <2>1. Append(wrote[t], n) \in Seq(Nat)
    BY <1>1, AppendProperties DEF IInv, Types
  <2> QED
    BY <1>2, <2>1 DEF IInv, Types
<1>7. Types'
  BY <1>2, <1>3, <1>5, <1>6 DEF IInv, Types, buffVars, peerVars, inVars
<1> QED
  BY <1>1, <1>2, <1>4, <1>7, CallStep

(* conn:close, and the close that throws.                                  *)
LEMMA CloseSteps ==
    ASSUME IInv, NEW t \in Users, Close(t) \/ CloseThrows(t) PROVE IInv'
<1>1. /\ MayCall(t) /\ CloseSocket(ready) /\ con' \in {con, "closed"}
      /\ UNCHANGED <<object, owners, holders, buffVars, at, peerVars, inVars, outVars>>
  BY DEF Close, CloseThrows, ownVars
<1>2. socket' = "closed"
  BY <1>1, SocketTypes
<1>3. Types'
  BY <1>1, <1>2, DataUnchanged DEF IInv, Types
<1> QED
  BY <1>1, <1>3, CloseStep

(* The peer sends or ends its side.                                        *)
LEMMA PeerSteps == ASSUME IInv, PeerSends \/ PeerCloses PROVE IInv'
<1>1. UNCHANGED <<ownVars, buffVars, opVars, at, inVars, outVars>>
  BY DEF PeerSends, PeerCloses
<1>2. Waiting' = Waiting /\ Outstanding' = Outstanding
  BY <1>1 DEF Waiting, Outstanding, opVars
<1>3. /\ sent' \in Nat /\ received \in 0..sent' /\ peer' \in {"open", "finished", "reset"}
  BY DEF PeerSends, PeerCloses, IInv, Types
<1>4. Types'
  BY <1>1, <1>3 DEF IInv, Types, ownVars, buffVars, opVars, inVars, outVars
<1>5. Queues(op_queue', ready')
  BY <1>1 DEF IInv, opVars
<1> QED
  BY <1>1, <1>2, <1>4, <1>5 DEF IInv, OpsSound, OpSound, Owned, LuaKeeps, Unborn,
     NothingWaitsOnClosed, Returning, LostByClose, ownVars, opVars

(* The first operation of a queue.                                         *)
LEMMA FirstFacts ==
    ASSUME IInv, NEW d \in {"in", "out"}, op_queue[d] # <<>>
    PROVE  /\ Head(op_queue[d]) \in Ops /\ Head(op_queue[d]) \in Outstanding
           /\ Head(op_queue[d]).got <= Head(op_queue[d]).size
           /\ Head(op_queue[d]).res = "none"
           /\ Direction(Head(op_queue[d]).kind) = d
<1>1. /\ Head(op_queue[d]) \in Ops
      /\ ToSet(op_queue[d]) = ToSet(Tail(op_queue[d])) \cup {Head(op_queue[d])}
  BY HeadOp DEF IInv, Queues
<1>2. Head(op_queue[d]) \in ToSet(op_queue[d])
  BY <1>1
<1>3. Head(op_queue[d]) \in Outstanding
  BY <1>2 DEF Outstanding, Waiting
<1> QED
  BY <1>1, <1>2, <1>3 DEF IInv, OpsSound, OpSound, Queues

(* A transfer of k bytes of an operation.                                  *)
LEMMA TransferOp ==
    ASSUME NEW op \in Ops, op.got <= op.size, NEW k \in 1..Room(op)
    PROVE  LET o == [op EXCEPT !.got = @ + k, !.res = "ok"]
           IN  /\ o \in Ops /\ o.who = op.who /\ o.kind = op.kind /\ o.size = op.size
               /\ o.got = op.got + k /\ o.got <= o.size /\ o.res = "ok"
<1>1. op.got \in Nat /\ op.size \in Nat /\ op.got + k \in Nat /\ op.got + k <= op.size
  BY DEF Ops, Room
<1> QED
  BY <1>1 DEF Ops

(* The kernel receives for the first read.                                 *)
LEMMA PerformReadStep == ASSUME IInv, PerformRead PROVE IInv'
<1> DEFINE op == Head(op_queue["in"])
<1>1. PICK k \in 1..Min({sent - received, Room(op)}) :
         /\ read_buff' = Overwrite(read_buff, op.got, [i \in 1..k |-> received + i])
         /\ received' = received + k
         /\ FinishFirst("in", [op EXCEPT !.got = @ + k, !.res = "ok"])
  BY DEF PerformRead
<1>2. /\ op_queue["in"] # <<>> /\ UNCHANGED out
  BY DEF PerformRead
<1>3. op \in Ops /\ op.got <= op.size
  BY <1>2, FirstFacts
<1> HIDE DEF op
<1>4. /\ sent - received \in Nat /\ Room(op) \in Nat
      /\ sent \in Nat /\ received \in Nat
  BY <1>3 DEF IInv, Types, Room, Ops
<1>5. k \in 1..Room(op) /\ k \in Nat /\ received + k <= sent
  <2>1. /\ Min({sent - received, Room(op)}) \in Nat
        /\ Min({sent - received, Room(op)}) <= sent - received
        /\ Min({sent - received, Room(op)}) <= Room(op)
    BY <1>4, MinPair
  <2> QED
    BY <1>1, <1>4, <2>1
<1>6. received' \in 0..sent
  BY <1>1, <1>4, <1>5
<1>7. read_buff' \in Seq(Nat)
  <2>1. read_buff \in Seq(Nat) /\ Len(read_buff) \in Nat
        /\ \A i \in 1..Len(read_buff) : read_buff[i] \in Nat
    BY LenProperties, ElementOfSeq DEF IInv, Types
  <2> DEFINE bytes == [i \in 1..k |-> received + i]
  <2>2. Len(bytes) = k /\ \A i \in 1..k : bytes[i] \in Nat
    BY <1>4, <1>5
  <2>3. read_buff' = [i \in 1..Len(read_buff) |->
                        IF i - op.got \in 1..Len(bytes) THEN bytes[i - op.got] ELSE read_buff[i]]
    BY <1>1 DEF Overwrite
  <2> HIDE DEF bytes
  <2> QED
    BY <2>1, <2>2, <2>3
<1>8. Types'
  BY <1>1, <1>2, <1>6, <1>7 DEF IInv, Types, FinishFirst, ownVars, peerVars
<1> DEFINE o == [op EXCEPT !.got = @ + k, !.res = "ok"]
<1>9. /\ o \in Ops /\ o.who = op.who /\ o.kind = op.kind /\ o.got <= o.size
      /\ o.res = "ok"
  BY <1>3, <1>5, TransferOp
<1>10. FinishFirst("in", o)
  BY <1>1
<1> HIDE DEF o
<1> QED
  BY <1>2, <1>8, <1>9, <1>10, FinishStep DEF op

(* The kernel sends for the first write.                                   *)
LEMMA PerformWriteStep == ASSUME IInv, PerformWrite PROVE IInv'
<1> DEFINE op == Head(op_queue["out"])
<1>1. PICK k \in 1..Room(op) :
         /\ out' = out \o [i \in 1..k |-> <<op.who, Len(wrote[op.who]), op.got + i>>]
         /\ FinishFirst("out", [op EXCEPT !.got = @ + k, !.res = "ok"])
  BY DEF PerformWrite
<1>2. op_queue["out"] # <<>> /\ UNCHANGED <<read_buff, received>>
  BY DEF PerformWrite
<1>3. op \in Ops /\ op.got <= op.size
  BY <1>2, FirstFacts
<1> HIDE DEF op
<1>4. out' \in Seq(Users \X Nat \X Nat)
  <2>1. op.who \in Users /\ op.got \in Nat /\ k \in Nat
    BY <1>1, <1>3 DEF Ops, Room
  <2>2. Len(wrote[op.who]) \in Nat
    BY <2>1, LenProperties DEF IInv, Types
  <2>3. [i \in 1..k |-> <<op.who, Len(wrote[op.who]), op.got + i>>] \in Seq(Users \X Nat \X Nat)
    BY <2>1, <2>2
  <2> QED
    BY <1>1, <2>3, ConcatProperties DEF IInv, Types
<1>5. Types'
  BY <1>1, <1>2, <1>4 DEF IInv, Types, FinishFirst, ownVars, peerVars
<1> DEFINE o == [op EXCEPT !.got = @ + k, !.res = "ok"]
<1>6. /\ o \in Ops /\ o.who = op.who /\ o.kind = op.kind /\ o.got <= o.size
      /\ o.res = "ok"
  BY <1>1, <1>3, TransferOp
<1>7. FinishFirst("out", o)
  BY <1>1
<1> HIDE DEF o
<1> QED
  BY <1>2, <1>5, <1>6, <1>7, FinishStep DEF op

(* The kernel finishes a connect, or fails the first operation.            *)
LEMMA PerformResultSteps ==
    ASSUME IInv, PerformConnect \/ \E d \in {"in", "out"} : PerformFail(d)
    PROVE  IInv'
<1>1. \E d \in {"in", "out"}, res \in {"ok", "fail"} :
         /\ op_queue[d] # <<>>
         /\ FinishFirst(d, WithResult(Head(op_queue[d]), res))
         /\ UNCHANGED <<read_buff, received, out>>
  BY DEF PerformConnect, PerformFail
<1>2. PICK d \in {"in", "out"}, res \in {"ok", "fail"} :
         /\ op_queue[d] # <<>>
         /\ FinishFirst(d, WithResult(Head(op_queue[d]), res))
         /\ UNCHANGED <<read_buff, received, out>>
  BY <1>1
<1>3. Types'
  BY <1>2 DEF IInv, Types, FinishFirst, ownVars, peerVars
<1> DEFINE op == Head(op_queue[d])
           o == WithResult(op, res)
<1>4. op \in Ops /\ op.got <= op.size
  BY <1>2, FirstFacts
<1>5. /\ o \in Ops /\ o.who = op.who /\ o.kind = op.kind /\ o.got <= o.size /\ o.res # "none"
  BY <1>4, WithResultOp
<1> HIDE DEF o
<1> QED
  BY <1>2, <1>3, <1>5, FinishStep DEF o

(* What a handler hands over is a string.                                  *)
LEMMA ReceivedBytes == ASSUME IInv, NEW op \in Ops PROVE Received(op) \in Seq(Nat)
<1>1. read_buff \in Seq(Nat) /\ Len(read_buff) \in Nat /\ op.got \in Nat
      /\ \A k \in 1..op.got : k <= Len(read_buff) => read_buff[k] \in Nat
  BY LenProperties, ElementOfSeq DEF IInv, Types, Ops
<1>2. Resize(read_buff, op.got) \in Seq(Nat)
  BY <1>1 DEF Resize
<1> QED
  BY <1>1, <1>2 DEF Received

(* The handler of a read or write.                                         *)
LEMMA RunHandlerStep == ASSUME IInv, RunHandler PROVE IInv'
<1> DEFINE op == Head(ready)
           t == op.who
<1>1. /\ ready # <<>> /\ op.kind # "connect"
      /\ Release(t, op.res # "ok", Tail(ready))
      /\ at' = [at EXCEPT ![t] = "run"]
      /\ read_buff' = IF op.kind = "read_some" THEN Received(op) ELSE read_buff
      /\ returned' = returned \/ returned' = [returned EXCEPT ![t] = @ \o Received(op)]
      /\ acked' = [acked EXCEPT ![t] = @ + 1] \/ acked' = acked
      /\ UNCHANGED <<con, holders, capacity, stale, peerVars, received, out, wrote>>
  BY DEF RunHandler
<1>2. op \in Ops
  BY <1>1, PopFacts DEF IInv
<1>3. Received(op) \in Seq(Nat)
  BY <1>2, ReceivedBytes
<1>4. t \in Users
  BY <1>2 DEF Ops
<1> HIDE DEF op, t
<1>5. returned' \in [Users -> Seq(Nat)]
  <2>1. returned[t] \o Received(op) \in Seq(Nat)
    BY <1>3, <1>4, ConcatProperties DEF IInv, Types
  <2>2. CASE returned' = returned
    BY <2>2 DEF IInv, Types
  <2>3. CASE returned' = [returned EXCEPT ![t] = @ \o Received(op)]
    BY <1>4, <2>1, <2>3 DEF IInv, Types
  <2> QED
    BY <1>1, <2>2, <2>3
<1>6. acked' \in [Users -> Nat]
  <2>1. CASE acked' = acked
    BY <2>1 DEF IInv, Types
  <2>2. CASE acked' = [acked EXCEPT ![t] = @ + 1]
    <3>1. acked[t] + 1 \in Nat
      BY <1>4 DEF IInv, Types
    <3> QED
      BY <1>4, <2>2, <3>1 DEF IInv, Types
  <2> QED
    BY <1>1, <2>1, <2>2
<1>7. at' \in [Users -> Kinds \cup {"idle", "run", "done", "lost"}]
  BY <1>1 DEF IInv, Types
<1>8. read_buff' \in Seq(Nat)
  BY <1>1, <1>3 DEF IInv, Types
<1>9. socket' \in {socket, "closed"} /\ owners' \subseteq owners /\ object' \in {object, "freed"}
  BY <1>1, SocketTypes
<1>10. Types'
  BY <1>1, <1>5, <1>6, <1>7, <1>8, <1>9 DEF IInv, Types, peerVars
<1> DEFINE closing == op.res # "ok"
<1>11. closing \in BOOLEAN /\ Release(t, closing, Tail(ready))
  BY <1>1
<1> HIDE DEF closing
<1> QED
  BY <1>1, <1>10, <1>11, ReleaseStep DEF op, t

(* A handler's close throws.                                               *)
LEMMA HandlerThrowsStep == ASSUME IInv, HandlerThrows PROVE IInv'
<1>1. /\ CloseErrors /\ socket = "open" /\ ready # <<>> /\ Head(ready).kind # "connect"
      /\ Release(Head(ready).who, TRUE, Tail(ready))
      /\ at' = [at EXCEPT ![Head(ready).who] = "lost"]
      /\ UNCHANGED <<con, holders, buffVars, peerVars, inVars, outVars>>
  BY DEF HandlerThrows
<1>2. socket' \in {socket, "closed"} /\ owners' \subseteq owners /\ object' \in {object, "freed"}
  BY <1>1, SocketTypes
<1>3. at' \in [Users -> Kinds \cup {"idle", "run", "done", "lost"}]
  BY <1>1 DEF IInv, Types
<1>4. Types'
  BY <1>1, <1>2, <1>3, DataUnchanged DEF IInv, Types
<1> QED
  BY <1>1, <1>4, ReleaseStep

(* Every step keeps the invariant.                                         *)
LEMMA NextIInv == IInv /\ [Next]_vars => IInv'
<1> SUFFICES ASSUME IInv, [Next]_vars PROVE IInv'
  OBVIOUS
<1>1. ASSUME UserStep PROVE IInv'
  BY <1>1, CreateSteps, ShareStep, EndSteps, ReadSteps, WriteStep, CloseSteps DEF UserStep
<1>2. CASE PeerSends \/ PeerCloses
  BY <1>2, PeerSteps
<1>3. CASE KernelStep
  BY <1>3, PerformReadStep, PerformWriteStep, PerformResultSteps DEF KernelStep
<1>4. CASE LoopStep
  <2>1. CASE RunTransfer
    <3>1. socket' = socket
      BY <2>1, SocketTypes DEF RunTransfer
    <3>2. Types'
      BY <2>1, <3>1, DataUnchanged DEF RunTransfer, ownVars, IInv, Types
    <3> QED
      BY <2>1, <3>2, RunTransferStep
  <2>2. CASE RunConnect
    <3>1. at' \in [Users -> Kinds \cup {"idle", "run", "done", "lost"}] /\ holders' \subseteq holders
      BY <2>2 DEF RunConnect, IInv, Types
    <3>2. Types'
      BY <2>2, <3>1, DataUnchanged DEF RunConnect, IInv, Types
    <3> QED
      BY <2>2, <3>2, RunConnectStep
  <2> QED
    BY <1>4, <2>1, <2>2, RunHandlerStep, HandlerThrowsStep DEF LoopStep
<1>5. CASE Collect
  <2>1. socket' \in {socket, "closed"} /\ owners' \subseteq owners /\ object' \in {object, "freed"}
    BY <1>5, SocketTypes DEF Collect
  <2>2. Types'
    BY <1>5, <2>1, DataUnchanged DEF Collect, IInv, Types
  <2> QED
    BY <1>5, <2>2, CollectStep
<1>6. CASE UNCHANGED vars
  <2>1. UNCHANGED <<object, owners, con, holders, socket, op_queue, ready, at>>
        /\ UNCHANGED <<buffVars, peerVars, inVars, outVars>>
    BY <1>6 DEF vars, ownVars, opVars
  <2>2. Waiting' = Waiting /\ Outstanding' = Outstanding
    BY <2>1 DEF Waiting, Outstanding
  <2>3. Types'
    BY <2>1, DataUnchanged DEF IInv, Types
  <2> QED
    BY <2>1, <2>2, <2>3 DEF IInv, OpsSound, OpSound, Owned, LuaKeeps, Unborn,
       NothingWaitsOnClosed, Returning, LostByClose
<1> QED
  BY <1>1, <1>2, <1>3, <1>4, <1>5, <1>6 DEF Next

----------------------------------------------------------------------------
(* The inductive invariant: types and queues; what every outstanding       *)
(* operation relies on; who keeps the object; that nothing waits on a      *)
(* closed socket; and that every call has its operation (luaAsio.hpp:      *)
(* LuaAsioConnection).                                                     *)
THEOREM ConnectionInvariant == Spec => []IInv
BY InitIInv, NextIInv, PTL DEF Spec

(* Types, and no operation transfers more than it was started for.         *)
THEOREM ConnectionTypes == Spec => []TypeOK
<1>1. IInv => TypeOK
  <2> SUFFICES ASSUME IInv PROVE TypeOK
    OBVIOUS
  <2>1. \A op \in Outstanding : op.got <= op.size
    BY DEF IInv, OpsSound, OpSound
  <2>2. op_queue \in [{"in", "out"} -> Seq(Ops)] /\ ready \in Seq(Ops)
    BY DEF IInv, Queues, Distinct
  <2> QED
    BY <2>1, <2>2 DEF IInv, Types, TypeOK
<1> QED
  BY <1>1, ConnectionInvariant, PTL

(* A handler that runs, or an operation the kernel performs, finds the     *)
(* connection alive: the shared pointer that read, read_some and write     *)
(* capture, or con itself for connect, keeps it.                           *)
THEOREM ObjectOutlivesOps == Spec => []OpKeepsObject
<1>1. IInv => OpKeepsObject
  <2> SUFFICES ASSUME IInv, NEW op \in Outstanding PROVE object = "alive"
    BY DEF OpKeepsObject
  <2>1. OpSound(op)
    BY DEF IInv, OpsSound
  <2>2. owners # {}
    BY <2>1 DEF OpSound, IInv, LuaKeeps
  <2> QED
    BY <2>2 DEF IInv, Owned
<1> QED
  BY <1>1, ConnectionInvariant, PTL

(* Nothing waits on a closed socket: close, the destructor and the error   *)
(* branch of a handler abort what waits.                                   *)
THEOREM ClosingEndsAll == Spec => []NothingWaitsOnClosed
<1>1. IInv => NothingWaitsOnClosed
  BY DEF IInv
<1> QED
  BY <1>1, ConnectionInvariant, PTL

(* An operation has its light thread waiting in the call that started it:  *)
(* aborts, errors and repeated transfers return no call twice.             *)
THEOREM OpsHaveCallers == Spec => []OpHasCaller
<1>1. IInv => OpHasCaller
  BY DEF IInv, OpsSound, OpSound, OpHasCaller
<1> QED
  BY <1>1, ConnectionInvariant, PTL

(* A light thread in a call has an operation that will return it, however  *)
(* reads, writes, closes and collections interleave; a handler whose close *)
(* of the socket throws loses its own wake-up and no other, once in the    *)
(* life of a connection (luaAsio.cpp:133, 150, 167).                       *)
THEOREM NoCallIsLost == Spec => []CallsReturn
<1>1. IInv => CallsReturn
  BY DEF IInv, Returning, LostByClose, CallsReturn
<1> QED
  BY <1>1, ConnectionInvariant, PTL
=============================================================================
