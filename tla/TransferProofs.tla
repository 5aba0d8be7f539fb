--------------------------- MODULE TransferProofs ---------------------------
(***************************************************************************)
(* The bytes that pass through a connection, for every set of light        *)
(* threads and all sizes: what writes put on the wire and, with one        *)
(* reader, what reads return.                                              *)
(***************************************************************************)
EXTENDS ConnectionProofs

Reads == {"read", "read_some"}

(* A step that keeps the operations of kinds K: an operation may fail, or  *)
(* go on to its next transfer.                                             *)
Kept(K) ==
    /\ \A x \in Outstanding' : x.kind \in K =>
          \E y \in Outstanding :
             /\ Same(x, y)
             /\ x = y \/ x.res = "fail" \/ (y.res = "ok" /\ y.got < y.size)
    /\ \A y \in Outstanding : y.kind \in K => \E x \in Outstanding' : Same(x, y)
    /\ socket' \in {socket, "closed"} \/ object = "none"
    /\ object' = "none" => object = "none"

----------------------------------------------------------------------------
(* Operations that are carried over are kept.                              *)
LEMMA CarriedKept ==
    ASSUME NEW K, Carried(Outstanding, Outstanding'),
           socket' \in {socket, "closed"} \/ object = "none", object' = "none" => object = "none"
    PROVE  Kept(K)
BY DEF Carried, Kept

(* A step that does not touch the queues.                                  *)
LEMMA SameQueues ==
    ASSUME UNCHANGED <<op_queue, ready>>
    PROVE  Outstanding' = Outstanding /\ Waiting' = Waiting /\ Carried(Outstanding, Outstanding')
<1>1. Outstanding' = Outstanding /\ Waiting' = Waiting
  BY DEF Outstanding, Waiting
<1> QED
  BY <1>1 DEF Carried, Same

(* What a handler is run for leaves the queue, the rest stays.             *)
LEMMA KeptByHandler ==
    ASSUME IInv, NEW K, RunHandler \/ HandlerThrows, Head(ready).kind \notin K
    PROVE  Kept(K)
<1> DEFINE h == Head(ready)
           R == Waiting \cup ToSet(Tail(ready))
<1>1. PICK closing \in BOOLEAN : ready # <<>> /\ Release(h.who, closing, Tail(ready))
  <2>1. CASE HandlerThrows
    BY <2>1 DEF HandlerThrows
  <2>2. CASE RunHandler
    BY <2>2 DEF RunHandler
  <2> QED
    BY <2>1, <2>2
<1>2. Queues(op_queue, Tail(ready)) /\ Outstanding = R \cup {h}
  BY <1>1, PopFacts DEF IInv
<1>3. /\ Carried(R, Outstanding') /\ socket' \in {socket, "closed"}
      /\ object' \in {object, "freed"}
  BY <1>1, <1>2, ReleaseFacts
<1> HIDE DEF h, R
<1> QED
  BY <1>2, <1>3 DEF Kept, Carried, h

(* The next transfer of a composed operation keeps all operations.         *)
LEMMA KeptByTransfer == ASSUME IInv, NEW K, RunTransfer PROVE Kept(K)
<1> DEFINE h == Head(ready)
           n == WithResult(h, "none")
           R == Waiting \cup ToSet(Tail(ready))
<1>1. /\ Queues(op_queue, Tail(ready)) /\ h \in Ops
      /\ Outstanding = R \cup {h} /\ Apart(R, {h})
  BY PopFacts DEF IInv, RunTransfer
<1>2. n \in Ops /\ Same(n, h) /\ n.res = "none"
  BY <1>1, WithResultOp DEF Same
<1>3. Apart(R, {n})
  BY <1>1, <1>2 DEF Apart, Same
<1>4. StartOp(n, Tail(ready)) /\ object' = object /\ h.res = "ok" /\ h.got < h.size
  BY DEF RunTransfer, ownVars, NeedsMore
<1> HIDE DEF n, h
<1>5. socket' = socket /\ \E o \in Ops : Same(o, n) /\ Outstanding' = R \cup {o}
  BY <1>1, <1>2, <1>3, <1>4, StartFacts
<1>6. PICK o \in Ops : Same(o, h) /\ Outstanding' = R \cup {o}
  BY <1>2, <1>5 DEF Same
<1> HIDE DEF R
<1> QED
  BY <1>1, <1>4, <1>5, <1>6 DEF Kept, Same

(* A new operation joins the others.                                       *)
LEMMA NewOpFacts ==
    ASSUME IInv, NEW t \in Users, MayCall(t), NEW kind \in Kinds, NEW size \in Nat,
           StartOp(NewOp(t, kind, size), ready)
    PROVE  \E o \in Ops :
              /\ o.who = t /\ o.kind = kind /\ o.size = size /\ o.got = 0
              /\ Outstanding' = Outstanding \cup {o} /\ socket' = socket
              /\ o.res = "ok" => size = 0
              /\ o.res = "fail" => socket = "closed"
              /\ o.res = "none" => socket # "closed"
<1> DEFINE new == NewOp(t, kind, size)
<1>1. /\ new \in Ops /\ new.res = "none" /\ new.who = t /\ new.kind = kind
      /\ new.got = 0 /\ new.size = size
  BY DEF NewOp, Ops
<1> HIDE DEF new
<1>2. \A op \in Outstanding : op.who # t
  BY NoOpInRun DEF MayCall
<1>3. Apart(Waiting \cup ToSet(ready), {new})
  BY <1>1, <1>2 DEF Apart, Outstanding
<1>4. StartOp(new, ready) /\ Queues(op_queue, ready)
  BY DEF new, IInv
<1>5. /\ socket' = socket
      /\ \E o \in Ops :
            /\ Same(o, new) /\ Outstanding' = Waiting \cup ToSet(ready) \cup {o}
            /\ o.res = "ok" => new.size = 0
            /\ o.res = "fail" => socket = "closed"
            /\ o.res = "none" => socket # "closed"
  BY <1>1, <1>3, <1>4, StartFacts
<1> QED
  BY <1>1, <1>5 DEF Outstanding, Same

(* A new operation of another kind does too,                               *)
LEMMA KeptByNewOp ==
    ASSUME NEW K, NEW o, o.kind \notin K, Outstanding' = Outstanding \cup {o},
           socket' = socket, object' = object
    PROVE  Kept(K)
BY DEF Kept, Same

(* An operation comes to an outcome; it is the only one of its thread.     *)
LEMMA KeptByOutcome ==
    ASSUME NEW K, NEW R, NEW h, NEW o, Outstanding = R \cup {h}, Outstanding' = R \cup {o},
           socket' = socket, object' = object,
           h.kind = o.kind,
           h.kind \notin K \/ (Same(o, h) /\ o.res = "fail")
    PROVE  Kept(K)
BY DEF Kept, Same

(* and so does a failure the kernel reports.                               *)
LEMMA FailedOutcome ==
    ASSUME IInv, NEW K, NEW d \in {"in", "out"}, PerformFail(d)
    PROVE  Kept(K)
<1> DEFINE h == Head(op_queue[d])
           o == WithResult(h, "fail")
<1>1. op_queue[d] # <<>> /\ FinishFirst(d, o)
  BY DEF PerformFail
<1>2. h \in Ops
  BY <1>1, FirstFacts
<1>3. o \in Ops /\ Same(o, h) /\ o.res = "fail"
  BY <1>2, WithResultOp DEF Same
<1>4. o.who = h.who
  BY <1>3 DEF Same
<1> HIDE DEF o
<1>5. PICK R : Outstanding = R \cup {h} /\ Outstanding' = R \cup {o}
  BY <1>1, <1>3, <1>4, FinishFacts DEF IInv
<1>6. socket' = socket /\ object' = object
  BY <1>1 DEF FinishFirst, ownVars
<1> HIDE DEF h
<1> QED
  BY <1>3, <1>5, <1>6, KeptByOutcome DEF Same

(* The kernel receives for a read.                                         *)
LEMMA KeptByReceive == ASSUME IInv, PerformRead PROVE Kept({"write"})
<1> DEFINE h == Head(op_queue["in"])
<1>1. PICK k \in 1..Min({sent - received, Room(h)}) :
         FinishFirst("in", [h EXCEPT !.got = @ + k, !.res = "ok"])
  BY DEF PerformRead
<1>2. op_queue["in"] # <<>>
  BY DEF PerformRead
<1>3. h \in Ops /\ h.kind # "write"
  BY <1>2, FirstFacts DEF Direction
<1>4. k \in Nat
  OBVIOUS
<1> DEFINE o == [h EXCEPT !.got = @ + k, !.res = "ok"]
<1>5. o \in Ops /\ o.who = h.who /\ o.kind = h.kind /\ o.res = "ok" /\ FinishFirst("in", o)
  <2>1. h.got + k \in Nat
    BY <1>3, <1>4 DEF Ops
  <2> QED
    BY <1>1, <1>3, <2>1 DEF Ops
<1> HIDE DEF o
<1>6. PICK R : Outstanding = R \cup {h} /\ Outstanding' = R \cup {o}
  BY <1>2, <1>5, FinishFacts DEF IInv
<1>7. socket' = socket /\ object' = object
  BY <1>5 DEF FinishFirst, ownVars
<1> HIDE DEF h
<1> QED
  BY <1>3, <1>5, <1>6, <1>7, KeptByOutcome

(* Steps of connect, which neither reads nor writes.                       *)
LEMMA KeptByConnect ==
    ASSUME IInv, NEW K, "connect" \notin K,
           PerformConnect \/ RunConnect \/ \E t \in Users : Connect(t)
    PROVE  Kept(K)
<1>1. CASE PerformConnect
  <2> DEFINE h == Head(op_queue["out"])
  <2>1. PICK res \in {"ok", "fail"} : FinishFirst("out", WithResult(h, res))
    BY <1>1 DEF PerformConnect
  <2>2. op_queue["out"] # <<>> /\ h.kind = "connect"
    BY <1>1 DEF PerformConnect
  <2>3. h \in Ops
    BY <2>2, FirstFacts
  <2> DEFINE o == WithResult(h, res)
  <2>4. o \in Ops /\ Same(o, h) /\ o.res = res
    BY <2>3, WithResultOp DEF Same
  <2>5. o.who = h.who /\ o.res # "none" /\ FinishFirst("out", o)
    BY <2>1, <2>4 DEF Same
  <2> HIDE DEF o
  <2>6. PICK R : Outstanding = R \cup {h} /\ Outstanding' = R \cup {o}
    BY <2>2, <2>4, <2>5, FinishFacts DEF IInv
  <2>7. socket' = socket /\ object' = object
    BY <2>1 DEF FinishFirst, ownVars
  <2> HIDE DEF h
  <2> QED
    BY <2>2, <2>4, <2>6, <2>7, KeptByOutcome DEF Same
<1>2. CASE RunConnect
  <2> DEFINE h == Head(ready)
             R == Waiting \cup ToSet(Tail(ready))
  <2>1. Outstanding = R \cup {h}
    BY <1>2, PopFacts DEF IInv, RunConnect
  <2>2. /\ UNCHANGED <<object, socket, op_queue>> /\ ready' = Tail(ready) /\ h.kind = "connect"
    BY <1>2 DEF RunConnect
  <2>3. Outstanding' = R
    BY <2>2 DEF Outstanding, Waiting
  <2> HIDE DEF h, R
  <2> QED
    BY <2>1, <2>2, <2>3 DEF Kept, Same
<1>3. ASSUME NEW t \in Users, Connect(t) PROVE Kept(K)
  <2> DEFINE new == NewOp(t, "connect", 0)
  <2>1. new \in Ops /\ new.kind = "connect"
    BY DEF NewOp, Ops, Kinds
  <2>2. Outstanding = {} /\ object = "none" /\ object' = "alive"
    BY <1>3 DEF Connect, IInv, Unborn
  <2>3. /\ op_queue'["in"] = op_queue["in"] /\ op_queue'["out"] = <<new>> /\ ready' = ready
    BY <1>3 DEF Connect, IInv, Queues
  <2> HIDE DEF new
  <2>4. ToSet(<<new>>) = {new}
    BY <2>1, SingleOp
  <2>5. Outstanding' \subseteq {new}
    BY <2>2, <2>3, <2>4 DEF Outstanding, Waiting
  <2> QED
    BY <2>1, <2>2, <2>5 DEF Kept
<1> QED
  BY <1>1, <1>2, <1>3

(* Steps without an operation of their own.                                *)
LEMMA KeptByOthers ==
    ASSUME IInv, NEW K,
           \/ Accepted \/ PeerSends \/ PeerCloses \/ Collect \/ UNCHANGED vars
           \/ \E t \in Users : \/ Close(t) \/ CloseThrows(t) \/ Return(t) \/ Fail(t)
                               \/ \E u \in Users : Share(t, u)
    PROVE  Kept(K)
<1>1. CASE Accepted
  BY <1>1, SameQueues, CarriedKept DEF Accepted
<1>2. CASE PeerSends \/ PeerCloses
  BY <1>2, SameQueues, CarriedKept DEF PeerSends, PeerCloses, ownVars, opVars
<1>3. CASE Collect
  <2>1. /\ Carried(Outstanding, Outstanding') /\ socket' \in {socket, "closed"}
        /\ object' \in {object, "freed"}
    BY <1>3, ReleaseFacts DEF Collect, IInv, Outstanding
  <2> QED
    BY <2>1, CarriedKept
<1>4. CASE UNCHANGED vars
  BY <1>4, SameQueues, CarriedKept DEF vars, ownVars, opVars
<1>5. ASSUME NEW t \in Users, Close(t) \/ CloseThrows(t) PROVE Kept(K)
  <2>1. CloseSocket(ready) /\ object' = object
    BY <1>5 DEF Close, CloseThrows, ownVars
  <2>2. Carried(Outstanding, Outstanding') /\ socket' = "closed"
    BY <2>1, CloseFacts DEF IInv, Outstanding
  <2> QED
    BY <2>1, <2>2, CarriedKept
<1>6. ASSUME NEW t \in Users, Return(t) \/ Fail(t) \/ \E u \in Users : Share(t, u)
      PROVE  Kept(K)
  <2>1. UNCHANGED <<object, socket, op_queue, ready>>
    BY <1>6 DEF Return, Fail, Share, ownVars, opVars
  <2> QED
    BY <2>1, SameQueues, CarriedKept
<1> QED
  BY <1>1, <1>2, <1>3, <1>4, <1>5, <1>6

----------------------------------------------------------------------------
(* Writes.                                                                 *)
OnWire == ToSet(out)

Complete(t, m) == \A i \in 1..wrote[t][m] : <<t, m, i>> \in OnWire

AllWritten(t) == \A m \in 1..Len(wrote[t]) : Complete(t, m)

(* An outstanding write is that of the last string.  Unless it has failed, *)
(* the strings before are complete, and of its own the bytes it has        *)
(* transferred are on the wire and no others.                              *)
WriteProgress(op) ==
    /\ Len(wrote[op.who]) > 0
    /\ acked[op.who] < Len(wrote[op.who])
    /\ op.size = wrote[op.who][Len(wrote[op.who])]
    /\ op.res # "fail" =>
          /\ \A j \in 1..Len(wrote[op.who]) - 1 : Complete(op.who, j)
          /\ \A i \in 1..op.size : <<op.who, Len(wrote[op.who]), i>> \in OnWire <=> i <= op.got

(* The parts of WritesComplete.                                            *)
WireOrdered ==
    \A p, q \in 1..Len(out) : p < q /\ out[p][1] = out[q][1] => Before(out[p], out[q])

WireWritten ==
    \A b \in OnWire : b[2] \in 1..Len(wrote[b[1]]) /\ b[3] \in 1..wrote[b[1]][b[2]]

Gapless(t) ==
    \A m \in 1..Len(wrote[t]) : \A i \in 1..wrote[t][m] :
       m <= acked[t] \/ (\E c \in OnWire : c[1] = t /\ Before(<<t, m, i>>, c)) =>
          <<t, m, i>> \in OnWire

(* On an open socket everything is written that is not being written.      *)
WriteInv ==
    /\ WireOrdered /\ WireWritten /\ \A t \in Users : Gapless(t)
    /\ \A t \in Users : acked[t] <= Len(wrote[t])
    /\ \A t \in Users : socket = "open" /\ at[t] # "write" => AllWritten(t)
    /\ \A op \in Outstanding : op.kind = "write" => WriteProgress(op)
    /\ object = "none" => \A t \in Users : wrote[t] = <<>>

(* WritesComplete in parts.                                                *)
LEMMA WriteParts ==
    WritesComplete <=> WireOrdered /\ WireWritten /\ \A t \in Users : Gapless(t)
BY DEF WritesComplete, WireOrdered, WireWritten, Gapless, OnWire

(* What is on the wire, and what was written.                              *)
LEMMA WireTypes ==
    ASSUME Types
    PROVE  /\ out \in Seq(Users \X Nat \X Nat) /\ Len(out) \in Nat
           /\ OnWire = {out[p] : p \in 1..Len(out)}
           /\ OnWire \subseteq Users \X Nat \X Nat
           /\ \A t \in Users : /\ wrote[t] \in Seq(Nat) /\ Len(wrote[t]) \in Nat
                               /\ \A m \in 1..Len(wrote[t]) : wrote[t][m] \in Nat
                               /\ acked[t] \in Nat
<1>1. /\ out \in Seq(Users \X Nat \X Nat) /\ Len(out) \in Nat /\ DOMAIN out = 1..Len(out)
      /\ \A p \in 1..Len(out) : out[p] \in Users \X Nat \X Nat
  BY LenProperties, ElementOfSeq DEF Types
<1>2. OnWire = {out[p] : p \in 1..Len(out)}
  BY <1>1 DEF OnWire, ToSet
<1>3. ASSUME NEW t \in Users
      PROVE  /\ wrote[t] \in Seq(Nat) /\ Len(wrote[t]) \in Nat
             /\ \A m \in 1..Len(wrote[t]) : wrote[t][m] \in Nat
             /\ acked[t] \in Nat
  <2>1. wrote[t] \in Seq(Nat) /\ acked[t] \in Nat
    BY DEF Types
  <2> QED
    BY <2>1, LenProperties, ElementOfSeq
<1> QED
  BY <1>1, <1>2, <1>3

(* Nothing is written at first.                                            *)
LEMMA WriteInit == Init => WriteInv
<1> SUFFICES ASSUME Init PROVE WriteInv
  OBVIOUS
<1>1. out = <<>> /\ \A t \in Users : wrote[t] = <<>> /\ acked[t] = 0
  BY DEF Init
<1>2. OnWire = {}
  BY <1>1 DEF OnWire, ToSet
<1>3. op_queue["in"] = <<>> /\ op_queue["out"] = <<>> /\ ready = <<>>
  BY DEF Init
<1>4. Outstanding = {}
  BY <1>3, EmptyQueue DEF Outstanding, Waiting
<1> QED
  BY <1>1, <1>2, <1>4 DEF WriteInv, WireOrdered, WireWritten, Gapless, AllWritten, Complete

(* Steps that keep the writes.                                             *)
LEMMA WriteFrame ==
    ASSUME WriteInv, Kept({"write"}), UNCHANGED outVars,
           \A t \in Users : at[t] = "write" => at'[t] = "write" \/ socket' = "closed"
    PROVE  WriteInv'
<1>1. OnWire' = OnWire /\ UNCHANGED <<out, wrote, acked>>
  BY DEF outVars, OnWire
<1>2. \A t \in Users : Gapless(t) => Gapless(t)'
  BY <1>1 DEF Gapless
<1>3. WireOrdered' /\ WireWritten' /\ \A t \in Users : Gapless(t)'
  BY <1>1, <1>2 DEF WriteInv, WireOrdered, WireWritten
<1>4. \A t \in Users : AllWritten(t)' <=> AllWritten(t)
  BY <1>1 DEF AllWritten, Complete
<1>5. ASSUME NEW t \in Users, socket' = "open", at'[t] # "write" PROVE AllWritten(t)'
  <2>1. CASE object = "none"
    <3>1. wrote[t] = <<>>
      BY <2>1 DEF WriteInv
    <3> QED
      BY <1>4, <3>1 DEF AllWritten
  <2>2. CASE object # "none"
    <3>1. socket = "open" /\ at[t] # "write"
      BY <1>5, <2>2 DEF Kept
    <3> QED
      BY <1>4, <3>1 DEF WriteInv
  <2> QED
    BY <2>1, <2>2
<1>6. ASSUME NEW x \in Outstanding', x.kind = "write" PROVE WriteProgress(x)'
  <2>1. PICK y \in Outstanding : /\ Same(x, y)
                                 /\ x = y \/ x.res = "fail" \/ (y.res = "ok" /\ y.got < y.size)
    BY <1>6 DEF Kept
  <2>2. WriteProgress(y)
    BY <1>6, <2>1 DEF WriteInv, Same
  <2>3. x.res # "fail" => y.res # "fail"
    BY <2>1
  <2> QED
    BY <1>1, <2>1, <2>2, <2>3 DEF WriteProgress, Same, Complete
<1>7. object' = "none" => object = "none"
  BY DEF Kept
<1> QED
  BY <1>1, <1>3, <1>5, <1>6, <1>7 DEF WriteInv

(* conn:write: the string is not on the wire yet, and all earlier ones of  *)
(* this light thread are.                                                  *)
LEMMA WriteStarts ==
    ASSUME IInv, IInv', WriteInv, NEW t \in Users, NEW n \in Lengths, Write(t, n)
    PROVE  WriteInv'
<1>1. n \in Nat /\ n # 0
  BY ConnectionAssumption
<1>2. /\ MayCall(t) /\ StartOp(NewOp(t, "write", n), ready)
      /\ wrote' = [wrote EXCEPT ![t] = Append(@, n)] /\ at' = [at EXCEPT ![t] = "write"]
      /\ UNCHANGED <<out, acked, object>>
  BY DEF Write
<1>3. PICK o \in Ops :
         /\ o.who = t /\ o.kind = "write" /\ o.size = n /\ o.got = 0
         /\ Outstanding' = Outstanding \cup {o} /\ socket' = socket
         /\ o.res = "ok" => n = 0
         /\ o.res = "fail" => socket = "closed"
         /\ o.res = "none" => socket # "closed"
  BY <1>1, <1>2, NewOpFacts DEF Kinds
<1>4. \A u \in Users : /\ wrote[u] \in Seq(Nat) /\ Len(wrote[u]) \in Nat /\ acked[u] \in Nat
                       /\ u # t => wrote'[u] = wrote[u] /\ at'[u] = at[u]
  BY <1>2, WireTypes DEF IInv, Types
<1>5. /\ wrote'[t] = Append(wrote[t], n) /\ Len(wrote'[t]) = Len(wrote[t]) + 1
      /\ wrote'[t][Len(wrote[t]) + 1] = n
      /\ \A m \in 1..Len(wrote[t]) : wrote'[t][m] = wrote[t][m]
      /\ at[t] = "run" /\ at'[t] = "write"
  BY <1>1, <1>2, <1>4, AppendProperties DEF MayCall, IInv, Types
<1>6. OnWire' = OnWire /\ OnWire \subseteq Users \X Nat \X Nat
  BY <1>2, WireTypes DEF OnWire, IInv
<1>7. WireOrdered' /\ WireWritten'
  <2>1. WireOrdered'
    BY <1>2 DEF WriteInv, WireOrdered
  <2>2. ASSUME NEW b \in OnWire
        PROVE  b[2] \in 1..Len(wrote'[b[1]]) /\ b[3] \in 1..wrote'[b[1]][b[2]]
    <3>1. b[2] \in 1..Len(wrote[b[1]]) /\ b[3] \in 1..wrote[b[1]][b[2]]
      BY DEF WriteInv, WireWritten
    <3>2. b[1] \in Users
      BY <1>6
    <3>3. CASE b[1] = t
      BY <1>4, <1>5, <3>1, <3>3
    <3>4. CASE b[1] # t
      BY <1>4, <3>1, <3>2, <3>4
    <3> QED
      BY <3>3, <3>4
  <2> QED
    BY <1>6, <2>1, <2>2 DEF WireWritten
<1>8. \A b \in OnWire : b[1] = t => b[2] \in Nat /\ b[2] <= Len(wrote[t])
  BY <1>4, <1>6 DEF WriteInv, WireWritten
<1>9. ASSUME NEW u \in Users PROVE Gapless(u)'
  <2>0. Gapless(u) /\ acked[u] <= Len(wrote[u])
    BY DEF WriteInv
  <2>1. CASE u # t
    BY <1>2, <1>4, <1>6, <2>0, <2>1 DEF Gapless
  <2>2. CASE u = t
    <3> SUFFICES ASSUME NEW m \in 1..Len(wrote'[t]), NEW i \in 1..wrote'[t][m],
                        m <= acked[t] \/ \E c \in OnWire : c[1] = t /\ Before(<<t, m, i>>, c)
                 PROVE  <<t, m, i>> \in OnWire
      BY <1>2, <1>6, <2>2 DEF Gapless
    <3>1. CASE m \in 1..Len(wrote[t])
      BY <1>5, <2>0, <2>2, <3>1 DEF Gapless
    <3>2. CASE m = Len(wrote[t]) + 1
      <4>1. ~(m <= acked[t])
        BY <1>4, <2>0, <2>2, <3>2
      <4>2. PICK c \in OnWire : c[1] = t /\ Before(<<t, m, i>>, c)
        BY <4>1
      <4>3. c[2] \in Nat /\ c[2] <= Len(wrote[t]) /\ m <= c[2]
        BY <1>4, <1>8, <3>2, <4>2 DEF Before
      <4> QED
        BY <1>4, <3>2, <4>3
    <3> QED
      BY <1>4, <1>5, <3>1, <3>2
  <2> QED
    BY <2>1, <2>2
<1>10. \A u \in Users : acked'[u] <= Len(wrote'[u])
  BY <1>2, <1>4, <1>5 DEF WriteInv
<1>11. ASSUME NEW u \in Users, socket' = "open", at'[u] # "write" PROVE AllWritten(u)'
  <2>1. u # t /\ AllWritten(u)
    BY <1>3, <1>4, <1>5, <1>11 DEF WriteInv
  <2> QED
    BY <1>4, <1>6, <2>1 DEF AllWritten, Complete
<1>12. WriteProgress(o)'
  <2>1. CASE o.res = "fail"
    BY <1>2, <1>3, <1>4, <1>5, <2>1 DEF WriteProgress, WriteInv
  <2>2. CASE o.res # "fail"
    <3>1. socket = "open"
      BY <1>1, <1>3, <2>2 DEF Ops, IInv, Types
    <3>2. AllWritten(t)
      BY <1>5, <3>1 DEF WriteInv
    <3>3. \A j \in 1..Len(wrote[t]) : Complete(t, j)'
      BY <1>5, <1>6, <3>2 DEF AllWritten, Complete
    <3>4. \A i \in 1..n : ~(<<t, Len(wrote[t]) + 1, i>> \in OnWire)
      BY <1>4, <1>8
    <3>5. Len(wrote'[t]) - 1 = Len(wrote[t]) /\ Len(wrote'[t]) > 0 /\ acked'[t] < Len(wrote'[t])
      BY <1>2, <1>4, <1>5 DEF WriteInv
    <3>6. \A i \in 1..n : (<<t, Len(wrote'[t]), i>> \in OnWire' <=> i <= 0)
      BY <1>1, <1>5, <1>6, <3>4
    <3> QED
      BY <1>3, <1>5, <3>3, <3>5, <3>6 DEF WriteProgress
  <2> QED
    BY <2>1, <2>2
<1>13. ASSUME NEW x \in Outstanding, x.kind = "write" PROVE WriteProgress(x)'
  <2>1. x.who \in Users /\ x.who # t
    BY <1>5, NoOpInRun
  <2>2. WriteProgress(x)
    BY <1>13 DEF WriteInv
  <2>3. wrote'[x.who] = wrote[x.who] /\ acked' = acked
    BY <1>2, <1>4, <2>1
  <2> QED
    BY <1>6, <2>2, <2>3 DEF WriteProgress, Complete
<1>14. object' # "none"
  BY <1>2 DEF MayCall, IInv, Unborn
<1> QED
  BY <1>3, <1>7, <1>9, <1>10, <1>11, <1>12, <1>13, <1>14 DEF WriteInv

(* The kernel takes the next bytes of the first write.                     *)
LEMMA WriteTransfers ==
    ASSUME IInv, WriteInv, PerformWrite PROVE WriteInv'
<1>head. PICK h, t, m, g :
         h = Head(op_queue["out"]) /\ t = h.who /\ m = Len(wrote[t]) /\ g = h.got
  OBVIOUS
<1>1. PICK k \in 1..Room(h) :
         /\ out' = out \o [i \in 1..k |-> <<t, m, g + i>>]
         /\ FinishFirst("out", [h EXCEPT !.got = @ + k, !.res = "ok"])
  BY <1>head DEF PerformWrite
<1>2. op_queue["out"] # <<>> /\ h.kind = "write"
  BY <1>head DEF PerformWrite
<1>3. /\ h \in Ops /\ h \in Outstanding /\ h.got <= h.size /\ h.res = "none"
      /\ t \in Users /\ g \in Nat /\ h.size \in Nat
  BY <1>head, <1>2, FirstFacts DEF Ops
<1>4. WriteProgress(h)
  BY <1>2, <1>3 DEF WriteInv
<1>5. /\ m \in Nat /\ m > 0 /\ acked[t] < m /\ acked[t] \in Nat
      /\ h.size = wrote[t][m]
      /\ \A j \in 1..m - 1 : Complete(t, j)
      /\ \A i \in 1..h.size : <<t, m, i>> \in OnWire <=> i <= g
  BY <1>head, <1>3, <1>4, WireTypes DEF WriteProgress, IInv
<1>0. PICK o : o = [h EXCEPT !.got = @ + k, !.res = "ok"]
  OBVIOUS
<1>6. /\ o \in Ops /\ o.who = t /\ o.kind = "write" /\ o.size = h.size
      /\ o.got = g + k /\ o.res = "ok" /\ FinishFirst("out", o)
  <2>1. /\ o \in Ops /\ o.who = h.who /\ o.kind = h.kind /\ o.size = h.size
        /\ o.got = h.got + k /\ o.res = "ok"
    BY <1>0, <1>1, <1>3, TransferOp
  <2> QED
    BY <1>head, <1>0, <1>1, <1>2, <2>1
<1>7. k \in Nat /\ k >= 1 /\ g + k <= h.size
  BY <1>head, <1>1, <1>3 DEF Room
<1>8. PICK R : Outstanding = R \cup {h} /\ Outstanding' = R \cup {o} /\ Apart(R, {o})
  BY <1>head, <1>2, <1>6, FinishFacts DEF IInv
<1>9. UNCHANGED <<object, socket, at, wrote, acked>>
  BY <1>6 DEF FinishFirst, ownVars
<1> DEFINE s == [i \in 1..k |-> <<t, m, g + i>>]
<1>10. /\ s \in Seq(Users \X Nat \X Nat) /\ Len(s) = k
       /\ \A i \in 1..k : s[i] = <<t, m, g + i>>
  BY <1>3, <1>5, <1>7
<1>11. /\ out \in Seq(Users \X Nat \X Nat) /\ Len(out) \in Nat
       /\ OnWire = {out[p] : p \in 1..Len(out)} /\ OnWire \subseteq Users \X Nat \X Nat
  BY WireTypes DEF IInv
<1>12. out' = out \o s
  BY <1>1
<1> HIDE DEF s
<1>13. /\ out' \in Seq(Users \X Nat \X Nat) /\ Len(out') = Len(out) + k
       /\ \A p \in 1..Len(out) : out'[p] = out[p]
       /\ \A i \in 1..k : out'[Len(out) + i] = <<t, m, g + i>>
  <2>1. /\ out \o s \in Seq(Users \X Nat \X Nat) /\ Len(out \o s) = Len(out) + k
        /\ \A p \in 1..Len(out) + k : (out \o s)[p] = IF p <= Len(out) THEN out[p] ELSE s[p - Len(out)]
    BY <1>10, <1>11, ConcatProperties
  <2>2. \A p \in 1..Len(out) : out'[p] = out[p]
    BY <1>7, <1>11, <1>12, <2>1
  <2>3. \A i \in 1..k : out'[Len(out) + i] = s[i]
    BY <1>7, <1>11, <1>12, <2>1
  <2> QED
    BY <1>10, <1>12, <2>1, <2>2, <2>3
<1>14. \A p \in 1..Len(out') : p \in 1..Len(out) \/ \E i \in 1..k : p = Len(out) + i
  <2> SUFFICES ASSUME NEW p \in 1..Len(out'), ~(p \in 1..Len(out))
               PROVE  \E i \in 1..k : p = Len(out) + i
    OBVIOUS
  <2>1. p - Len(out) \in 1..k /\ p = Len(out) + (p - Len(out))
    BY <1>7, <1>11, <1>13
  <2> QED
    BY <2>1
<1> DEFINE new == {<<t, m, g + i>> : i \in 1..k}
<1>15. OnWire' = OnWire \cup new
  <2>1. OnWire' = {out'[p] : p \in 1..Len(out')}
    <3>1. DOMAIN out' = 1..Len(out')
      BY <1>13, LenProperties
    <3> QED
      BY <3>1 DEF OnWire, ToSet
  <2>2. \A p \in 1..Len(out) : p \in 1..Len(out')
    BY <1>7, <1>11, <1>13
  <2>3. \A i \in 1..k : Len(out) + i \in 1..Len(out')
    BY <1>7, <1>11, <1>13
  <2>4. OnWire \subseteq OnWire'
    BY <1>11, <1>13, <2>1, <2>2
  <2>5. new \subseteq OnWire'
    BY <1>13, <2>1, <2>3
  <2>6. ASSUME NEW b \in OnWire' PROVE b \in OnWire \cup new
    <3>1. PICK p \in 1..Len(out') : b = out'[p]
      BY <2>1
    <3>2. CASE p \in 1..Len(out)
      BY <1>11, <1>13, <3>1, <3>2
    <3>3. CASE \E i \in 1..k : p = Len(out) + i
      BY <1>13, <3>1, <3>3
    <3> QED
      BY <1>14, <3>1, <3>2, <3>3
  <2> QED
    BY <2>4, <2>5, <2>6
<1> HIDE DEF new
<1>16. \A b \in new : b[1] = t /\ b[2] = m /\ b[3] \in g + 1..g + k
  BY <1>3, <1>5, <1>7 DEF new
<1>17. \A i \in g + 1..g + k : <<t, m, i>> \in new
  <2> SUFFICES ASSUME NEW i \in g + 1..g + k PROVE <<t, m, i>> \in new
    OBVIOUS
  <2>1. i - g \in 1..k /\ g + (i - g) = i
    BY <1>3, <1>7
  <2> QED
    BY <2>1 DEF new
<1>18. ASSUME NEW b \in OnWire, b[1] = t
       PROVE  b[2] \in 1..m /\ b[3] \in Nat /\ (b[2] = m => b[3] <= g)
  <2>1. b[2] \in 1..m /\ b[3] \in 1..wrote[t][b[2]] /\ b = <<t, b[2], b[3]>> /\ b[3] \in Nat
    <3>1. b[2] \in 1..Len(wrote[t]) /\ b[3] \in 1..wrote[t][b[2]]
      BY <1>18 DEF WriteInv, WireWritten
    <3>2. b \in Users \X Nat \X Nat
      BY <1>11
    <3> QED
      BY <1>head, <1>18, <3>1, <3>2
  <2>2. ASSUME b[2] = m PROVE b[3] <= g
    <3>1. b[3] \in 1..h.size /\ b = <<t, m, b[3]>>
      BY <1>5, <2>1, <2>2
    <3> QED
      BY <1>5, <3>1
  <2> QED
    BY <2>1, <2>2
<1>19. WireOrdered'
  <2> SUFFICES ASSUME NEW p \in 1..Len(out'), NEW q \in 1..Len(out'), p < q,
                      out'[p][1] = out'[q][1]
               PROVE  Before(out'[p], out'[q])
    BY DEF WireOrdered
  <2>1. CASE p \in 1..Len(out) /\ q \in 1..Len(out)
    BY <1>13, <2>1 DEF WriteInv, WireOrdered
  <2>2. CASE p \in 1..Len(out) /\ \E i \in 1..k : q = Len(out) + i
    <3>1. PICK i \in 1..k : q = Len(out) + i
      BY <2>2
    <3>2. out'[q] = <<t, m, g + i>> /\ out'[p] = out[p] /\ out[p] \in OnWire
      BY <1>11, <1>13, <2>2, <3>1
    <3>3. out[p][2] \in 1..m /\ out[p][3] \in Nat /\ (out[p][2] = m => out[p][3] <= g)
      BY <1>18, <3>2
    <3>4. out[p][2] < m \/ (out[p][2] = m /\ out[p][3] < g + i)
      <4>1. g < g + i /\ (out[p][2] = m => out[p][3] < g + i)
        BY <1>3, <1>7, <3>3
      <4> QED
        BY <1>5, <3>3, <4>1
    <3> QED
      BY <3>2, <3>4 DEF Before
  <2>3. CASE (\E i \in 1..k : p = Len(out) + i) /\ (\E j \in 1..k : q = Len(out) + j)
    <3>1. PICK i \in 1..k : p = Len(out) + i
      BY <2>3
    <3>2. PICK j \in 1..k : q = Len(out) + j
      BY <2>3
    <3>3. g + i < g + j
      BY <1>3, <1>7, <1>11, <3>1, <3>2
    <3>4. out'[p] = <<t, m, g + i>> /\ out'[q] = <<t, m, g + j>>
      BY <1>13, <3>1, <3>2
    <3> QED
      BY <3>3, <3>4 DEF Before
  <2>4. CASE (\E i \in 1..k : p = Len(out) + i) /\ q \in 1..Len(out)
    BY <1>11, <2>4
  <2> QED
    BY <1>14, <2>1, <2>2, <2>3, <2>4
<1>20. WireWritten'
  <2>1. ASSUME NEW b \in new PROVE b[2] \in 1..Len(wrote[b[1]]) /\ b[3] \in 1..wrote[b[1]][b[2]]
    <3>1. b[1] = t /\ b[2] = m /\ b[3] \in g + 1..g + k
      BY <1>16
    <3>2. b[3] \in 1..wrote[t][m] /\ m \in 1..Len(wrote[t])
      <4>1. b[3] \in 1..h.size
        BY <1>3, <1>7, <3>1
      <4> QED
        BY <1>head, <1>5, <4>1
    <3> QED
      BY <3>1, <3>2
  <2> QED
    BY <1>9, <1>15, <2>1 DEF WriteInv, WireWritten
<1>21. \A u \in Users : \A j : Complete(u, j) => Complete(u, j)'
  BY <1>9, <1>15 DEF Complete
<1>22. ASSUME NEW u \in Users PROVE Gapless(u)'
  <2>1. CASE u # t
    <3>1. \A c \in OnWire' : c[1] = u => c \in OnWire
      BY <1>15, <1>16, <2>1
    <3>2. Gapless(u)
      BY DEF WriteInv
    <3> QED
      BY <1>9, <1>15, <3>1, <3>2 DEF Gapless
  <2>2. CASE u = t
    <3> SUFFICES ASSUME NEW l \in 1..Len(wrote[t]), NEW i \in 1..wrote[t][l],
                        l <= acked[t] \/ \E c \in OnWire' : c[1] = t /\ Before(<<t, l, i>>, c)
                 PROVE  <<t, l, i>> \in OnWire'
      BY <1>9, <2>2 DEF Gapless
    <3>1. CASE l # m
      <4>1. l \in 1..m - 1
        BY <1>head, <1>5, <3>1
      <4>2. <<t, l, i>> \in OnWire
        BY <1>5, <4>1 DEF Complete
      <4> QED
        BY <1>15, <4>2
    <3>2. CASE l = m
      <4>1. PICK c \in OnWire' : c[1] = t /\ Before(<<t, m, i>>, c)
        BY <1>5, <3>2
      <4>2. c[2] \in 1..m /\ c[3] \in Nat /\ (c[2] = m => c[3] <= g + k)
        <5>1. CASE c \in OnWire
          BY <1>3, <1>7, <1>18, <4>1, <5>1
        <5>2. CASE c \in new
          BY <1>3, <1>5, <1>7, <1>16, <5>2
        <5> QED
          BY <1>15, <5>1, <5>2
      <4>3. i \in 1..h.size /\ i <= g + k
        BY <1>3, <1>5, <1>7, <3>2, <4>1, <4>2 DEF Before
      <4>4. i <= g \/ i \in g + 1..g + k
        BY <1>3, <1>7, <4>3
      <4> QED
        BY <1>5, <1>15, <1>17, <3>2, <4>3, <4>4
    <3> QED
      BY <3>1, <3>2
  <2> QED
    BY <2>1, <2>2
<1>23. ASSUME NEW u \in Users, socket' = "open", at'[u] # "write" PROVE AllWritten(u)'
  BY <1>9, <1>21, <1>23 DEF WriteInv, AllWritten
<1>24. WriteProgress(o)'
  <2>1. ASSUME NEW i \in 1..h.size PROVE <<t, m, i>> \in OnWire' <=> i <= g + k
    <3>1. ASSUME <<t, m, i>> \in OnWire' PROVE i <= g + k
      <4>1. CASE <<t, m, i>> \in OnWire
        BY <1>3, <1>5, <1>7, <4>1
      <4>2. CASE <<t, m, i>> \in new
        BY <1>3, <1>7, <1>16, <4>2
      <4> QED
        BY <1>15, <3>1, <4>1, <4>2
    <3>2. ASSUME i <= g + k PROVE <<t, m, i>> \in OnWire'
      <4>1. i <= g \/ i \in g + 1..g + k
        BY <1>3, <1>7, <3>2
      <4> QED
        BY <1>5, <1>15, <1>17, <4>1
    <3> QED
      BY <3>1, <3>2
  <2>2. \A j \in 1..m - 1 : Complete(t, j)'
    BY <1>3, <1>5, <1>21
  <2> QED
    BY <1>head, <1>5, <1>6, <1>9, <2>1, <2>2 DEF WriteProgress
<1>25. ASSUME NEW x \in R, x.kind = "write" PROVE WriteProgress(x)'
  <2>1. x.who # t /\ x.who \in Users
    BY <1>6, <1>8, OutstandingOps DEF Apart, IInv, Ops
  <2>2. WriteProgress(x)
    BY <1>8, <1>25 DEF WriteInv
  <2>3. \A j, i : <<x.who, j, i>> \in OnWire' <=> <<x.who, j, i>> \in OnWire
    BY <1>15, <1>16, <2>1
  <2> QED
    BY <1>9, <1>21, <2>1, <2>2, <2>3 DEF WriteProgress
<1> QED
  BY <1>8, <1>9, <1>19, <1>20, <1>22, <1>23, <1>24, <1>25 DEF WriteInv

(* The handler of a write acknowledges it if it did not fail.              *)
LEMMA WriteEnds ==
    ASSUME IInv, WriteInv, RunHandler \/ HandlerThrows, Head(ready).kind = "write"
    PROVE  WriteInv'
<1> DEFINE h == Head(ready)
           t == h.who
           R == Waiting \cup ToSet(Tail(ready))
<1>1. /\ ready # <<>> /\ UNCHANGED <<out, wrote>>
      /\ \E closing \in BOOLEAN :
            /\ Release(t, closing, Tail(ready))
            /\ ~closing => h.res = "ok" /\ ~NeedsMore(h)
                           /\ acked' = [acked EXCEPT ![t] = @ + 1]
            /\ closing => acked' = acked
      /\ \E p \in {"run", "lost"} : at' = [at EXCEPT ![t] = p]
  <2>1. CASE HandlerThrows
    BY <2>1 DEF HandlerThrows, outVars
  <2>2. CASE RunHandler
    BY <2>2 DEF RunHandler
  <2> QED
    BY <2>1, <2>2
<1>2. PICK closing \in BOOLEAN :
            /\ Release(t, closing, Tail(ready))
            /\ ~closing => h.res = "ok" /\ ~NeedsMore(h)
                           /\ acked' = [acked EXCEPT ![t] = @ + 1]
            /\ closing => acked' = acked
  BY <1>1
<1>3. /\ Queues(op_queue, Tail(ready)) /\ Outstanding = R \cup {h} /\ Apart(R, {h})
      /\ h \in Ops /\ t \in Users /\ h.got \in Nat /\ h.size \in Nat
  BY <1>1, PopFacts DEF IInv, Ops
<1>4. /\ Carried(R, Outstanding') /\ socket' \in {socket, "closed"}
      /\ closing => socket' = "closed"
      /\ object' \in {object, "freed"}
  BY <1>2, <1>3, ReleaseFacts
<1>5. OpSound(h) /\ WriteProgress(h)
  BY <1>3 DEF IInv, OpsSound, WriteInv
<1>6. h.kind = "write"
  OBVIOUS
<1> HIDE DEF h, t, R
<1>7. OnWire' = OnWire
  BY <1>1 DEF OnWire
<1>8. \A u \in Users : u # t => acked'[u] = acked[u] /\ at'[u] = at[u]
  BY <1>1, <1>2 DEF IInv, Types
<1>9. \A u \in Users : Len(wrote[u]) \in Nat /\ acked[u] \in Nat
  BY WireTypes DEF IInv
<1>10. ~closing => AllWritten(t) /\ acked'[t] = acked[t] + 1 /\ acked[t] < Len(wrote[t])
  <2> SUFFICES ASSUME ~closing PROVE AllWritten(t) /\ acked'[t] = acked[t] + 1 /\ acked[t] < Len(wrote[t])
    OBVIOUS
  <2>1. h.got = h.size /\ h.res # "fail"
    BY <1>2, <1>3, <1>5, <1>6 DEF NeedsMore, OpSound
  <2>2. ASSUME NEW m \in 1..Len(wrote[t]) PROVE Complete(t, m)
    <3>1. CASE m = Len(wrote[t])
      <4>1. \A i \in 1..h.size : <<t, m, i>> \in OnWire
        BY <1>3, <1>5, <2>1, <3>1 DEF WriteProgress, t
      <4>2. h.size = wrote[t][m]
        BY <1>5, <3>1 DEF WriteProgress, t
      <4> QED
        BY <4>1, <4>2 DEF Complete
    <3>2. CASE m # Len(wrote[t])
      <4>1. m \in 1..Len(wrote[t]) - 1
        BY <1>3, <1>9, <3>2
      <4> QED
        BY <1>5, <2>1, <4>1 DEF WriteProgress, t
    <3> QED
      BY <3>1, <3>2
  <2>3. acked'[t] = acked[t] + 1
    BY <1>2, <1>3 DEF IInv, Types
  <2> QED
    BY <1>5, <2>2, <2>3 DEF AllWritten, WriteProgress, t
<1>11. closing => acked' = acked
  BY <1>2
<1>12. WireOrdered' /\ WireWritten'
  BY <1>1, <1>7 DEF WriteInv, WireOrdered, WireWritten
<1>13. ASSUME NEW u \in Users PROVE Gapless(u)'
  <2>1. Gapless(u)
    BY DEF WriteInv
  <2>2. CASE acked'[u] = acked[u]
    BY <1>1, <1>7, <2>1, <2>2 DEF Gapless
  <2>3. CASE acked'[u] # acked[u]
    <3>1. u = t /\ AllWritten(t)
      BY <1>8, <1>10, <1>11, <2>3
    <3> QED
      BY <1>1, <1>7, <3>1 DEF Gapless, AllWritten, Complete
  <2> QED
    BY <2>2, <2>3
<1>14. ASSUME NEW u \in Users PROVE acked'[u] <= Len(wrote'[u])
  <2>1. CASE u = t /\ ~closing
    BY <1>1, <1>9, <1>10, <2>1
  <2>2. CASE ~(u = t /\ ~closing)
    BY <1>1, <1>8, <1>11, <2>2 DEF WriteInv
  <2> QED
    BY <2>1, <2>2
<1>15. ASSUME NEW u \in Users, socket' = "open", at'[u] # "write" PROVE AllWritten(u)'
  <2>1. ~closing /\ socket = "open"
    BY <1>4, <1>15
  <2>2. AllWritten(u)
    BY <1>8, <1>10, <1>15, <2>1 DEF WriteInv
  <2> QED
    BY <1>1, <1>7, <2>2 DEF AllWritten, Complete
<1>16. ASSUME NEW x \in Outstanding', x.kind = "write" PROVE WriteProgress(x)'
  <2>1. PICK y \in R : Same(x, y) /\ (x = y \/ x.res = "fail")
    BY <1>4, <1>16 DEF Carried
  <2>2. y.who # t /\ y.who \in Users
    BY <1>3, OutstandingOps DEF Apart, IInv, Ops, t
  <2>3. WriteProgress(y)
    BY <1>3, <1>16, <2>1 DEF WriteInv, Same
  <2>4. acked'[y.who] = acked[y.who] /\ wrote' = wrote
    BY <1>1, <1>8, <2>2
  <2> QED
    BY <1>7, <2>1, <2>3, <2>4 DEF WriteProgress, Same, Complete
<1>17. object' = "none" => object = "none"
  BY <1>4
<1> QED
  BY <1>1, <1>12, <1>13, <1>14, <1>15, <1>16, <1>17 DEF WriteInv

(* Every step keeps the invariant of writes.                               *)
LEMMA WriteNext == IInv /\ IInv' /\ WriteInv /\ [Next]_vars => WriteInv'
<1> SUFFICES ASSUME IInv, IInv', WriteInv, [Next]_vars PROVE WriteInv'
  OBVIOUS
<1> DEFINE W == {"write"}
           Stays == \A t \in Users : at[t] = "write" => at'[t] = "write" \/ socket' = "closed"
<1>1. ASSUME Kept(W), UNCHANGED outVars, Stays PROVE WriteInv'
  BY <1>1, WriteFrame
<1>2. ASSUME NEW t \in Users, at' = [at EXCEPT ![t] = "run"] \/ at' = [at EXCEPT ![t] = "done"]
                \/ \E k \in Kinds : at' = [at EXCEPT ![t] = k],
             at[t] # "write"
      PROVE  Stays
  BY <1>2 DEF IInv, Types
<1>3. CASE Accepted
  <2>1. Stays
    BY <1>3 DEF Accepted, IInv, Unborn
  <2> QED
    BY <1>1, <1>3, <2>1, KeptByOthers DEF Accepted
<1>4. ASSUME NEW t \in Users, Connect(t) PROVE WriteInv'
  <2>1. at[t] = "idle" /\ at' = [at EXCEPT ![t] = "connect"] /\ UNCHANGED outVars
    BY <1>4 DEF Connect, IInv, Unborn
  <2>2. Kept(W)
    BY <1>4, KeptByConnect
  <2> QED
    BY <1>1, <1>2, <2>1, <2>2 DEF Kinds
<1>5. ASSUME NEW t \in Users, NEW u \in Users, Share(t, u) PROVE WriteInv'
  <2>1. at[u] = "idle" /\ at' = [at EXCEPT ![u] = "run"] /\ UNCHANGED outVars
    BY <1>5 DEF Share
  <2>2. Kept(W)
    BY <1>5, KeptByOthers
  <2> QED
    BY <1>1, <1>2, <2>1, <2>2
<1>6. ASSUME NEW t \in Users, Return(t) \/ Fail(t) PROVE WriteInv'
  <2>1. at[t] = "run" /\ at' = [at EXCEPT ![t] = "done"] /\ UNCHANGED outVars
    BY <1>6 DEF Return, Fail
  <2>2. Kept(W)
    BY <1>6, KeptByOthers
  <2> QED
    BY <1>1, <1>2, <2>1, <2>2
<1>7. ASSUME NEW t \in Users, Close(t) \/ CloseThrows(t) PROVE WriteInv'
  <2>1. at' = at /\ UNCHANGED outVars
    BY <1>7 DEF Close, CloseThrows
  <2>2. Kept(W)
    BY <1>7, KeptByOthers
  <2> QED
    BY <1>1, <2>1, <2>2
<1>8. ASSUME NEW t \in Users, ReadSome(t) \/ \E n \in Sizes : Read(t, n) PROVE WriteInv'
  <2>1. PICK kind \in Reads, n \in Nat :
           /\ MayCall(t) /\ StartOp(NewOp(t, kind, n), ready)
           /\ at' = [at EXCEPT ![t] = kind] /\ UNCHANGED <<object, outVars>>
    BY <1>8, ConnectionAssumption DEF ReadSome, Read, Reads
  <2>2. kind \in Kinds /\ kind \notin W
    BY DEF Kinds, Reads
  <2>3. Kept(W)
    BY <2>1, <2>2, NewOpFacts, KeptByNewOp
  <2> QED
    BY <1>1, <1>2, <2>1, <2>2, <2>3 DEF MayCall
<1>9. ASSUME NEW t \in Users, NEW n \in Lengths, Write(t, n) PROVE WriteInv'
  BY <1>9, WriteStarts
<1>10. CASE PeerSends \/ PeerCloses
  <2>1. at' = at /\ UNCHANGED outVars
    BY <1>10 DEF PeerSends, PeerCloses
  <2>2. Kept(W)
    BY <1>10, KeptByOthers
  <2> QED
    BY <1>1, <2>1, <2>2
<1>11. CASE PerformRead
  <2>1. at' = at /\ UNCHANGED outVars
    BY <1>11 DEF PerformRead, FinishFirst, outVars
  <2>2. Kept(W)
    BY <1>11, KeptByReceive
  <2> QED
    BY <1>1, <2>1, <2>2
<1>12. CASE PerformWrite
  BY <1>12, WriteTransfers
<1>13. CASE PerformConnect
  <2>1. at' = at /\ UNCHANGED outVars
    BY <1>13 DEF PerformConnect, FinishFirst, outVars
  <2>2. Kept(W)
    BY <1>13, KeptByConnect
  <2> QED
    BY <1>1, <2>1, <2>2
<1>14. ASSUME NEW d \in {"in", "out"}, PerformFail(d) PROVE WriteInv'
  <2>1. at' = at /\ UNCHANGED outVars
    BY <1>14 DEF PerformFail, FinishFirst, outVars
  <2>2. Kept(W)
    BY <1>14, FailedOutcome
  <2> QED
    BY <1>1, <2>1, <2>2
<1>15. CASE RunTransfer
  <2>1. at' = at /\ UNCHANGED outVars
    BY <1>15 DEF RunTransfer
  <2>2. Kept(W)
    BY <1>15, KeptByTransfer
  <2> QED
    BY <1>1, <2>1, <2>2
<1>16. CASE (RunHandler \/ HandlerThrows) /\ Head(ready).kind = "write"
  BY <1>16, WriteEnds
<1>17. CASE (RunHandler \/ HandlerThrows) /\ Head(ready).kind # "write"
  <2>1. ready # <<>> /\ Head(ready).kind # "connect"
    BY <1>17 DEF RunHandler, HandlerThrows
  <2>2. /\ Head(ready) \in Ops /\ Head(ready) \in Outstanding
    BY <2>1, PopFacts DEF IInv
  <2>3. Head(ready).kind \in Reads /\ Head(ready).who \in Users
    BY <1>17, <2>1, <2>2 DEF Ops, Kinds, Reads
  <2>4. at[Head(ready).who] # "write"
    BY <1>17, <2>2 DEF IInv, OpsSound, OpSound
  <2>5. Kept(W)
    BY <1>17, KeptByHandler
  <2>6. CASE RunHandler
    <3>1. at' = [at EXCEPT ![Head(ready).who] = "run"] /\ UNCHANGED outVars
      BY <2>3, <2>6 DEF RunHandler, outVars, Reads
    <3> QED
      BY <1>1, <1>2, <2>3, <2>4, <2>5, <3>1
  <2>7. CASE HandlerThrows
    <3>1. at' = [at EXCEPT ![Head(ready).who] = "lost"] /\ UNCHANGED outVars
      BY <2>7 DEF HandlerThrows
    <3> QED
      BY <1>1, <1>2, <2>3, <2>4, <2>5, <3>1
  <2> QED
    BY <1>17, <2>6, <2>7
<1>18. CASE RunConnect
  <2>1. ready # <<>> /\ Head(ready).kind = "connect"
    BY <1>18 DEF RunConnect
  <2>2. /\ Head(ready) \in Ops /\ Head(ready) \in Outstanding
    BY <2>1, PopFacts DEF IInv
  <2>3. at[Head(ready).who] # "write" /\ Head(ready).who \in Users
    BY <2>1, <2>2 DEF IInv, OpsSound, OpSound, Ops
  <2>4. at' = [at EXCEPT ![Head(ready).who] = "run"] /\ UNCHANGED outVars
    BY <1>18 DEF RunConnect
  <2>5. Kept(W)
    BY <1>18, KeptByConnect
  <2> QED
    BY <1>1, <1>2, <2>3, <2>4, <2>5
<1>19. CASE Collect
  <2>1. at' = at /\ UNCHANGED outVars
    BY <1>19 DEF Collect
  <2>2. Kept(W)
    BY <1>19, KeptByOthers
  <2> QED
    BY <1>1, <2>1, <2>2
<1>20. CASE UNCHANGED vars
  <2>1. at' = at /\ UNCHANGED outVars
    BY <1>20 DEF vars
  <2>2. Kept(W)
    BY <1>20, KeptByOthers
  <2> QED
    BY <1>1, <2>1, <2>2
<1> QED
  BY <1>3, <1>4, <1>5, <1>6, <1>7, <1>8, <1>9, <1>10, <1>11, <1>12, <1>13, <1>14, <1>15,
     <1>16, <1>17, <1>18, <1>19, <1>20 DEF Next, UserStep, KernelStep, LoopStep

(* Each light thread's strings leave the connection in order and complete, *)
(* and conn:write returns true only for a string that has left.            *)
THEOREM StringsLeaveComplete == Spec => []WritesComplete
<1>1. WriteInv => WritesComplete
  BY WriteParts DEF WriteInv
<1> QED
  BY <1>1, WriteInit, WriteNext, ConnectionInvariant, PTL DEF Spec

----------------------------------------------------------------------------
(* What one light thread sees of the steps of others, for the modules that *)
(* compose connections.                                                    *)
Background == PeerSends \/ PeerCloses \/ KernelStep \/ LoopStep \/ Collect

Writes(t) == {x \in Outstanding : x.kind = "write" /\ x.who = t}

(* Nothing is sent of t's string; its operation may fail or go on.         *)
Continues(t) ==
    /\ \A x \in Writes(t)' : \E y \in Writes(t) : Same(x, y) /\ (y.res = "fail" => x.res = "fail")
    /\ Writes(t) # {} => Writes(t)' # {}

(* k more bytes of operation h are sent.                                   *)
Sends(h, k) ==
    /\ h \in Outstanding /\ h.kind = "write" /\ h.res = "none"
    /\ k \in Nat /\ k >= 1 /\ h.got + k <= h.size
    /\ out' = out \o [i \in 1..k |-> <<h.who, Len(wrote[h.who]), h.got + i>>]
    /\ \A x \in Writes(h.who)' : x.size = h.size /\ x.got = h.got + k
    /\ Writes(h.who)' # {}
    /\ \A t : t # h.who => Continues(t)

(* The handler of t's write runs.                                          *)
Ends(t) ==
    /\ Writes(t) # {} /\ Writes(t)' = {}
    /\ socket' = "closed" \/ \A x \in Writes(t) : x.res = "ok" /\ x.got = x.size

(* Writes that are kept go on.                                             *)
LEMMA KeptContinues == ASSUME Kept({"write"}) PROVE \A t : Continues(t)
BY DEF Kept, Continues, Writes, Same

(* send takes bytes of the first write.                                    *)
LEMMA SendStep == ASSUME IInv, PerformWrite PROVE \E h, k : Sends(h, k)
<1>head. PICK h : h = Head(op_queue["out"])
  OBVIOUS
<1>1. PICK k \in 1..Room(h) :
         /\ out' = out \o [i \in 1..k |-> <<h.who, Len(wrote[h.who]), h.got + i>>]
         /\ FinishFirst("out", [h EXCEPT !.got = @ + k, !.res = "ok"])
  BY <1>head DEF PerformWrite
<1>2. op_queue["out"] # <<>> /\ h.kind = "write"
  BY <1>head DEF PerformWrite
<1>3. /\ h \in Ops /\ h \in Outstanding /\ h.got <= h.size /\ h.res = "none"
      /\ h.got \in Nat /\ h.size \in Nat
  BY <1>head, <1>2, FirstFacts DEF Ops
<1>4. PICK o : o = [h EXCEPT !.got = @ + k, !.res = "ok"]
  OBVIOUS
<1>5. /\ o \in Ops /\ o.who = h.who /\ o.kind = "write" /\ o.size = h.size
      /\ o.got = h.got + k /\ o.res = "ok" /\ FinishFirst("out", o)
  <2>1. /\ o \in Ops /\ o.who = h.who /\ o.kind = h.kind /\ o.size = h.size
        /\ o.got = h.got + k /\ o.res = "ok"
    BY <1>1, <1>3, <1>4, TransferOp
  <2> QED
    BY <1>1, <1>2, <1>4, <2>1
<1>6. k \in Nat /\ k >= 1 /\ h.got + k <= h.size
  BY <1>1, <1>3 DEF Room
<1>7. PICK R : Outstanding = R \cup {h} /\ Outstanding' = R \cup {o} /\ Apart(R, {o})
  BY <1>head, <1>2, <1>5, FinishFacts DEF IInv
<1>8. \A t : t # h.who => Writes(t)' = Writes(t)
  BY <1>5, <1>7 DEF Writes
<1>9. Writes(h.who)' = {o}
  BY <1>5, <1>7 DEF Writes, Apart
<1>10. \A t : t # h.who => Continues(t)
  BY <1>8 DEF Continues, Same
<1> QED
  BY <1>1, <1>2, <1>3, <1>5, <1>6, <1>9, <1>10 DEF Sends

(* The handler of a write runs.                                            *)
LEMMA EndStep ==
    ASSUME IInv, RunHandler \/ HandlerThrows, Head(ready).kind = "write"
    PROVE  /\ UNCHANGED <<out, wrote>>
           /\ \E u : Ends(u) /\ \A t : t # u => Continues(t)
<1>head. PICK h, R : h = Head(ready) /\ R = Waiting \cup ToSet(Tail(ready))
  OBVIOUS
<1>1. /\ ready # <<>> /\ UNCHANGED <<out, wrote>>
      /\ \E closing \in BOOLEAN :
            /\ Release(h.who, closing, Tail(ready))
            /\ ~closing => h.res = "ok" /\ ~NeedsMore(h)
  <2>1. CASE HandlerThrows
    BY <1>head, <2>1 DEF HandlerThrows, outVars
  <2>2. CASE RunHandler
    BY <1>head, <2>2 DEF RunHandler
  <2> QED
    BY <2>1, <2>2
<1>2. PICK closing \in BOOLEAN :
            /\ Release(h.who, closing, Tail(ready))
            /\ ~closing => h.res = "ok" /\ ~NeedsMore(h)
  BY <1>1
<1>3. /\ Queues(op_queue, Tail(ready)) /\ Outstanding = R \cup {h} /\ Apart(R, {h})
      /\ h \in Ops /\ h.got \in Nat /\ h.size \in Nat
  BY <1>head, <1>1, PopFacts DEF IInv, Ops
<1>4. Carried(R, Outstanding') /\ (closing => socket' = "closed")
  BY <1>head, <1>2, <1>3, ReleaseFacts
<1>5. h.got <= h.size /\ h.kind = "write"
  BY <1>head, <1>3 DEF IInv, OpsSound, OpSound
<1>6. ~closing => h.got = h.size
  BY <1>2, <1>3, <1>5 DEF NeedsMore
<1>7. Writes(h.who) = {h}
  BY <1>3, <1>5 DEF Writes, Apart
<1>8. Writes(h.who)' = {}
  BY <1>3, <1>4 DEF Writes, Apart, Carried, Same
<1>9. Ends(h.who)
  BY <1>2, <1>4, <1>6, <1>7, <1>8 DEF Ends
<1>10. ASSUME NEW t, t # h.who PROVE Continues(t)
  <2>1. Writes(t) = {x \in R : x.kind = "write" /\ x.who = t}
    BY <1>3, <1>10 DEF Writes
  <2>2. ASSUME NEW x \in Writes(t)'
        PROVE  \E y \in Writes(t) : Same(x, y) /\ (y.res = "fail" => x.res = "fail")
    <3>1. PICK y \in R : Same(x, y) /\ (x = y \/ x.res = "fail")
      BY <1>4 DEF Carried, Writes
    <3>2. y \in Writes(t)
      BY <2>1, <3>1 DEF Same, Writes
    <3> QED
      BY <3>1, <3>2
  <2>3. ASSUME NEW y \in Writes(t) PROVE Writes(t)' # {}
    <3>1. PICK x \in Outstanding' : Same(x, y)
      BY <1>4, <2>1 DEF Carried
    <3>2. x \in Writes(t)'
      BY <2>1, <3>1 DEF Same, Writes
    <3> QED
      BY <3>2
  <2> QED
    BY <2>2, <2>3 DEF Continues
<1> QED
  BY <1>1, <1>9, <1>10

(* The kernel, the loop and the collector, seen by light thread t, where   *)
(* no close reports an error.                                              *)
LEMMA BackgroundFrame ==
    ASSUME ~CloseErrors, IInv, Background, NEW t \in Users
    PROVE  /\ UNCHANGED <<wrote, con>>
           /\ socket' \in {socket, "closed"}
           /\ at'[t] = at[t] \/ (at[t] \in Kinds /\ at'[t] = "run")
           /\ at[t] \notin Kinds => returned'[t] = returned[t]
           /\ Len(returned'[t]) >= Len(returned[t])
           /\ acked'[t] >= acked[t]
<1>1. /\ at[t] \in Kinds \cup {"idle", "run", "done", "lost"} /\ returned[t] \in Seq(Nat)
      /\ Len(returned[t]) \in Nat /\ acked[t] \in Nat
  BY LenProperties DEF IInv, Types
<1>2. CASE PeerSends \/ PeerCloses \/ Collect \/ KernelStep
  <2>1. /\ UNCHANGED <<wrote, con, at, returned, acked>> /\ socket' \in {socket, "closed"}
    <3>1. CASE PeerSends \/ PeerCloses
      BY <3>1 DEF PeerSends, PeerCloses, ownVars, opVars, inVars, outVars
    <3>2. CASE Collect
      BY <3>2, SocketTypes DEF Collect, inVars, outVars
    <3>3. CASE KernelStep
      BY <3>3 DEF KernelStep, PerformRead, PerformWrite, PerformConnect, PerformFail,
                  FinishFirst, ownVars
    <3> QED
      BY <1>2, <3>1, <3>2, <3>3
  <2> QED
    BY <1>1, <2>1
<1>3. CASE RunTransfer
  <2>1. UNCHANGED <<wrote, con, at, returned, acked>> /\ socket' = socket
    BY <1>3, SocketTypes DEF RunTransfer, ownVars, inVars, outVars
  <2> QED
    BY <1>1, <2>1
<1>4. CASE HandlerThrows
  BY <1>4 DEF HandlerThrows
<1>5. ASSUME RunConnect \/ RunHandler
      PROVE  /\ Head(ready) \in Ops /\ at[Head(ready).who] \in Kinds
             /\ Head(ready).who \in Users
  <2>1. ready # <<>>
    BY <1>5 DEF RunConnect, RunHandler
  <2>2. Head(ready) \in Ops /\ Head(ready) \in Outstanding
    BY <2>1, PopFacts DEF IInv
  <2> QED
    BY <2>2 DEF IInv, OpsSound, OpSound, Ops
<1>6. CASE RunConnect
  <2>1. /\ UNCHANGED <<wrote, con, socket, returned, acked>>
        /\ at' = [at EXCEPT ![Head(ready).who] = "run"]
    BY <1>6 DEF RunConnect, inVars, outVars
  <2> QED
    BY <1>1, <1>5, <1>6, <2>1 DEF IInv, Types
<1>7. CASE RunHandler
  <2> DEFINE op == Head(ready)
             u == op.who
  <2>1. /\ UNCHANGED <<wrote, con>> /\ socket' \in {socket, "closed"}
        /\ at' = [at EXCEPT ![u] = "run"]
        /\ returned' = returned \/ returned' = [returned EXCEPT ![u] = @ \o Received(op)]
        /\ acked' = [acked EXCEPT ![u] = @ + 1] \/ acked' = acked
    BY <1>7, SocketTypes DEF RunHandler
  <2>2. op \in Ops /\ at[u] \in Kinds /\ u \in Users
    BY <1>5, <1>7
  <2>3. Received(op) \in Seq(Nat)
    BY <2>2, ReceivedBytes
  <2> HIDE DEF op, u
  <2>4. at'[t] = at[t] \/ (at[t] \in Kinds /\ at'[t] = "run")
    BY <2>1, <2>2 DEF IInv, Types
  <2>5. returned'[t] = returned[t] \/ (t = u /\ returned'[t] = returned[t] \o Received(op))
    BY <2>1, <2>2 DEF IInv, Types
  <2>6. Len(returned[t] \o Received(op)) >= Len(returned[t])
    BY <1>1, <2>3, ConcatProperties
  <2>7. acked'[t] = acked[t] \/ acked'[t] = acked[t] + 1
    BY <2>1, <2>2 DEF IInv, Types
  <2>8. acked'[t] >= acked[t]
    BY <1>1, <2>7
  <2> QED
    BY <1>1, <2>1, <2>2, <2>4, <2>5, <2>6, <2>8
<1> QED
  BY <1>2, <1>3, <1>4, <1>6, <1>7 DEF Background, LoopStep

(* What such a step does to the writes.                                    *)
LEMMA BackgroundWrites ==
    ASSUME IInv, Background
    PROVE  \/ out' = out /\ \A t : Continues(t)
           \/ \E h, k : Sends(h, k)
           \/ out' = out /\ \E u : Ends(u) /\ \A t : t # u => Continues(t)
<1>1. CASE PeerSends \/ PeerCloses \/ Collect
  BY <1>1, KeptByOthers, KeptContinues DEF PeerSends, PeerCloses, Collect, outVars
<1>2. CASE PerformRead
  BY <1>2, KeptByReceive, KeptContinues DEF PerformRead
<1>3. CASE PerformWrite
  BY <1>3, SendStep
<1>4. CASE PerformConnect \/ RunConnect
  BY <1>4, KeptByConnect, KeptContinues DEF PerformConnect, RunConnect, outVars
<1>5. ASSUME NEW d \in {"in", "out"}, PerformFail(d) PROVE out' = out /\ \A t : Continues(t)
  BY <1>5, FailedOutcome, KeptContinues DEF PerformFail
<1>6. CASE RunTransfer
  BY <1>6, KeptByTransfer, KeptContinues DEF RunTransfer, outVars
<1>7. CASE (RunHandler \/ HandlerThrows) /\ Head(ready).kind = "write"
  BY <1>7, EndStep
<1>8. CASE (RunHandler \/ HandlerThrows) /\ Head(ready).kind # "write"
  <2>1. Kept({"write"})
    BY <1>8, KeptByHandler
  <2>2. out' = out
    BY <1>8 DEF RunHandler, HandlerThrows, outVars
  <2> QED
    BY <2>1, <2>2, KeptContinues
<1> QED
  BY <1>1, <1>2, <1>3, <1>4, <1>5, <1>6, <1>7, <1>8 DEF Background, KernelStep, LoopStep

(* Calls that write nothing.                                               *)
LEMMA CallWrites ==
    ASSUME IInv,
           \/ Accepted
           \/ \E t \in Users : \/ Connect(t) \/ ReadSome(t) \/ Close(t) \/ Return(t) \/ Fail(t)
                               \/ \E u \in Users : Share(t, u)
    PROVE  UNCHANGED <<outVars, inVars>> /\ \A t : Continues(t)
<1>1. CASE \/ Accepted
           \/ \E t \in Users : Close(t) \/ Return(t) \/ Fail(t) \/ \E u \in Users : Share(t, u)
  <2>1. Kept({"write"})
    BY <1>1, KeptByOthers
  <2> QED
    BY <1>1, <2>1, KeptContinues DEF Accepted, Close, Return, Fail, Share
<1>2. ASSUME NEW t \in Users, Connect(t) PROVE UNCHANGED <<outVars, inVars>> /\ \A u : Continues(u)
  BY <1>2, KeptByConnect, KeptContinues DEF Connect
<1>3. ASSUME NEW t \in Users, ReadSome(t) PROVE UNCHANGED <<outVars, inVars>> /\ \A u : Continues(u)
  <2>1. /\ MayCall(t) /\ StartOp(NewOp(t, "read_some", MAX_BUFF_SIZE), ready)
        /\ MAX_BUFF_SIZE \in Nat /\ UNCHANGED <<object, outVars, inVars>>
    BY <1>3, ConnectionAssumption DEF ReadSome
  <2>2. Kept({"write"})
    BY <2>1, NewOpFacts, KeptByNewOp DEF Kinds
  <2> QED
    BY <2>1, <2>2, KeptContinues
<1> QED
  BY <1>1, <1>2, <1>3

(* A string of n bytes is handed to the connection.                        *)
Begins(t, n) ==
    /\ UNCHANGED <<out, acked, inVars, socket>>
    /\ wrote' = [wrote EXCEPT ![t] = Append(@, n)]
    /\ at' = [at EXCEPT ![t] = "write"]
    /\ \A u : u # t => Continues(u)
    /\ \E o : /\ Writes(t)' = {o} /\ o.size = n /\ o.got = 0
              /\ o.res # "fail" => socket = "open"

(* A write begins: its thread has no other.                                *)
LEMMA WriteBegins ==
    ASSUME IInv, NEW t \in Users, NEW n \in Nat \ {0}, Write(t, n)
    PROVE  Begins(t, n)
<1>1. /\ MayCall(t) /\ StartOp(NewOp(t, "write", n), ready)
      /\ UNCHANGED <<out, acked, inVars>> /\ wrote' = [wrote EXCEPT ![t] = Append(@, n)]
      /\ at' = [at EXCEPT ![t] = "write"]
  BY DEF Write
<1>2. PICK o \in Ops :
         /\ o.who = t /\ o.kind = "write" /\ o.size = n /\ o.got = 0
         /\ Outstanding' = Outstanding \cup {o} /\ socket' = socket
         /\ o.res = "ok" => n = 0
         /\ o.res = "none" => socket # "closed"
  BY <1>1, NewOpFacts DEF Kinds
<1>3. \A x \in Outstanding : x.who # t
  BY <1>1, NoOpInRun DEF MayCall
<1>4. Writes(t)' = {o} /\ \A u : u # t => Writes(u)' = Writes(u)
  BY <1>2, <1>3 DEF Writes
<1>5. o.res # "fail" => socket = "open"
  BY <1>2 DEF IInv, Types, Ops
<1> QED
  BY <1>1, <1>2, <1>4, <1>5 DEF Begins, Continues, Same

(* Bytes that are sent stay sent, in both directions.                      *)
LEMMA WireGrows ==
    ASSUME IInv, [Next]_vars
    PROVE  Len(out') >= Len(out) /\ (sent' = sent \/ sent' > sent)
<1>1. sent \in Nat /\ out \in Seq(Users \X Nat \X Nat) /\ Len(out) \in Nat
  BY WireTypes DEF IInv, Types
<1>2. CASE UNCHANGED <<sent, out>>
  BY <1>1, <1>2
<1>3. CASE UserStep \/ UNCHANGED vars
  BY <1>2, <1>3 DEF UserStep, Accepted, Connect, Share, Read, ReadSome, Write, Close, CloseThrows,
                    Return, Fail, vars, peerVars, outVars
<1>4. CASE PeerSends
  BY <1>1, <1>4 DEF PeerSends, outVars
<1>5. CASE PeerCloses \/ Collect \/ LoopStep
  BY <1>2, <1>5 DEF PeerCloses, Collect, LoopStep, RunTransfer, RunHandler, HandlerThrows,
                    RunConnect, peerVars, outVars
<1>6. CASE PerformRead \/ PerformConnect \/ \E d \in {"in", "out"} : PerformFail(d)
  <2>1. CASE PerformRead
    BY <1>2, <2>1 DEF PerformRead, FinishFirst, peerVars
  <2>2. CASE PerformConnect
    BY <1>2, <2>2 DEF PerformConnect, FinishFirst, peerVars
  <2>3. ASSUME NEW d \in {"in", "out"}, PerformFail(d) PROVE UNCHANGED <<sent, out>>
    BY <2>3 DEF PerformFail, FinishFirst, peerVars
  <2> QED
    BY <1>2, <1>6, <2>1, <2>2, <2>3
<1>7. CASE PerformWrite
  <2>1. PICK h, k : Sends(h, k)
    BY <1>7, SendStep
  <2>2. PICK s : s = [i \in 1..k |-> <<h.who, Len(wrote[h.who]), h.got + i>>]
    OBVIOUS
  <2>3. out' = out \o s /\ h \in Ops /\ k \in Nat
    BY <2>1, <2>2, OutstandingOps DEF Sends, IInv
  <2>4. s \in Seq(Users \X Nat \X Nat)
    <3>1. h.who \in Users /\ h.got \in Nat /\ Len(wrote[h.who]) \in Nat
      BY <2>3, WireTypes DEF Ops, IInv
    <3>2. PICK u, m, g : u = h.who /\ m = Len(wrote[h.who]) /\ g = h.got
      OBVIOUS
    <3>3. u \in Users /\ m \in Nat /\ g \in Nat /\ s = [i \in 1..k |-> <<u, m, g + i>>]
      BY <2>2, <3>1, <3>2
    <3>4. \A i \in 1..k : g + i \in Nat
      BY <3>3
    <3>5. s \in [1..k -> Users \X Nat \X Nat]
      BY <3>3, <3>4
    <3> QED
      BY <2>3, <3>5, SeqDef
  <2>5. Len(out') >= Len(out)
    <3>1. Len(out') = Len(out) + Len(s) /\ Len(s) \in Nat
      BY <1>1, <2>3, <2>4, ConcatProperties, LenProperties
    <3> QED
      BY <1>1, <3>1
  <2> QED
    BY <1>7, <2>5 DEF PerformWrite, FinishFirst, peerVars
<1> QED
  BY <1>3, <1>4, <1>5, <1>6, <1>7 DEF Next, KernelStep

----------------------------------------------------------------------------
(* Reads.  A connection with one reader implements ByteStream, for all     *)
(* sizes of reads, and whatever the writers, the peer and the socket do    *)
(* meanwhile.                                                              *)
OneReader == Readers = {Reader}

Count == Len(returned[Reader])

(* An outstanding read owns the read buffer.  What it has received are the *)
(* bytes after those returned; or the socket is closed and it has nothing  *)
(* to receive any more.                                                    *)
Filled(op) ==
    /\ received = Count + op.got
    /\ \A k \in 1..op.got : read_buff[k] = Count + k

Refused(op) ==
    /\ socket = "closed" /\ op.got = 0
    /\ op.res = "fail" \/ (op.res = "ok" /\ op.size = 0)

ReadProgress(op) ==
    /\ op.who = Reader
    /\ Len(read_buff) = op.size
    /\ Filled(op) \/ Refused(op)

(* Bytes can be received and not returned only when a read failed halfway, *)
(* and then the socket is closed for good.                                 *)
StreamInv ==
    /\ stale = {}
    /\ Count <= received
    /\ \A k \in 1..Count : returned[Reader][k] = k
    /\ \A op \in Outstanding : op.kind \in Reads => ReadProgress(op)
    /\ (\A op \in Outstanding : op.kind \notin Reads) => received = Count \/ socket = "closed"
    /\ object = "none" => received = Count

----------------------------------------------------------------------------
(* The reader is a light thread.                                           *)
LEMMA ReaderIsUser == ASSUME OneReader PROVE Reader \in Users
BY ConnectionAssumption DEF OneReader

(* Types of what is received and returned.                                 *)
LEMMA StreamTypes ==
    ASSUME OneReader, Types
    PROVE  /\ returned[Reader] \in Seq(Nat) /\ Count \in Nat
           /\ received \in Nat /\ sent \in Nat /\ received <= sent
           /\ read_buff \in Seq(Nat) /\ Len(read_buff) \in Nat
BY ReaderIsUser, LenProperties DEF Types, Count

(* Nothing is sent at first.                                               *)
LEMMA StreamInit == ASSUME OneReader, Init PROVE StreamInv /\ Stream!Init
<1>1. returned[Reader] = <<>> /\ received = 0 /\ stale = {} /\ sent = 0
  BY ReaderIsUser DEF Init
<1>2. op_queue["in"] = <<>> /\ op_queue["out"] = <<>> /\ ready = <<>>
  BY DEF Init
<1>3. Outstanding = {}
  BY <1>2, EmptyQueue DEF Outstanding, Waiting
<1> QED
  BY <1>1, <1>3 DEF StreamInv, Count, Stream!Init

(* Steps that keep the reads.                                              *)
LEMMA ReadFrame ==
    ASSUME IInv, StreamInv, Kept(Reads), UNCHANGED <<stale, read_buff, received, returned>>
    PROVE  StreamInv'
<1>1. Count' = Count
  BY DEF Count
<1>2. ASSUME NEW x \in Outstanding', x.kind \in Reads PROVE ReadProgress(x)'
  <2>1. PICK y \in Outstanding : /\ Same(x, y)
                                 /\ x = y \/ x.res = "fail" \/ (y.res = "ok" /\ y.got < y.size)
    BY <1>2 DEF Kept
  <2>2. ReadProgress(y)
    BY <1>2, <2>1 DEF StreamInv, Same
  <2>3. CASE Filled(y)
    BY <1>1, <2>1, <2>2, <2>3 DEF ReadProgress, Filled, Same
  <2>4. CASE Refused(y)
    <3>1. ~(y.got < y.size) \/ y.res = "fail"
      BY <2>4 DEF Refused
    <3>2. x.res = y.res \/ x.res = "fail"
      BY <2>1, <2>4, <3>1 DEF Refused
    <3>3. object # "none"
      BY DEF IInv, Unborn
    <3>4. socket' = "closed"
      BY <2>4, <3>3 DEF Kept, Refused
    <3> QED
      BY <1>1, <2>1, <2>2, <2>4, <3>2, <3>4 DEF ReadProgress, Refused, Same
  <2> QED
    BY <2>2, <2>3, <2>4 DEF ReadProgress
<1>3. ASSUME \A x \in Outstanding' : x.kind \notin Reads
      PROVE  received' = Count' \/ socket' = "closed"
  <2>1. \A y \in Outstanding : y.kind \notin Reads
    BY <1>3 DEF Kept, Same
  <2>2. socket' = "closed" \/ socket' = socket \/ object = "none"
    BY DEF Kept
  <2> QED
    BY <1>1, <2>1, <2>2 DEF StreamInv
<1>4. object' = "none" => object = "none"
  BY DEF Kept
<1> QED
  BY <1>1, <1>2, <1>3, <1>4 DEF StreamInv

(* While one read is outstanding there is no other.                        *)
LEMMA OnlyRead ==
    ASSUME StreamInv, NEW R, NEW h, R \subseteq Outstanding, h \in Outstanding, h.kind \in Reads,
           Apart(R, {h})
    PROVE  \A x \in R : x.kind \notin Reads
BY DEF StreamInv, ReadProgress, Apart

(* conn:read and conn:read_some: nobody else reads, so the buffer is       *)
(* theirs.                                                                 *)
LEMMA ReadStarts ==
    ASSUME OneReader, IInv, StreamInv, NEW t \in Users,
           ReadSome(t) \/ \E n \in Sizes : Read(t, n)
    PROVE  StreamInv'
<1>1. PICK kind \in Reads, n \in Nat, always \in BOOLEAN :
         /\ MayCall(t) /\ t \in Readers /\ PrepareBuffer(n, always)
         /\ StartOp(NewOp(t, kind, n), ready)
         /\ UNCHANGED <<object, inVars>>
  BY ConnectionAssumption DEF ReadSome, Read, Reads
<1>2. t = Reader /\ kind \in Kinds
  BY <1>1 DEF OneReader, Reads, Kinds
<1>3. PICK o \in Ops :
         /\ o.who = t /\ o.kind = kind /\ o.size = n /\ o.got = 0
         /\ Outstanding' = Outstanding \cup {o} /\ socket' = socket
         /\ o.res = "ok" => n = 0
         /\ o.res = "fail" => socket = "closed"
         /\ o.res = "none" => socket # "closed"
  BY <1>1, <1>2, NewOpFacts
<1>4. \A op \in Outstanding : op.kind \notin Reads
  <2>1. \A op \in Outstanding : op.who # t
    BY <1>1, NoOpInRun DEF MayCall
  <2> QED
    BY <1>2, <2>1 DEF StreamInv, ReadProgress
<1>5. Len(read_buff') = n /\ stale' = stale
  <2>1. \A op \in Outstanding : op.kind \in Kinds /\ op.kind \notin Reads
    BY <1>4, OutstandingOps DEF IInv, Ops
  <2>2. \A op \in Outstanding : Direction(op.kind) # "in"
    BY <2>1 DEF Direction, Reads
  <2> QED
    BY <1>1, <2>2, BufferFacts, OutstandingOps DEF IInv
<1>6. received' = received /\ returned' = returned /\ Count' = Count
  BY <1>1 DEF inVars, Count
<1>7. received = Count \/ socket = "closed"
  BY <1>4 DEF StreamInv
<1>8. ReadProgress(o)'
  <2>1. CASE received = Count
    BY <1>2, <1>3, <1>5, <1>6, <2>1, StreamTypes DEF ReadProgress, Filled, IInv
  <2>2. CASE socket = "closed"
    <3>1. o.res = "fail" \/ (o.res = "ok" /\ n = 0)
      BY <1>3, <2>2 DEF Ops
    <3> QED
      BY <1>2, <1>3, <1>5, <2>2, <3>1 DEF ReadProgress, Refused
  <2> QED
    BY <1>7, <2>1, <2>2
<1>9. o.kind \in Reads
  BY <1>3
<1>10. object' # "none"
  BY <1>1 DEF MayCall, IInv, Unborn
<1> QED
  BY <1>3, <1>4, <1>5, <1>6, <1>8, <1>9, <1>10 DEF StreamInv

(* The kernel fills the buffer of the read.                                *)
LEMMA ReadTransfers ==
    ASSUME OneReader, IInv, StreamInv, PerformRead PROVE StreamInv'
<1>head. PICK h : h = Head(op_queue["in"])
  OBVIOUS
<1>1. PICK k \in 1..Min({sent - received, Room(h)}) :
         /\ read_buff' = Overwrite(read_buff, h.got, [i \in 1..k |-> received + i])
         /\ received' = received + k
         /\ FinishFirst("in", [h EXCEPT !.got = @ + k, !.res = "ok"])
  BY <1>head DEF PerformRead
<1>2. op_queue["in"] # <<>>
  BY DEF PerformRead
<1>3. /\ h \in Ops /\ h \in Outstanding /\ h.got <= h.size /\ h.res = "none"
      /\ h.kind \in Reads /\ h.got \in Nat /\ h.size \in Nat
  BY <1>head, <1>2, FirstFacts DEF Direction, Reads, Ops
<1>4. /\ received \in Nat /\ sent \in Nat /\ Count \in Nat
      /\ read_buff \in Seq(Nat) /\ Len(read_buff) \in Nat
      /\ sent - received \in Nat /\ Room(h) \in Nat
  BY <1>3, StreamTypes DEF IInv, Room
<1>5. k \in 1..Room(h) /\ k \in Nat
  <2>1. /\ Min({sent - received, Room(h)}) \in Nat
        /\ Min({sent - received, Room(h)}) <= Room(h)
    BY <1>4, MinPair
  <2> QED
    BY <1>1, <1>4, <2>1
<1>0. PICK o : o = [h EXCEPT !.got = @ + k, !.res = "ok"]
  OBVIOUS
<1>6. /\ o \in Ops /\ o.who = h.who /\ o.kind = h.kind /\ o.size = h.size
      /\ o.got = h.got + k /\ o.got <= o.size /\ o.res = "ok" /\ FinishFirst("in", o)
  BY <1>0, <1>1, <1>3, <1>5, TransferOp
<1>7. PICK R : Outstanding = R \cup {h} /\ Outstanding' = R \cup {o} /\ Apart(R, {o})
  BY <1>head, <1>2, <1>6, FinishFacts DEF IInv
<1>8. \A x \in R : x.kind \notin Reads
  <2>1. Apart(R, {h})
    BY <1>6, <1>7 DEF Apart
  <2> QED
    BY <1>3, <1>7, <2>1, OnlyRead
<1>9. /\ returned' = returned /\ stale' = stale /\ object' = object /\ Count' = Count
  BY <1>6 DEF FinishFirst, ownVars, Count
<1>10. ReadProgress(h) /\ Filled(h)
  <2>1. ReadProgress(h)
    BY <1>3 DEF StreamInv
  <2>2. ~Refused(h)
    BY <1>3 DEF Refused
  <2> QED
    BY <2>1, <2>2 DEF ReadProgress
<1>11. /\ Len(read_buff') = h.size
       /\ \A j \in 1..h.got + k : read_buff'[j] = Count + j
  <2> DEFINE bytes == [i \in 1..k |-> received + i]
  <2>1. Len(bytes) = k /\ \A i \in 1..k : bytes[i] = received + i
    BY <1>4, <1>5
  <2>2. read_buff' = [j \in 1..Len(read_buff) |->
                        IF j - h.got \in 1..Len(bytes) THEN bytes[j - h.got] ELSE read_buff[j]]
    BY <1>1 DEF Overwrite
  <2> HIDE DEF bytes
  <2>3. Len(read_buff) = h.size
    BY <1>10 DEF ReadProgress
  <2>4. ASSUME NEW j \in 1..h.got + k PROVE read_buff'[j] = Count + j
    <3>1. j \in 1..Len(read_buff)
      BY <1>3, <1>5, <1>6, <2>3
    <3>2. CASE j <= h.got
      <4>1. ~(j - h.got \in 1..k) /\ j \in 1..h.got
        BY <1>3, <1>5, <3>2
      <4> QED
        BY <1>10, <2>1, <2>2, <3>1, <4>1 DEF Filled
    <3>3. CASE ~(j <= h.got)
      <4>1. j - h.got \in 1..k
        BY <1>3, <1>5, <3>3
      <4>2. read_buff'[j] = received + (j - h.got)
        BY <2>1, <2>2, <3>1, <4>1
      <4> QED
        BY <1>3, <1>4, <1>10, <4>2 DEF Filled
    <3> QED
      BY <3>2, <3>3
  <2>5. Len(read_buff') = Len(read_buff)
    BY <1>4, <2>2
  <2> QED
    BY <2>3, <2>4, <2>5
<1>12. Filled(o)'
  BY <1>1, <1>3, <1>4, <1>5, <1>6, <1>9, <1>10, <1>11 DEF Filled
<1>13. ReadProgress(o)'
  BY <1>6, <1>10, <1>11, <1>12 DEF ReadProgress
<1>14. o.kind \in Reads
  BY <1>3, <1>6
<1>15. Count' <= received'
  BY <1>1, <1>4, <1>5, <1>9 DEF StreamInv
<1>16. object' # "none"
  BY <1>3, <1>9 DEF IInv, Unborn
<1> QED
  BY <1>7, <1>8, <1>9, <1>13, <1>14, <1>15, <1>16 DEF StreamInv

(* What a finished read hands over.                                        *)
LEMMA HandedOver ==
    ASSUME OneReader, IInv, StreamInv, NEW h \in Outstanding, h.kind \in Reads, h.res = "ok",
           ~NeedsMore(h)
    PROVE  /\ Received(h) \in Seq(Nat) /\ Len(Received(h)) = h.got
           /\ \A k \in 1..h.got : Received(h)[k] = Count + k
           /\ h.got > 0 => received = Count + h.got
           /\ received = Count + h.got \/ socket = "closed"
<1>1. h \in Ops /\ h.got \in Nat /\ h.size \in Nat /\ h.got <= h.size
  BY OutstandingOps DEF IInv, OpsSound, OpSound, Ops
<1>2. /\ read_buff \in Seq(Nat) /\ Len(read_buff) = h.size
      /\ Filled(h) \/ Refused(h)
      /\ Count \in Nat /\ received \in Nat
  BY StreamTypes DEF StreamInv, ReadProgress, IInv
<1>3. \A k \in 1..h.got : read_buff[k] = Count + k
  <2>1. CASE Filled(h)
    BY <2>1 DEF Filled
  <2>2. CASE Refused(h)
    BY <2>2 DEF Refused
  <2> QED
    BY <1>2, <2>1, <2>2
<1>4. /\ h.got > 0 => received = Count + h.got
      /\ received = Count + h.got \/ socket = "closed"
  BY <1>1, <1>2 DEF Filled, Refused
<1>5. Received(h) \in Seq(Nat) /\ Len(Received(h)) = h.got
      /\ \A k \in 1..h.got : Received(h)[k] = read_buff[k]
  <2>1. CASE h.kind = "read_some"
    <3>1. Received(h) = [k \in 1..h.got |-> IF k <= Len(read_buff) THEN read_buff[k] ELSE 0]
      BY <2>1 DEF Received, Resize
    <3>2. \A k \in 1..h.got : k <= Len(read_buff) /\ read_buff[k] \in Nat
      BY <1>1, <1>2, ElementOfSeq
    <3> QED
      BY <1>1, <3>1, <3>2
  <2>2. CASE h.kind = "read"
    <3>1. Received(h) = read_buff
      BY <2>2 DEF Received
    <3>2. h.got = h.size
      BY <1>1, <2>2 DEF NeedsMore
    <3> QED
      BY <1>2, <3>1, <3>2
  <2> QED
    BY <2>1, <2>2 DEF Reads
<1> QED
  BY <1>3, <1>4, <1>5

(* The bytes of a read behind those returned before.                       *)
LEMMA Appended ==
    ASSUME NEW r \in Seq(Nat), NEW s \in Seq(Nat), NEW c, NEW g, Len(r) = c, Len(s) = g
    PROVE  /\ r \o s \in Seq(Nat) /\ Len(r \o s) = c + g
           /\ \A k \in 1..c + g : (r \o s)[k] = IF k <= c THEN r[k] ELSE s[k - c]
BY ConcatProperties

(* The handler of a read: the reader gets the next bytes, or the socket is *)
(* closed.                                                                 *)
LEMMA ReadEnds ==
    ASSUME OneReader, IInv, StreamInv, RunHandler \/ HandlerThrows, Head(ready).kind \in Reads
    PROVE  StreamInv' /\ (Stream!Deliver \/ UNCHANGED <<sent, returned[Reader]>>)
<1>head. PICK h : h = Head(ready)
  OBVIOUS
<1> DEFINE R == Waiting \cup ToSet(Tail(ready))
<1>1. /\ ready # <<>> /\ UNCHANGED <<stale, received, sent>>
      /\ \E closing \in BOOLEAN :
            /\ Release(h.who, closing, Tail(ready))
            /\ closing => returned' = returned
            /\ ~closing => /\ h.res = "ok" /\ ~NeedsMore(h)
                           /\ returned' = [returned EXCEPT ![h.who] = @ \o Received(h)]
  <2>1. CASE HandlerThrows
    BY <1>head, <2>1 DEF HandlerThrows, inVars, buffVars, peerVars
  <2>2. CASE RunHandler
    <3>1. /\ Release(h.who, h.res # "ok", Tail(ready)) /\ ready # <<>> /\ ~NeedsMore(h)
          /\ returned' = IF h.res = "ok" THEN [returned EXCEPT ![h.who] = @ \o Received(h)]
                         ELSE returned
          /\ UNCHANGED <<stale, received, sent>>
      BY <1>head, <2>2 DEF RunHandler, peerVars, Reads
    <3> QED
      BY <3>1
  <2> QED
    BY <2>1, <2>2
<1>2. PICK closing \in BOOLEAN :
         /\ Release(h.who, closing, Tail(ready))
         /\ closing => returned' = returned
         /\ ~closing => /\ h.res = "ok" /\ ~NeedsMore(h)
                        /\ returned' = [returned EXCEPT ![h.who] = @ \o Received(h)]
  BY <1>1
<1>3. /\ Queues(op_queue, Tail(ready)) /\ Outstanding = R \cup {h} /\ Apart(R, {h})
      /\ h \in Outstanding /\ h.kind \in Reads
  BY <1>head, <1>1, PopFacts DEF IInv
<1>4. /\ Carried(R, Outstanding') /\ socket' \in {socket, "closed"}
      /\ closing => socket' = "closed"
      /\ object' \in {object, "freed"}
  BY <1>2, <1>3, ReleaseFacts
<1> HIDE DEF R
<1>5. \A x \in Outstanding' : x.kind \notin Reads
  <2>1. \A y \in R : y.kind \notin Reads
    BY <1>3, OnlyRead
  <2> QED
    BY <1>4, <2>1 DEF Carried, Same
<1>6. object' # "none"
  BY <1>3, <1>4 DEF IInv, Unborn
<1>7. h.who = Reader
  BY <1>3 DEF StreamInv, ReadProgress
<1>8. /\ returned[Reader] \in Seq(Nat) /\ Count \in Nat /\ Count = Len(returned[Reader])
      /\ received \in Nat /\ sent \in Nat /\ received <= sent
  BY StreamTypes DEF IInv, Count
<1>9. CASE closing
  <2>1. returned' = returned /\ Count' = Count /\ received' = received
    BY <1>1, <1>2, <1>9 DEF Count
  <2> QED
    BY <1>1, <1>4, <1>5, <1>6, <1>9, <2>1 DEF StreamInv
<1>10. CASE ~closing
  <2> DEFINE s == Received(h)
  <2>1. /\ s \in Seq(Nat) /\ Len(s) = h.got /\ h.got \in Nat
        /\ \A k \in 1..h.got : s[k] = Count + k
        /\ h.got > 0 => received = Count + h.got
        /\ received = Count + h.got \/ socket = "closed"
    <3>1. h.got \in Nat
      BY <1>3, OutstandingOps DEF IInv, Ops
    <3> QED
      BY <1>2, <1>3, <1>10, <3>1, HandedOver
  <2>2. returned'[Reader] = returned[Reader] \o s
    BY <1>2, <1>7, <1>10, ReaderIsUser DEF IInv, Types
  <2> HIDE DEF s
  <2>3. /\ returned'[Reader] \in Seq(Nat) /\ Len(returned'[Reader]) = Count + h.got
        /\ \A k \in 1..Count + h.got : returned'[Reader][k] =
              IF k <= Count THEN returned[Reader][k] ELSE s[k - Count]
    BY <1>8, <2>1, <2>2, Appended
  <2>4. ASSUME NEW k \in 1..Count + h.got PROVE returned'[Reader][k] = k
    <3>1. CASE k <= Count
      <4>1. k \in 1..Count
        BY <1>8, <3>1
      <4>2. returned[Reader][k] = k
        BY <4>1 DEF StreamInv
      <4> QED
        BY <2>3, <3>1, <4>2
    <3>2. CASE ~(k <= Count)
      <4>1. k - Count \in 1..h.got
        BY <1>8, <2>1, <3>2
      <4>2. s[k - Count] = Count + (k - Count)
        BY <2>1, <4>1
      <4> QED
        BY <1>8, <2>3, <3>2, <4>2
    <3> QED
      BY <3>1, <3>2
  <2>5. Count' = Count + h.got
    BY <2>3 DEF Count
  <2>6. Count + h.got <= received
    BY <1>8, <2>1 DEF StreamInv
  <2>7. StreamInv'
    <3>1. received' = Count' \/ socket' = "closed"
      BY <1>1, <1>4, <2>1, <2>5
    <3> QED
      BY <1>1, <1>5, <1>6, <2>4, <2>5, <2>6, <3>1 DEF StreamInv
  <2>8. CASE h.got = 0
    <3>1. returned'[Reader] = returned[Reader]
      <4>1. s = <<>>
        BY <2>1, <2>8, EmptySeq
      <4> QED
        BY <1>8, <2>2, <4>1, ConcatEmptySeq
    <3> QED
      BY <1>1, <2>7, <3>1
  <2>9. CASE h.got # 0
    <3> DEFINE d == returned[Reader] \o [i \in 1..h.got |-> Count + i]
    <3>1. [i \in 1..h.got |-> Count + i] = s
      BY <1>8, <2>1, SeqEqual
    <3>2. returned'[Reader] = returned[Reader] \o [i \in 1..h.got |-> Len(returned[Reader]) + i]
      BY <1>8, <2>2, <3>1
    <3>3. h.got \in 1..(sent - Len(returned[Reader]))
      BY <1>8, <2>1, <2>6, <2>9
    <3>4. Stream!Deliver
      BY <1>1, <3>2, <3>3 DEF Stream!Deliver
    <3> QED
      BY <2>7, <3>4
  <2> QED
    BY <2>8, <2>9
<1> QED
  BY <1>9, <1>10

(* Every step keeps the invariant and is a step of ByteStream or none.     *)
LEMMA StreamNext ==
    ASSUME OneReader
    PROVE  IInv /\ StreamInv /\ [Next]_vars =>
              StreamInv' /\ [Stream!Send \/ Stream!Deliver]_<<sent, returned[Reader]>>
<1> SUFFICES ASSUME IInv, StreamInv, [Next]_vars
             PROVE  /\ StreamInv'
                    /\ \/ Stream!Send \/ Stream!Deliver
                       \/ UNCHANGED <<sent, returned[Reader]>>
  OBVIOUS
<1> DEFINE Goal == /\ StreamInv'
                   /\ \/ Stream!Send \/ Stream!Deliver
                      \/ UNCHANGED <<sent, returned[Reader]>>
<1>1. ASSUME Kept(Reads), UNCHANGED <<stale, read_buff, received, returned, sent>> PROVE Goal
  BY <1>1, ReadFrame
<1> SUFFICES Goal
  OBVIOUS
<1> HIDE DEF Goal
<1>2. "connect" \notin Reads /\ "write" \notin Reads
  BY DEF Reads
<1>3. ASSUME \/ Accepted \/ PeerCloses \/ Collect \/ UNCHANGED vars
             \/ \E t \in Users : \/ Close(t) \/ CloseThrows(t) \/ Return(t) \/ Fail(t)
                                 \/ \E u \in Users : Share(t, u)
      PROVE  Goal
  <2>1. UNCHANGED <<stale, read_buff, received, returned, sent>>
    BY <1>3 DEF Accepted, PeerCloses, Collect, vars, Close, CloseThrows, Return, Fail, Share,
                buffVars, inVars, peerVars
  <2>2. Kept(Reads)
    BY <1>3, KeptByOthers
  <2> QED
    BY <1>1, <2>1, <2>2
<1>4. ASSUME PerformConnect \/ RunConnect \/ \E t \in Users : Connect(t) PROVE Goal
  <2>1. UNCHANGED <<stale, read_buff, received, returned, sent>>
    BY <1>4 DEF PerformConnect, RunConnect, Connect, FinishFirst, buffVars, inVars, peerVars
  <2>2. Kept(Reads)
    BY <1>2, <1>4, KeptByConnect
  <2> QED
    BY <1>1, <2>1, <2>2
<1>5. CASE PeerSends
  <2>1. StreamInv'
    <3>1. Kept(Reads)
      BY <1>5, KeptByOthers
    <3> QED
      BY <1>5, <3>1, ReadFrame DEF PeerSends, buffVars, inVars
  <2>2. sent \in Nat /\ sent' = sent + 1 /\ returned' = returned
    BY <1>5 DEF PeerSends, inVars, IInv, Types
  <2>3. Stream!Send
    BY <2>2 DEF Stream!Send
  <2> QED
    BY <2>1, <2>3 DEF Goal
<1>6. ASSUME NEW t \in Users, ReadSome(t) \/ \E n \in Sizes : Read(t, n) PROVE Goal
  <2>1. StreamInv'
    BY <1>6, ReadStarts
  <2>2. UNCHANGED <<sent, returned>>
    BY <1>6 DEF ReadSome, Read, peerVars, inVars
  <2> QED
    BY <2>1, <2>2 DEF Goal
<1>7. ASSUME NEW t \in Users, NEW n \in Lengths, Write(t, n) PROVE Goal
  <2>1. /\ MayCall(t) /\ StartOp(NewOp(t, "write", n), ready) /\ object' = object
        /\ UNCHANGED <<stale, read_buff, received, returned, sent>>
    BY <1>7 DEF Write, buffVars, inVars, peerVars
  <2>2. n \in Nat /\ "write" \in Kinds
    BY ConnectionAssumption DEF Kinds
  <2>3. Kept(Reads)
    BY <1>2, <2>1, <2>2, NewOpFacts, KeptByNewOp
  <2> QED
    BY <1>1, <2>1, <2>3
<1>8. CASE PerformRead
  <2>1. StreamInv'
    BY <1>8, ReadTransfers
  <2>2. UNCHANGED <<sent, returned>>
    BY <1>8 DEF PerformRead, FinishFirst, peerVars
  <2> QED
    BY <2>1, <2>2 DEF Goal
<1>9. CASE PerformWrite
  <2> DEFINE h == Head(op_queue["out"])
  <2>1. PICK k \in 1..Room(h) : FinishFirst("out", [h EXCEPT !.got = @ + k, !.res = "ok"])
    BY <1>9 DEF PerformWrite
  <2>2. op_queue["out"] # <<>> /\ h.kind = "write" /\ UNCHANGED <<read_buff, received>>
    BY <1>9 DEF PerformWrite
  <2>3. h \in Ops /\ h.got <= h.size
    BY <2>2, FirstFacts
  <2> DEFINE o == [h EXCEPT !.got = @ + k, !.res = "ok"]
  <2>4. o \in Ops /\ o.who = h.who /\ o.kind = h.kind /\ o.res = "ok" /\ FinishFirst("out", o)
    BY <2>1, <2>3, TransferOp
  <2> HIDE DEF o
  <2>5. PICK R : Outstanding = R \cup {h} /\ Outstanding' = R \cup {o}
    BY <2>2, <2>4, FinishFacts DEF IInv
  <2>6. /\ socket' = socket /\ object' = object
        /\ UNCHANGED <<stale, returned, sent>>
    BY <2>4 DEF FinishFirst, ownVars, peerVars
  <2> HIDE DEF h
  <2>7. Kept(Reads)
    BY <1>2, <2>2, <2>4, <2>5, <2>6, KeptByOutcome
  <2> QED
    BY <1>1, <2>2, <2>6, <2>7
<1>10. ASSUME NEW d \in {"in", "out"}, PerformFail(d) PROVE Goal
  <2>1. UNCHANGED <<stale, read_buff, received, returned, sent>>
    BY <1>10 DEF PerformFail, FinishFirst, peerVars
  <2>2. Kept(Reads)
    BY <1>10, FailedOutcome
  <2> QED
    BY <1>1, <2>1, <2>2
<1>11. CASE RunTransfer
  <2>1. UNCHANGED <<stale, read_buff, received, returned, sent>>
    BY <1>11 DEF RunTransfer, buffVars, inVars, peerVars
  <2>2. Kept(Reads)
    BY <1>11, KeptByTransfer
  <2> QED
    BY <1>1, <2>1, <2>2
<1>12. CASE (RunHandler \/ HandlerThrows) /\ Head(ready).kind \in Reads
  BY <1>12, ReadEnds DEF Goal
<1>13. CASE (RunHandler \/ HandlerThrows) /\ Head(ready).kind \notin Reads
  <2>1. UNCHANGED <<stale, read_buff, received, returned, sent>>
    BY <1>13 DEF RunHandler, HandlerThrows, buffVars, inVars, peerVars, Reads
  <2>2. Kept(Reads)
    BY <1>13, KeptByHandler
  <2> QED
    BY <1>1, <2>1, <2>2
<1> QED
  BY <1>3, <1>4, <1>5, <1>6, <1>7, <1>8, <1>9, <1>10, <1>11, <1>12, <1>13
     DEF Next, UserStep, KernelStep, LoopStep

(* With one reader a connection implements ByteStream: what its reads      *)
(* return, of any sizes and however the transfers were cut, are the bytes  *)
(* the peer sent, each once and in order.  One outstanding read at a time  *)
(* owns read_buff; two would write into one another's (luaAsio.cpp:139,    *)
(* 158).                                                                   *)
THEOREM ReadsAreAStream == ASSUME OneReader PROVE Spec => ImplementsStream
<1>1. Init => StreamInv /\ Stream!Init
  BY StreamInit
<1>2. IInv /\ StreamInv /\ [Next]_vars =>
         StreamInv' /\ [Stream!Send \/ Stream!Deliver]_<<sent, returned[Reader]>>
  BY StreamNext
<1> QED
  BY <1>1, <1>2, ConnectionInvariant, PTL DEF Spec, ImplementsStream, Stream!Spec
=============================================================================
