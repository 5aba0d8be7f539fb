-------------------------- MODULE EventLoopProofs --------------------------
(***************************************************************************)
(* The safety properties of the event loop, for every set of light         *)
(* threads and servers, every assignment of ports and every capacity of    *)
(* the queue.                                                              *)
(*                                                                         *)
(* They hold only together.  An operation stays addressed to the thread    *)
(* that started it because that thread stays parked, the thread stays      *)
(* parked because no event for it is on its way while the operation is     *)
(* outstanding, and the events on their way are those of one handler only, *)
(* because asio_get runs the io_context only when the queue is empty.      *)
(* IInv is the conjunction of these facts; it is inductive.                *)
(***************************************************************************)
EXTENDS EventLoop, ThreadTableProofs

(* Exactly the coroutines that are not at rest are in the table.           *)
Registered == DOMAIN th_to_id = {t \in Threads : at[t] # "none"}

(* The stack holds different light threads, and all of them are active.    *)
StackSound ==
    /\ \A i \in 1..Len(stack) : at[stack[i]] = "active"
    /\ \A i, j \in 1..Len(stack) : stack[i] = stack[j] => i = j

(* _evt_disp has an event to act on exactly when asio_get returned one.    *)
EvtSound == evt # <<>> <=> main = "disp"

(* Whose an operation is, and where its owner is meanwhile.                *)
Owned(op) ==
    IF op.kind = "accept"
    THEN /\ op.who \in Servers
         /\ svr[op.who] # "none"
         /\ op.res = "aborted" => svr[op.who] = "deleted"
    ELSE /\ op.who \in Threads
         /\ at[op.who] = op.kind
         /\ op.dest_id = th_to_id[op.who]
         /\ op.kind = "sleep" => op.res \in {"none", "ok"}

OpsOwned == \A op \in Outstanding : Owned(op)

(* The outcome of a queued handler is known.                               *)
ReadyDone == \A i \in 1..Len(ready) : ready[i].res # "none"

EventOwned ==
    AnyEvent => FirstEvent.who \in IF FirstEvent.type = "ACCEPT" THEN Servers ELSE Threads

IInv ==
    /\ TypeOK /\ TableInv
    /\ Registered /\ StackSound
    /\ EvtSound /\ EventOwned /\ EventFits
    /\ OpsOwned /\ ReadyDone /\ SingleWakeup /\ NoLostWakeup /\ AcceptArmed

----------------------------------------------------------------------------
(* A light thread at a kind of operation is parked; no other place is.     *)
LEMMA KindFacts ==
    /\ \A k \in Kinds : k \notin {"none", "active", "dead", "accept", "read_some_err"}
    /\ Kinds \subseteq Parked /\ Parked \subseteq Places
    /\ \A p \in Parked : p \notin {"none", "active", "dead"}
BY LoopAssumption DEF AllKinds, Parked, Places

(* Handlers that are queued: different owners, seen as a set.              *)
LEMMA QueueOp ==
    ASSUME ready \in Seq(Ops), NEW o \in Ops, ready' = Append(ready, o),
           \A i, j \in 1..Len(ready) : ready[i].who = ready[j].who => i = j,
           \A r \in ReadyOps : r.who # o.who
    PROVE  /\ ready' \in Seq(Ops)
           /\ ReadyOps' = ReadyOps \cup {o}
           /\ \A i, j \in 1..Len(ready') : ready'[i].who = ready'[j].who => i = j
<1>1. /\ ready' \in Seq(Ops)
      /\ Len(ready) \in Nat /\ Len(ready') = Len(ready) + 1
      /\ \A i \in 1..Len(ready) : ready'[i] = ready[i]
      /\ ready'[Len(ready) + 1] = o
  BY AppendProperties, LenProperties
<1>2. ReadyOps' = ReadyOps \cup {o}
  BY <1>1 DEF ReadyOps
<1>3. ASSUME NEW i \in 1..Len(ready'), NEW j \in 1..Len(ready'),
             ready'[i].who = ready'[j].who
      PROVE  i = j
  <2>1. \A k \in 1..Len(ready) : ready[k].who # o.who
    BY DEF ReadyOps
  <2> QED
    BY <1>1, <1>3, <2>1
<1> QED
  BY <1>1, <1>2, <1>3

(* do_run_one takes the first operation off the queue.                     *)
LEMMA DequeueOp ==
    ASSUME ready \in Seq(Ops), ready # <<>>, ready' = Tail(ready),
           \A i, j \in 1..Len(ready) : ready[i].who = ready[j].who => i = j
    PROVE  /\ ready' \in Seq(Ops)
           /\ Head(ready) \in ReadyOps /\ Head(ready) \in Ops
           /\ ReadyOps = ReadyOps' \cup {Head(ready)}
           /\ \A r \in ReadyOps' : r.who # Head(ready).who
           /\ \A i, j \in 1..Len(ready') : ready'[i].who = ready'[j].who => i = j
<1>1. /\ ready' \in Seq(Ops)
      /\ Len(ready) \in Nat \ {0} /\ Len(ready') = Len(ready) - 1
      /\ \A i \in 1..Len(ready') : ready'[i] = ready[i + 1]
      /\ Head(ready) = ready[1]
  BY HeadTailProperties, EmptySeq
<1>2. \A i \in 1..Len(ready') : i + 1 \in 1..Len(ready) /\ i + 1 # 1
  BY <1>1
<1>3. Head(ready) \in ReadyOps /\ Head(ready) \in Ops
  BY <1>1 DEF ReadyOps
<1>4. ReadyOps' \subseteq ReadyOps
  BY <1>1, <1>2 DEF ReadyOps
<1>5. ASSUME NEW r \in ReadyOps, r # Head(ready)
      PROVE  r \in ReadyOps'
  <2>1. PICK i \in 1..Len(ready) : r = ready[i]
    BY DEF ReadyOps
  <2>2. i - 1 \in 1..Len(ready') /\ (i - 1) + 1 = i
    BY <1>1, <1>5, <2>1
  <2>3. ready'[i - 1] = r
    BY <1>1, <2>1, <2>2
  <2> QED
    BY <2>2, <2>3 DEF ReadyOps
<1>6. \A r \in ReadyOps' : r.who # Head(ready).who
  BY <1>1, <1>2 DEF ReadyOps
<1>7. \A i, j \in 1..Len(ready') : ready'[i].who = ready'[j].who => i = j
  BY <1>1, <1>2
<1> QED
  BY <1>1, <1>3, <1>4, <1>5, <1>6, <1>7

----------------------------------------------------------------------------
(* Before run is called nothing is queued, waiting or running.             *)
LEMMA InitIInv == Init => IInv
<1> SUFFICES ASSUME Init PROVE IInv
  OBVIOUS
<1>1. /\ DOMAIN th_to_id = {} /\ TableInv
      /\ pending = {} /\ ready = <<>> /\ stopped = FALSE /\ ReadyOps = {}
  BY InitInv DEF Init, TableInit, IoInit, ReadyOps
<1>2. /\ at = [t \in Threads |-> "none"] /\ stack = <<>> /\ main = "chunk"
      /\ loop \in Loops /\ g_evt_queue = <<>> /\ evt = <<>>
      /\ svr = [s \in Servers |-> "none"] /\ DOMAIN handler_tbl = {}
  BY DEF Init
<1>3. TypeOK
  <2>1. TableType /\ pending \subseteq Ops /\ ready \in Seq(Ops)
    BY <1>1 DEF TableInv
  <2>4. stopped \in BOOLEAN
    BY Zenon DEF Init, IoInit
  <2>2. at \in [Threads -> Places] /\ stack \in Seq(Threads) /\ main \in MainPlaces
    BY <1>2 DEF Places, MainPlaces
  <2>3. /\ g_evt_queue \in Seq(Events) /\ evt \in Seq(Events)
        /\ svr \in [Servers -> {"none", "open", "deleted"}]
    BY <1>2
  <2> QED
    BY <1>2, <2>1, <2>2, <2>3, <2>4 DEF TypeOK
<1>4. Registered /\ StackSound
  BY <1>1, <1>2 DEF Registered, StackSound
<1>5. EvtSound /\ EventOwned /\ EventFits
  BY <1>2 DEF EvtSound, EventOwned, EventFits, AnyEvent
<1>6. OpsOwned /\ ReadyDone /\ SingleWakeup
  BY <1>1 DEF OpsOwned, ReadyDone, SingleWakeup, Outstanding
<1>7. NoLostWakeup /\ AcceptArmed
  BY <1>2, KindFacts DEF NoLostWakeup, AcceptArmed
<1> QED
  BY <1>1, <1>3, <1>4, <1>5, <1>6, <1>7 DEF IInv

(* Steps that only move the main coroutine, or set the stopped flag.       *)
LEMMA MoveStep ==
    ASSUME IInv, main' \in MainPlaces, loop' \in Loops, stopped' \in BOOLEAN,
           main' = "disp" <=> main = "disp",
           UNCHANGED <<threadVars, queueVars, tableVars, pending, ready, serverVars>>
    PROVE  IInv'
<1>1. TypeOK'
  BY DEF IInv, TypeOK, TableType, threadVars, queueVars, tableVars, serverVars
<1>2. TableInv'
  BY StutterInv DEF IInv
<1>3. (Registered /\ StackSound /\ EvtSound)'
  BY DEF IInv, Registered, StackSound, EvtSound, threadVars, queueVars, tableVars
<1>4. (EventOwned /\ EventFits)'
  BY DEF IInv, EventOwned, EventFits, AnyEvent, FirstEvent, OtherEvents, threadVars,
         queueVars, tableVars
<1>5. (OpsOwned /\ ReadyDone /\ SingleWakeup /\ NoLostWakeup /\ AcceptArmed)'
  BY DEF IInv, OpsOwned, ReadyDone, Owned, SingleWakeup, NoLostWakeup, AcceptArmed, Outstanding,
         ReadyOps, AnyEvent, FirstEvent, threadVars, queueVars, tableVars, serverVars
<1> QED
  BY <1>1, <1>2, <1>3, <1>4, <1>5 DEF IInv

----------------------------------------------------------------------------
(* Only a parked thread is resumed with something.                         *)
LEMMA ResultFacts ==
    ASSUME NEW p, NEW src, NEW data, <<p, src, data>> \in Results
    PROVE  p \notin {"none", "active", "dead"}
BY DEF Results

(* The steps of user code move one light thread, which is not parked; what *)
(* is outstanding or on its way belongs to others and is left alone.       *)
LEMMA ThreadStep ==
    ASSUME IInv, TableInv', NEW t \in Threads, at[t] \in {"none", "active"}, NEW p,
           at' = [at EXCEPT ![t] = p],
           \A x \in DOMAIN th_to_id \ {t} :
              x \in DOMAIN th_to_id' /\ th_to_id'[x] = th_to_id[x],
           UNCHANGED <<queueVars, serverVars>>
    PROVE  /\ (EventOwned /\ EventFits)'
           /\ AnyEvent => FirstEvent.who # t
           /\ AnyEvent' = AnyEvent /\ FirstEvent' = FirstEvent
           /\ \A op \in Outstanding : Owned(op)' /\ op.who # t
<1>1. /\ \A x \in Threads \ {t} : at'[x] = at[x]
      /\ AnyEvent' = AnyEvent /\ FirstEvent' = FirstEvent /\ OtherEvents' = OtherEvents
      /\ svr' = svr
  BY DEF IInv, TypeOK, AnyEvent, FirstEvent, OtherEvents, queueVars, serverVars
<1>2. EventOwned'
  BY <1>1 DEF IInv, EventOwned
<1>3. AnyEvent => FirstEvent.who # t
  <2>1. SUFFICES ASSUME AnyEvent, FirstEvent.who = t
                 PROVE  FALSE
    OBVIOUS
  <2>2. FirstEvent.type # "ACCEPT"
    BY <2>1, LoopAssumption DEF IInv, EventOwned
  <2>3. <<at[t], FirstEvent.source, FirstEvent.data>> \in Results
    BY <2>1, <2>2 DEF IInv, EventFits
  <2> QED
    BY <2>3, ResultFacts
<1>4. EventFits'
  <2>1. SUFFICES ASSUME AnyEvent, FirstEvent.type # "ACCEPT"
                 PROVE  /\ FirstEvent.dest_id \in DOMAIN th_tbl'
                        /\ th_tbl'[FirstEvent.dest_id] = FirstEvent.who
                        /\ at'[FirstEvent.who] = at[FirstEvent.who]
    BY <1>1 DEF IInv, EventFits
  <2>2. /\ FirstEvent.dest_id \in DOMAIN th_tbl
        /\ th_tbl[FirstEvent.dest_id] = FirstEvent.who
    BY <2>1 DEF IInv, EventFits
  <2>3. FirstEvent.who \in DOMAIN th_to_id \ {t} /\ th_to_id[FirstEvent.who] = FirstEvent.dest_id
    BY <1>3, <2>1, <2>2 DEF IInv, TableInv, TwoWay
  <2>4. FirstEvent.who \in Threads
    BY <2>1 DEF IInv, EventOwned
  <2> QED
    BY <1>1, <2>3, <2>4 DEF TableInv, TwoWay
<1>5. ASSUME NEW op \in Outstanding
      PROVE  Owned(op)' /\ op.who # t
  <2>1. Owned(op) /\ op \in Ops
    BY DEF IInv, OpsOwned, TypeOK, Outstanding, ReadyOps
  <2>2. CASE op.kind = "accept"
    BY <1>1, <2>1, <2>2, LoopAssumption DEF Owned
  <2>3. CASE op.kind # "accept"
    <3>1. op.kind \in Kinds
      BY <2>1, <2>3 DEF Ops
    <3>2. op.who # t /\ op.who \in Threads /\ at[op.who] # "none"
      BY <2>1, <2>3, <3>1, KindFacts DEF Owned
    <3>3. op.who \in DOMAIN th_to_id
      BY <3>2 DEF IInv, Registered
    <3> QED
      BY <1>1, <2>1, <2>3, <3>2, <3>3 DEF Owned
  <2> QED
    BY <2>2, <2>3
<1> QED
  BY <1>1, <1>2, <1>3, <1>4, <1>5

(* What holds of the light thread that runs.                               *)
LEMMA RunningFacts ==
    ASSUME IInv, NEW t \in Threads, Running(t)
    PROVE  at[t] = "active" /\ t \in DOMAIN th_to_id
<1>1. Len(stack) \in Nat \ {0} /\ stack[Len(stack)] = t
  BY EmptySeq DEF IInv, TypeOK, Running
<1> QED
  BY <1>1 DEF IInv, StackSound, Registered

(* The innermost light thread leaves the stack.                            *)
LEMMA LeaveFacts ==
    ASSUME IInv, NEW t \in Threads, Running(t), Leave, NEW p, at' = [at EXCEPT ![t] = p]
    PROVE  /\ stack' \in Seq(Threads) /\ StackSound'
           /\ main' \in MainPlaces /\ loop' = loop /\ UNCHANGED queueVars
           /\ EvtSound'
<1>1. /\ Len(stack) \in Nat \ {0} /\ stack[Len(stack)] = t
      /\ stack \in Seq(Threads) /\ stack # <<>>
  BY EmptySeq DEF IInv, TypeOK, Running
<1>2. stack' = SubSeq(stack, 1, Len(stack) - 1)
  BY DEF Leave
<1>3. /\ stack' \in Seq(Threads)
      /\ Len(stack') = Len(stack) - 1
      /\ \A i \in 1..(Len(stack) - 1) : stack'[i] = stack[i]
  BY <1>1, <1>2, PopLast, Zenon
<1>4. \A i \in 1..Len(stack') : i \in 1..Len(stack) /\ i # Len(stack) /\ stack'[i] = stack[i]
  BY <1>1, <1>3
<1>5. ASSUME NEW i \in 1..Len(stack')
      PROVE  at'[stack'[i]] = "active"
  <2>1. stack[i] # t /\ stack[i] \in Threads /\ at[stack[i]] = "active"
    BY <1>1, <1>4 DEF IInv, StackSound
  <2> QED
    BY <1>4, <2>1 DEF IInv, TypeOK
<1>6. StackSound'
  BY <1>4, <1>5 DEF IInv, StackSound
<1>7. main' \in MainPlaces /\ (main' = "disp" <=> main = "disp")
  BY DEF Leave, AfterDispatch, MainPlaces, IInv, TypeOK
<1>8. loop' = loop /\ UNCHANGED queueVars
  BY DEF Leave
<1>9. EvtSound'
  BY <1>7, <1>8 DEF IInv, EvtSound, queueVars
<1> QED
  BY <1>3, <1>6, <1>7, <1>8, <1>9

(* spawn_light_thread.                                                     *)
LEMMA SpawnStep ==
    ASSUME IInv, NEW t \in Threads, Spawn(t)
    PROVE  IInv'
<1>1. /\ at[t] = "none" /\ CreateTh(t) /\ at' = [at EXCEPT ![t] = "active"]
      /\ stack' = Append(stack, t)
      /\ UNCHANGED <<loopVars, queueVars, ioVars, serverVars>>
  BY DEF Spawn
<1>2. TableInv'
  BY <1>1, CreateKeepsInv DEF IInv
<1>3. /\ DOMAIN th_to_id' = DOMAIN th_to_id \cup {t}
      /\ \A x \in DOMAIN th_to_id \ {t} : th_to_id'[x] = th_to_id[x]
  BY <1>1 DEF CreateTh, UseTid
<1>4. /\ (EventOwned /\ EventFits)'
      /\ AnyEvent' = AnyEvent /\ FirstEvent' = FirstEvent
      /\ \A op \in Outstanding : Owned(op)'
  BY <1>1, <1>2, <1>3, ThreadStep
<1>5. Outstanding' = Outstanding /\ pending' = pending /\ ready' = ready /\ svr' = svr
  BY <1>1 DEF Outstanding, ReadyOps, ioVars, serverVars
<1>6. stack' \in Seq(Threads) /\ StackSound'
  <2>1. /\ stack' \in Seq(Threads)
        /\ Len(stack) \in Nat /\ Len(stack') = Len(stack) + 1
        /\ \A i \in 1..Len(stack) : stack'[i] = stack[i]
        /\ stack'[Len(stack) + 1] = t
    BY <1>1, AppendProperties, LenProperties DEF IInv, TypeOK
  <2>2. \A i \in 1..Len(stack) : /\ stack[i] # t /\ stack[i] \in Threads
                                /\ at[stack[i]] = "active"
    BY <1>1, ElementOfSeq DEF IInv, TypeOK, StackSound
  <2>3. \A i \in 1..Len(stack') : i \in 1..Len(stack) \/ i = Len(stack) + 1
    BY <2>1
  <2>4. \A i \in 1..Len(stack') : at'[stack'[i]] = "active"
    BY <1>1, <2>1, <2>2, <2>3 DEF IInv, TypeOK
  <2>5. \A i, j \in 1..Len(stack') : stack'[i] = stack'[j] => i = j
    BY <2>1, <2>2, <2>3 DEF IInv, StackSound
  <2> QED
    BY <2>1, <2>4, <2>5 DEF StackSound
<1>7. TypeOK'
  BY <1>1, <1>2, <1>6 DEF IInv, TypeOK, TableInv, Places, loopVars, queueVars, ioVars,
                          serverVars
<1>8. Registered'
  BY <1>1, <1>3 DEF IInv, Registered, TypeOK
<1>9. EvtSound'
  BY <1>1 DEF IInv, EvtSound, loopVars, queueVars
<1>10. (OpsOwned /\ ReadyDone /\ SingleWakeup /\ AcceptArmed)'
  BY <1>4, <1>5 DEF IInv, OpsOwned, ReadyDone, SingleWakeup, AcceptArmed
<1>11. NoLostWakeup'
  BY <1>1, <1>4, <1>5, KindFacts DEF IInv, NoLostWakeup, TypeOK
<1> QED
  BY <1>2, <1>4, <1>6, <1>7, <1>8, <1>9, <1>10, <1>11 DEF IInv

(* A light thread that ends, with or without an error.                     *)
LEMMA EndStep ==
    ASSUME IInv, NEW t \in Threads, Return(t) \/ Fail(t)
    PROVE  IInv'
<1>1. /\ Running(t) /\ Leave /\ UNCHANGED <<ioVars, serverVars>>
      /\ at' = [at EXCEPT ![t] = "none"] \/ at' = [at EXCEPT ![t] = "dead"]
  BY DEF Return, Fail
<1>2. at[t] = "active" /\ t \in DOMAIN th_to_id
  BY <1>1, RunningFacts
<1>3. PICK p \in {"none", "dead"} : at' = [at EXCEPT ![t] = p]
  BY <1>1
<1>4. /\ stack' \in Seq(Threads) /\ StackSound'
      /\ main' \in MainPlaces /\ loop' = loop /\ UNCHANGED queueVars
      /\ EvtSound'
  BY <1>1, <1>3, LeaveFacts
<1>5. /\ TableInv' /\ Registered'
      /\ \A x \in DOMAIN th_to_id \ {t} :
            x \in DOMAIN th_to_id' /\ th_to_id'[x] = th_to_id[x]
  <2>1. CASE Return(t)
    <3>1. RemoveTh(th_to_id[t]) /\ th_tbl[th_to_id[t]] = t
      BY <1>2, <2>1 DEF Return, IInv, TableInv, TwoWay
    <3>2. /\ DOMAIN th_to_id' = DOMAIN th_to_id \ {t}
          /\ \A x \in DOMAIN th_to_id \ {t} : th_to_id'[x] = th_to_id[x]
      BY <3>1 DEF RemoveTh
    <3>3. Registered'
      BY <2>1, <3>2 DEF Return, IInv, Registered, TypeOK
    <3> QED
      BY <3>1, <3>2, <3>3, RemoveKeepsInv DEF IInv
  <2>2. CASE Fail(t)
    <3>1. UNCHANGED tableVars
      BY <2>2 DEF Fail
    <3>2. Registered'
      BY <1>2, <2>2, <3>1 DEF Fail, IInv, Registered, TypeOK, tableVars
    <3> QED
      BY <3>1, <3>2, StutterInv DEF IInv, tableVars
  <2> QED
    BY <2>1, <2>2
<1>6. /\ (EventOwned /\ EventFits)'
      /\ AnyEvent' = AnyEvent /\ FirstEvent' = FirstEvent
      /\ \A op \in Outstanding : Owned(op)'
  BY <1>1, <1>2, <1>3, <1>4, <1>5, ThreadStep
<1>7. Outstanding' = Outstanding /\ pending' = pending /\ ready' = ready /\ svr' = svr
  BY <1>1 DEF Outstanding, ReadyOps, ioVars, serverVars
<1>8. TypeOK'
  BY <1>1, <1>3, <1>4, <1>5 DEF IInv, TypeOK, TableInv, Places, queueVars, ioVars, serverVars
<1>9. (OpsOwned /\ ReadyDone /\ SingleWakeup /\ AcceptArmed)'
  BY <1>6, <1>7 DEF IInv, OpsOwned, ReadyDone, SingleWakeup, AcceptArmed
<1>10. NoLostWakeup'
  BY <1>3, <1>6, <1>7, KindFacts DEF IInv, NoLostWakeup, TypeOK
<1> QED
  BY <1>4, <1>5, <1>6, <1>8, <1>9, <1>10 DEF IInv

(* Each operation of a light thread is a Call.                             *)
LEMMA OperateCalls ==
    ASSUME NEW t \in Threads, Operate(t)
    PROVE  \E kind \in Kinds, n \in 1..MaxTransfers : Call(t, kind, n)
<1>1. 1 \in 1..MaxTransfers
  BY LoopAssumption
<1>2. \A kind, n : Call(t, kind, n) => kind \in Kinds
  BY DEF Call
<1> QED
  BY <1>1, <1>2, Zenon DEF Operate, Connect, Read, ReadSome, Write, Sleep

(* A light thread starts an operation and parks.                           *)
LEMMA CallStep ==
    ASSUME IInv, NEW t \in Threads, NEW kind \in Kinds, NEW n \in 1..MaxTransfers,
           Call(t, kind, n)
    PROVE  IInv'
<1>0. PICK o : o = OpOf(t, kind, n)
  OBVIOUS
<1>1. /\ Running(t) /\ Leave /\ pending' = pending \cup {o}
      /\ at' = [at EXCEPT ![t] = kind]
      /\ UNCHANGED <<ready, stopped, tableVars, serverVars>>
  BY <1>0 DEF Call, StartOp
<1>2. at[t] = "active" /\ t \in DOMAIN th_to_id
  BY <1>1, RunningFacts
<1>3. /\ stack' \in Seq(Threads) /\ StackSound'
      /\ main' \in MainPlaces /\ loop' = loop /\ UNCHANGED queueVars
      /\ EvtSound'
  BY <1>1, LeaveFacts
<1>4. TableInv'
  BY <1>1, StutterInv DEF IInv
<1>5. /\ (EventOwned /\ EventFits)'
      /\ AnyEvent => FirstEvent.who # t
      /\ AnyEvent' = AnyEvent /\ FirstEvent' = FirstEvent
      /\ \A op \in Outstanding : Owned(op)' /\ op.who # t
  <2>1. \A x \in DOMAIN th_to_id \ {t} :
           x \in DOMAIN th_to_id' /\ th_to_id'[x] = th_to_id[x]
    BY <1>1 DEF tableVars
  <2> QED
    BY <1>1, <1>2, <1>3, <1>4, <2>1, ThreadStep
<1>6. /\ o \in Ops /\ o.who = t /\ o.kind = kind /\ o.dest_id = th_to_id[t]
      /\ o.res = "none"
  <2>1. th_to_id[t] \in Nat
    BY <1>2 DEF IInv, TableInv, TableType, Tids
  <2>2. 1 \in 1..MaxTransfers
    BY LoopAssumption
  <2> QED
    BY <1>0, <2>1, <2>2 DEF OpOf, Ops
<1>7. Outstanding' = Outstanding \cup {o} /\ ReadyOps' = ReadyOps
  BY <1>1 DEF Outstanding, ReadyOps
<1>8. TypeOK'
  BY <1>1, <1>3, <1>4, <1>6, KindFacts
     DEF IInv, TypeOK, TableInv, queueVars, tableVars, serverVars
<1>9. Registered'
  BY <1>1, <1>2, KindFacts DEF IInv, Registered, TypeOK, tableVars
<1>10. OpsOwned'
  <2>1. Owned(o)'
    BY <1>1, <1>6, KindFacts DEF Owned, IInv, TypeOK, tableVars
  <2> QED
    BY <1>5, <1>7, <2>1 DEF OpsOwned
<1>11. SingleWakeup'
  <2>1. /\ \A i, j \in 1..Len(ready') : ready'[i].who = ready'[j].who => i = j
        /\ \A i \in 1..Len(ready) : ready[i] \in Outstanding
    BY <1>1 DEF IInv, SingleWakeup, Outstanding, ReadyOps
  <2>2. ASSUME NEW op \in pending'
        PROVE  /\ \A op2 \in pending' : op.who = op2.who => op = op2
               /\ \A i \in 1..Len(ready') : ready'[i].who # op.who
    BY <1>1, <1>5, <1>6, <2>1, <2>2 DEF IInv, SingleWakeup, Outstanding
  <2>3. \A op \in Outstanding' :
           op.who \in Threads /\ AnyEvent' => FirstEvent'.who # op.who
    BY <1>5, <1>6, <1>7 DEF IInv, SingleWakeup
  <2> QED
    BY <2>1, <2>2, <2>3 DEF SingleWakeup
<1>12. NoLostWakeup'
  BY <1>1, <1>5, <1>6, <1>7 DEF IInv, NoLostWakeup, TypeOK
<1>13. (ReadyDone /\ AcceptArmed)'
  BY <1>1, <1>7 DEF IInv, ReadyDone, AcceptArmed, serverVars
<1> QED
  BY <1>3, <1>4, <1>5, <1>8, <1>9, <1>10, <1>11, <1>12, <1>13 DEF IInv

----------------------------------------------------------------------------
(* Steps that leave the threads, the table and the events alone: what they *)
(* do to the operations decides.                                           *)
LEMMA OpStep ==
    ASSUME IInv, main' \in MainPlaces, main' = "disp" <=> main = "disp",
           pending' \subseteq Ops, ready' \in Seq(Ops), stopped' \in BOOLEAN,
           svr' \in [Servers -> {"none", "open", "deleted"}],
           DOMAIN handler_tbl' \subseteq Nat,
           \A p \in DOMAIN handler_tbl' : handler_tbl'[p] \in Servers,
           UNCHANGED <<loop, threadVars, queueVars, tableVars>>,
           OpsOwned', ReadyDone', SingleWakeup', NoLostWakeup', AcceptArmed'
    PROVE  IInv'
<1>1. TypeOK'
  BY DEF IInv, TypeOK, TableType, threadVars, queueVars, tableVars
<1>2. TableInv'
  BY StutterInv DEF IInv
<1>3. (Registered /\ StackSound /\ EvtSound)'
  BY DEF IInv, Registered, StackSound, EvtSound, threadVars, queueVars, tableVars
<1>4. (EventOwned /\ EventFits)'
  BY DEF IInv, EventOwned, EventFits, AnyEvent, FirstEvent, OtherEvents, threadVars,
         queueVars, tableVars
<1> QED
  BY <1>1, <1>2, <1>3, <1>4 DEF IInv

(* asio.server.                                                            *)
LEMMA ListenStep ==
    ASSUME IInv, NEW s \in Servers, Listen(s) \/ ListenFails(s)
    PROVE  IInv'
<1>1. /\ svr[s] = "none" /\ \E given \in BOOLEAN : SetHandler(s, given)
      /\ UNCHANGED <<ready, stopped, tableVars, threadVars, loopVars, queueVars>>
  BY DEF Listen, ListenFails, ioVars
<1>2. Port[s] \in Nat /\ 1 \in 1..MaxTransfers /\ s \notin Threads
  BY LoopAssumption
<1>3. /\ DOMAIN handler_tbl' \subseteq Nat
      /\ \A p \in DOMAIN handler_tbl' : handler_tbl'[p] \in Servers
  BY <1>1, <1>2 DEF SetHandler, IInv, TypeOK
<1>4. /\ AnyEvent' = AnyEvent /\ FirstEvent' = FirstEvent /\ ReadyOps' = ReadyOps
      /\ at' = at /\ th_to_id' = th_to_id /\ ReadyDone'
  BY <1>1 DEF AnyEvent, FirstEvent, ReadyOps, queueVars, threadVars, tableVars, IInv, ReadyDone
<1>5. \A op \in Outstanding : op.who # s
  <2>1. SUFFICES ASSUME NEW op \in Outstanding, op.who = s PROVE FALSE
    OBVIOUS
  <2> QED
    BY <1>1, <1>2, <2>1 DEF IInv, OpsOwned, Owned
<1>6. CASE ListenFails(s)
  <2>1. pending' = pending /\ svr' = svr /\ Outstanding' = Outstanding
    BY <1>4, <1>6 DEF ListenFails, ioVars, Outstanding
  <2>2. (OpsOwned /\ SingleWakeup /\ NoLostWakeup /\ AcceptArmed)'
    BY <1>1, <1>4, <2>1 DEF IInv, OpsOwned, Owned, SingleWakeup, NoLostWakeup, AcceptArmed
  <2> QED
    BY <1>1, <1>3, <1>4, <2>1, <2>2, OpStep DEF IInv, TypeOK, loopVars
<1>7. CASE Listen(s)
  <2> DEFINE o == AcceptOp(s)
  <2>1. pending' = pending \cup {o} /\ svr' = [svr EXCEPT ![s] = "open"]
    BY <1>7 DEF Listen, StartOp
  <2>2. o \in Ops /\ o.who = s /\ o.kind = "accept" /\ o.res = "none"
    BY <1>2 DEF AcceptOp, Ops
  <2>3. Outstanding' = Outstanding \cup {o}
    BY <1>4, <2>1 DEF Outstanding
  <2>4. OpsOwned'
    <3>1. ASSUME NEW op \in Outstanding PROVE Owned(op)'
      <4>1. Owned(op) /\ op.who # s
        BY <1>5 DEF IInv, OpsOwned
      <4> QED
        BY <1>4, <2>1, <4>1 DEF Owned, IInv, TypeOK
    <3>2. Owned(o)'
      BY <2>1, <2>2 DEF Owned, IInv, TypeOK
    <3> QED
      BY <2>3, <3>1, <3>2 DEF OpsOwned
  <2>5. SingleWakeup'
    <3>1. /\ \A i, j \in 1..Len(ready') : ready'[i].who = ready'[j].who => i = j
          /\ \A i \in 1..Len(ready) : ready[i] \in Outstanding
      BY <1>1 DEF IInv, SingleWakeup, Outstanding, ReadyOps
    <3>2. ASSUME NEW op \in pending'
          PROVE  /\ \A op2 \in pending' : op.who = op2.who => op = op2
                 /\ \A i \in 1..Len(ready') : ready'[i].who # op.who
      BY <1>1, <1>5, <2>1, <2>2, <3>1, <3>2 DEF IInv, SingleWakeup, Outstanding
    <3>3. \A op \in Outstanding' :
             op.who \in Threads /\ AnyEvent' => FirstEvent'.who # op.who
      BY <1>2, <1>4, <2>2, <2>3 DEF IInv, SingleWakeup
    <3> QED
      BY <3>1, <3>2, <3>3 DEF SingleWakeup
  <2>6. NoLostWakeup'
    BY <1>4, <2>3 DEF IInv, NoLostWakeup
  <2>7. AcceptArmed'
    BY <2>1, <2>2, <2>3 DEF IInv, AcceptArmed, TypeOK
  <2>8. /\ pending' \subseteq Ops
        /\ svr' \in [Servers -> {"none", "open", "deleted"}]
    BY <2>1, <2>2 DEF IInv, TypeOK
  <2> QED
    BY <1>1, <1>3, <1>4, <2>4, <2>5, <2>6, <2>7, <2>8, OpStep DEF IInv, TypeOK, loopVars
<1> QED
  BY <1>6, <1>7

(* A pending operation finishes.                                           *)
LEMMA FinishFacts ==
    ASSUME IInv, NEW op \in pending, NEW res \in Outcomes,
           NEW o, o = WithResult(op, res),
           pending' = pending \ {op}, ready' = Append(ready, o), UNCHANGED queueVars
    PROVE  /\ o.who = op.who /\ o.kind = op.kind /\ o.dest_id = op.dest_id /\ o.res = res
           /\ pending' \subseteq Ops /\ ready' \in Seq(Ops)
           /\ Outstanding' = (Outstanding \ {op}) \cup {o}
           /\ SingleWakeup' /\ ReadyDone'
<1>2. /\ op \in Ops /\ o \in Ops
      /\ o.who = op.who /\ o.kind = op.kind /\ o.dest_id = op.dest_id /\ o.res = res
  <2>1. op \in Ops
    BY DEF IInv, TypeOK
  <2> QED
    BY <2>1 DEF Ops, WithResult
<1>3. /\ ready \in Seq(Ops) /\ pending' \subseteq Ops
      /\ \A i, j \in 1..Len(ready) : ready[i].who = ready[j].who => i = j
      /\ \A r \in ReadyOps : r.who # op.who
      /\ \A x \in pending' : x.who # op.who
  BY DEF IInv, TypeOK, SingleWakeup, ReadyOps
<1>4. /\ ready' \in Seq(Ops)
      /\ ReadyOps' = ReadyOps \cup {o}
      /\ \A i, j \in 1..Len(ready') : ready'[i].who = ready'[j].who => i = j
  BY <1>2, <1>3, QueueOp
<1>5. op \notin ReadyOps
  BY <1>3
<1>6. Outstanding' = (Outstanding \ {op}) \cup {o}
  BY <1>4, <1>5 DEF Outstanding
<1>8. SingleWakeup'
  <2>1. AnyEvent' = AnyEvent /\ FirstEvent' = FirstEvent
    BY DEF AnyEvent, FirstEvent, queueVars
  <2>2. \A x \in pending' : \A r \in ReadyOps' : r.who # x.who
    <3>1. \A x \in pending' : \A r \in ReadyOps : r.who # x.who
      BY DEF IInv, SingleWakeup, ReadyOps
    <3> QED
      BY <1>2, <1>3, <1>4, <3>1
  <2>3. \A x \in pending' : \A i \in 1..Len(ready') : ready'[i].who # x.who
    BY <2>2 DEF ReadyOps
  <2>4. \A x, y \in pending' : x.who = y.who => x = y
    BY DEF IInv, SingleWakeup
  <2>5. op \in Outstanding
    BY DEF Outstanding
  <2>6. \A x \in Outstanding' :
           x.who \in Threads /\ AnyEvent' => FirstEvent'.who # x.who
    BY <1>2, <1>6, <2>1, <2>5 DEF IInv, SingleWakeup
  <2> QED
    BY <1>4, <2>3, <2>4, <2>6 DEF SingleWakeup
<1>9. ReadyDone'
  <2>1. /\ Len(ready) \in Nat /\ Len(ready') = Len(ready) + 1
        /\ \A i \in 1..Len(ready) : ready'[i] = ready[i]
        /\ ready'[Len(ready) + 1] = o
    BY <1>2, <1>3, AppendProperties, LenProperties
  <2> QED
    BY <1>2, <2>1 DEF IInv, ReadyDone, Outcomes
<1> QED
  BY <1>2, <1>3, <1>4, <1>6, <1>8, <1>9

(* The kernel finishes an operation.                                       *)
LEMMA KernelFinishStep ==
    ASSUME IInv, NEW op \in pending, Finish(op)
    PROVE  IInv'
<1>1. UNCHANGED <<tableVars, threadVars, loopVars, queueVars, serverVars>>
  BY DEF Finish
<1>2. PICK res \in {"ok", "fail"} : FinishOp(op, res) /\ (op.kind = "sleep" => res = "ok")
  BY DEF Finish
<1>3. /\ pending' = pending \ {op} /\ ready' = Append(ready, WithResult(op, res))
      /\ stopped' = stopped
  BY <1>2 DEF FinishOp
<1> PICK o : o = WithResult(op, res)
  OBVIOUS
<1>4. /\ o.who = op.who /\ o.kind = op.kind /\ o.dest_id = op.dest_id /\ o.res = res
      /\ pending' \subseteq Ops /\ ready' \in Seq(Ops)
      /\ Outstanding' = (Outstanding \ {op}) \cup {o}
      /\ SingleWakeup' /\ ReadyDone'
  BY <1>1, <1>3, FinishFacts DEF Outcomes
<1>5. /\ AnyEvent' = AnyEvent /\ FirstEvent' = FirstEvent /\ svr' = svr
      /\ at' = at /\ th_to_id' = th_to_id /\ handler_tbl' = handler_tbl
  BY <1>1 DEF AnyEvent, FirstEvent, queueVars, threadVars, tableVars, serverVars
<1>6. op \in Outstanding
  BY DEF Outstanding
<1>7. OpsOwned'
  <2>1. \A x \in Outstanding : Owned(x)
    BY DEF IInv, OpsOwned
  <2>2. \A x \in Outstanding \cup {o} : Owned(x)'
    BY <1>2, <1>4, <1>5, <1>6, <2>1 DEF Owned
  <2> QED
    BY <1>4, <2>2 DEF OpsOwned
<1>8. NoLostWakeup'
  BY <1>4, <1>5, <1>6 DEF IInv, NoLostWakeup
<1>9. AcceptArmed'
  BY <1>4, <1>5, <1>6 DEF IInv, AcceptArmed
<1> QED
  BY <1>1, <1>3, <1>4, <1>5, <1>7, <1>8, <1>9, OpStep DEF IInv, TypeOK, loopVars

(* A server is deleted.                                                    *)
LEMMA DeleteServerStep ==
    ASSUME IInv, NEW s \in Servers, DeleteServer(s)
    PROVE  IInv'
<1>1. /\ svr[s] = "open" /\ svr' = [svr EXCEPT ![s] = "deleted"] /\ CloseDescriptor(s)
      /\ UNCHANGED <<stopped, handler_tbl, tableVars, threadVars, loopVars, queueVars>>
  BY DEF DeleteServer
<1>2. /\ AnyEvent' = AnyEvent /\ FirstEvent' = FirstEvent
      /\ at' = at /\ th_to_id' = th_to_id
  BY <1>1 DEF AnyEvent, FirstEvent, queueVars, threadVars, tableVars
<1>3. svr' \in [Servers -> {"none", "open", "deleted"}]
  BY <1>1 DEF IInv, TypeOK
<1>4. ASSUME NEW x \in Outstanding PROVE Owned(x)'
  <2>1. Owned(x)
    BY DEF IInv, OpsOwned
  <2> QED
    BY <1>1, <1>2, <2>1 DEF Owned, IInv, TypeOK
<1>5. CASE \A op \in pending : op.who # s
  <2>1. pending' = pending /\ ready' = ready
    BY <1>1, <1>5 DEF CloseDescriptor
  <2>2. Outstanding' = Outstanding
    BY <2>1 DEF Outstanding, ReadyOps
  <2>3. (OpsOwned /\ ReadyDone /\ SingleWakeup /\ NoLostWakeup)'
    BY <1>2, <1>4, <2>1, <2>2 DEF IInv, OpsOwned, ReadyDone, SingleWakeup, NoLostWakeup
  <2>4. AcceptArmed'
    BY <1>1, <2>2 DEF IInv, AcceptArmed, TypeOK
  <2> QED
    BY <1>1, <1>3, <2>1, <2>3, <2>4, OpStep DEF IInv, TypeOK, loopVars
<1>6. CASE \E op \in pending : op.who = s
  <2>1. PICK op \in pending : /\ op.who = s
                             /\ ready' = Append(ready, WithResult(op, "aborted"))
    BY <1>1, <1>6 DEF CloseDescriptor
  <2>2. pending' = pending \ {op}
    BY <1>1, <2>1 DEF CloseDescriptor, IInv, SingleWakeup
  <2> PICK o : o = WithResult(op, "aborted")
    OBVIOUS
  <2>3. /\ o.who = s /\ o.kind = op.kind /\ o.dest_id = op.dest_id /\ o.res = "aborted"
        /\ pending' \subseteq Ops /\ ready' \in Seq(Ops)
        /\ Outstanding' = (Outstanding \ {op}) \cup {o}
        /\ SingleWakeup' /\ ReadyDone'
    BY <1>1, <2>1, <2>2, FinishFacts DEF Outcomes
  <2>4. op.kind = "accept" /\ op \in Outstanding
    BY <2>1, LoopAssumption DEF Outstanding, IInv, OpsOwned, Owned
  <2>5. OpsOwned'
    <3>1. Owned(o)'
      BY <1>1, <2>3, <2>4 DEF Owned, IInv, TypeOK
    <3> QED
      BY <1>4, <2>3, <3>1 DEF OpsOwned
  <2>6. NoLostWakeup'
    BY <1>2, <2>1, <2>3, LoopAssumption DEF IInv, NoLostWakeup
  <2>7. AcceptArmed'
    BY <1>1, <2>1, <2>3 DEF IInv, AcceptArmed, TypeOK
  <2> QED
    BY <1>1, <1>3, <2>3, <2>5, <2>6, <2>7, OpStep DEF IInv, TypeOK, loopVars
<1> QED
  BY <1>5, <1>6

----------------------------------------------------------------------------
(* asio_get runs the io_context only when no event is on its way.          *)
LEMMA NoEventAtGet ==
    ASSUME IInv, MayRun
    PROVE  main = "get" /\ evt = <<>> /\ g_evt_queue = <<>> /\ ~AnyEvent
BY DEF IInv, MayRun, EvtSound, AnyEvent

(* run_one takes the first handler off the queue.                          *)
LEMMA DequeueFacts ==
    ASSUME IInv, ready # <<>>, ready' = Tail(ready), NEW h, h = Head(ready)
    PROVE  /\ h \in Ops /\ Owned(h) /\ h.res # "none"
           /\ ready' \in Seq(Ops) /\ ReadyDone'
           /\ Outstanding = pending \cup ReadyOps' \cup {h}
           /\ \A x \in pending \cup ReadyOps' : x.who # h.who
           /\ \A i, j \in 1..Len(ready') : ready'[i].who = ready'[j].who => i = j
           /\ \A x \in pending, r \in ReadyOps' : r.who # x.who
<1>1. /\ ready \in Seq(Ops)
      /\ \A i, j \in 1..Len(ready) : ready[i].who = ready[j].who => i = j
  BY DEF IInv, TypeOK, SingleWakeup
<1>2. /\ ready' \in Seq(Ops)
      /\ h \in ReadyOps /\ h \in Ops
      /\ ReadyOps = ReadyOps' \cup {h}
      /\ \A r \in ReadyOps' : r.who # h.who
      /\ \A i, j \in 1..Len(ready') : ready'[i].who = ready'[j].who => i = j
  BY <1>1, DequeueOp
<1>3. Outstanding = pending \cup ReadyOps' \cup {h}
  BY <1>2 DEF Outstanding
<1>4. \A x \in pending, r \in ReadyOps : r.who # x.who
  BY DEF IInv, SingleWakeup, ReadyOps
<1>5. Owned(h)
  BY <1>3 DEF IInv, OpsOwned
<1>6. \A r \in ReadyOps : r.res # "none"
  BY DEF IInv, ReadyDone, ReadyOps
<1>7. ReadyDone'
  BY <1>2, <1>6 DEF ReadyDone, ReadyOps
<1> QED
  BY <1>2, <1>3, <1>4, <1>5, <1>6, <1>7

(* What a handler makes of the operations: h is gone, and the set next of  *)
(* operations it started, if any, belongs to the same owner.               *)
LEMMA RunFacts ==
    ASSUME IInv, NEW next, RunFirst(next), NEW h, h = Head(ready),
           \A x \in next : x \in Ops /\ x.who = h.who,
           \A x, y \in next : x = y
    PROVE  /\ h \in Ops /\ Owned(h) /\ h.res # "none"
           /\ pending' \subseteq Ops /\ ready' \in Seq(Ops) /\ stopped' \in BOOLEAN
           /\ ReadyDone'
           /\ \A x \in Outstanding : x = h \/ (x \in Outstanding' /\ x.who # h.who)
           /\ \A x \in Outstanding' :
                 x \in next \/ (x \in Outstanding /\ x.who # h.who)
           /\ next \subseteq Outstanding'
           /\ \A i, j \in 1..Len(ready') : ready'[i].who = ready'[j].who => i = j
           /\ \A x \in pending' :
                 /\ \A y \in pending' : x.who = y.who => x = y
                 /\ \A i \in 1..Len(ready') : ready'[i].who # x.who
           /\ h \in Outstanding
<1>1. ready # <<>> /\ ready' = Tail(ready) /\ pending' = pending \cup next
  BY DEF RunFirst
<1>2. stopped' \in BOOLEAN
  BY DEF RunFirst
<1>3. /\ h \in Ops /\ Owned(h) /\ h.res # "none"
      /\ ready' \in Seq(Ops) /\ ReadyDone'
      /\ Outstanding = pending \cup ReadyOps' \cup {h}
      /\ \A x \in pending \cup ReadyOps' : x.who # h.who
      /\ \A i, j \in 1..Len(ready') : ready'[i].who = ready'[j].who => i = j
      /\ \A x \in pending, r \in ReadyOps' : r.who # x.who
  BY <1>1, DequeueFacts
<1>4. pending' \subseteq Ops
  BY <1>1 DEF IInv, TypeOK
<1>5. Outstanding' = pending \cup next \cup ReadyOps'
  BY <1>1 DEF Outstanding
<1>6. \A x, y \in pending : x.who = y.who => x = y
  BY DEF IInv, SingleWakeup
<1>7. \A x, y \in pending' : x.who = y.who => x = y
  BY <1>1, <1>3, <1>6
<1>8. \A x \in pending' : \A r \in ReadyOps' : r.who # x.who
  BY <1>1, <1>3
<1>9. \A x \in pending' : \A i \in 1..Len(ready') : ready'[i].who # x.who
  BY <1>8 DEF ReadyOps
<1> QED
  BY <1>2, <1>3, <1>4, <1>5, <1>7, <1>9

(* A composed operation continues.                                         *)
LEMMA RunTransferStep ==
    ASSUME IInv, RunTransfer
    PROVE  IInv'
<1>1. PICK h : h = Head(ready)
  OBVIOUS
<1>2. PICK n : n = NextTransfer(h)
  OBVIOUS
<1>3. /\ MayRun /\ ready # <<>> /\ h.kind # "accept" /\ h.res = "ok" /\ h.left > 1
      /\ RunFirst({n}) /\ main' = "pop"
      /\ UNCHANGED <<loop, threadVars, queueVars, tableVars, serverVars>>
  BY <1>1, <1>2 DEF RunTransfer
<1>4. h \in Ops
  BY <1>1, <1>3, HeadTailProperties DEF IInv, TypeOK
<1>5. /\ n \in Ops /\ n.who = h.who /\ n.kind = h.kind /\ n.dest_id = h.dest_id
      /\ n.res = "none"
  <2>1. h.left - 1 \in 1..MaxTransfers
    BY <1>3, <1>4, LoopAssumption DEF Ops
  <2>2. n = [h EXCEPT !.left = h.left - 1, !.res = "none"]
    BY <1>2 DEF NextTransfer
  <2> QED
    BY <1>4, <2>1, <2>2 DEF Ops
<1>6. /\ Owned(h)
      /\ pending' \subseteq Ops /\ ready' \in Seq(Ops) /\ stopped' \in BOOLEAN
      /\ ReadyDone'
      /\ \A x \in Outstanding : x = h \/ (x \in Outstanding' /\ x.who # h.who)
      /\ \A x \in Outstanding' : x = n \/ (x \in Outstanding /\ x.who # h.who)
      /\ n \in Outstanding'
      /\ \A i, j \in 1..Len(ready') : ready'[i].who = ready'[j].who => i = j
      /\ \A x \in pending' :
            /\ \A y \in pending' : x.who = y.who => x = y
            /\ \A i \in 1..Len(ready') : ready'[i].who # x.who
  BY <1>1, <1>3, <1>5, RunFacts
<1>7. /\ ~AnyEvent /\ ~AnyEvent' /\ main = "get"
      /\ at' = at /\ svr' = svr /\ th_to_id' = th_to_id /\ handler_tbl' = handler_tbl
  BY <1>3, NoEventAtGet DEF AnyEvent, queueVars, threadVars, tableVars, serverVars
<1>8. OpsOwned'
  <2>1. Owned(n)'
    BY <1>3, <1>5, <1>6, <1>7 DEF Owned
  <2>2. ASSUME NEW x \in Outstanding PROVE Owned(x)'
    BY <1>7 DEF IInv, OpsOwned, Owned
  <2> QED
    BY <1>6, <2>1, <2>2 DEF OpsOwned
<1>9. SingleWakeup'
  BY <1>6, <1>7 DEF SingleWakeup
<1>10. NoLostWakeup'
  BY <1>5, <1>6, <1>7 DEF IInv, NoLostWakeup
<1>11. AcceptArmed'
  BY <1>5, <1>6, <1>7 DEF IInv, AcceptArmed
<1> QED
  BY <1>3, <1>6, <1>7, <1>8, <1>9, <1>10, <1>11, OpStep DEF IInv, TypeOK, MainPlaces

(* push_event drops nothing when the queue was empty.                      *)
LEMMA PushFacts ==
    /\ \A e : PushEvent(<<>>, e) = <<e>> /\ PushEvents(<<>>, <<e>>) = <<e>>
    /\ \A e, f : PushEvents(<<>>, <<e, f>>) = <<e, f>>
<1>1. ASSUME NEW e PROVE PushEvent(<<>>, e) = <<e>>
  <2>1. Append(<<>>, e) = <<e>> /\ Len(<<e>>) = 1 /\ ~(1 > MAX_EVT_MSG)
    BY LoopAssumption
  <2> QED
    BY <2>1 DEF PushEvent
<1>2. ASSUME NEW e, NEW f PROVE PushEvent(<<e>>, f) = <<e, f>>
  <2>1. Append(<<e>>, f) = <<e, f>>
    <3>1. <<e>> \in Seq({e, f}) /\ <<e, f>> \in Seq({e, f}) /\ f \in {e, f}
      OBVIOUS
    <3>2. /\ Append(<<e>>, f) \in Seq({e, f})
          /\ Len(Append(<<e>>, f)) = 2 /\ Len(<<e, f>>) = 2
          /\ \A i \in 1..2 : Append(<<e>>, f)[i] = <<e, f>>[i]
      BY <3>1, AppendProperties
    <3> QED
      BY <3>1, <3>2, SeqEqual, Zenon
  <2>2. Len(<<e, f>>) = 2 /\ ~(2 > MAX_EVT_MSG)
    BY LoopAssumption
  <2> QED
    BY <2>1, <2>2 DEF PushEvent
<1> QED
  BY <1>1, <1>2 DEF PushEvents

(* The events of one handler: for its owner, with a result it can take.    *)
LEMMA HandlerEventFacts ==
    ASSUME NEW op \in Ops, op.kind \in Kinds, op.who \in Threads, op.res # "none",
           op.kind = "sleep" => op.res = "ok"
    PROVE  \E e \in Events :
              /\ e.type = "CONTINUE" /\ e.who = op.who /\ e.dest_id = op.dest_id
              /\ <<op.kind, e.source, e.data>> \in Results
              /\ IF op.kind = "read_some" /\ ~e.source
                 THEN HandlerEvents(op) = <<e, Message(e)>>
                 ELSE HandlerEvents(op) = <<e>>
<1>1. op.kind \in AllKinds /\ op.dest_id \in Nat /\ op.who \in Threads \cup Servers
  BY LoopAssumption DEF Ops
<1>2. CASE op.res = "ok"
  <2>1. PICK e : e = Success(op)
    OBVIOUS
  <2>2. HandlerEvents(op) = <<e>>
    BY <1>2, <2>1 DEF HandlerEvents
  <2>3. /\ e \in Events /\ e.type = "CONTINUE" /\ e.who = op.who /\ e.dest_id = op.dest_id
        /\ e.source = (op.kind # "sleep")
        /\ e.data = IF op.kind \in {"read", "read_some"} THEN "bytes" ELSE "none"
    BY <1>1, <2>1 DEF Event, Events, Success, Message
  <2>4. <<op.kind, e.source, e.data>> \in Results
    BY <1>1, <2>3 DEF AllKinds, Results
  <2> QED
    BY <2>2, <2>3, <2>4
<1>3. CASE op.res # "ok" /\ op.kind = "read_some"
  <2>1. PICK e : e = Event("CONTINUE", op, FALSE, "bytes")
    OBVIOUS
  <2>2. /\ e \in Events /\ e.type = "CONTINUE" /\ e.who = op.who /\ e.dest_id = op.dest_id
        /\ e.source = FALSE /\ e.data = "bytes"
    BY <1>1, <2>1 DEF Event, Events, Success, Message
  <2>3. Message(e) = Message(op)
    BY <2>2 DEF Event, Message
  <2>4. HandlerEvents(op) = <<e, Message(op)>>
    BY <1>3, <2>1 DEF HandlerEvents, ReadSomeFailure
  <2>5. <<op.kind, e.source, e.data>> \in Results
    BY <1>3, <2>2 DEF Results
  <2> QED
    BY <1>3, <2>2, <2>3, <2>4, <2>5
<1>4. CASE op.res # "ok" /\ op.kind # "read_some"
  <2>1. PICK e : e = Message(op)
    OBVIOUS
  <2>2. /\ e \in Events /\ e.type = "CONTINUE" /\ e.who = op.who /\ e.dest_id = op.dest_id
        /\ e.source = FALSE /\ e.data = "message"
    BY <1>1, <2>1 DEF Event, Events, Success, Message
  <2>3. HandlerEvents(op) = <<e>>
    BY <1>4, <2>1 DEF HandlerEvents
  <2>4. op.kind \in {"connect", "read", "write"}
    BY <1>1, <1>4 DEF AllKinds
  <2>5. <<op.kind, e.source, e.data>> \in Results
    BY <2>2, <2>4 DEF Results
  <2> QED
    BY <1>4, <2>2, <2>3, <2>5
<1> QED
  BY <1>2, <1>3, <1>4

(* The handler of a light thread's operation turns it into events.         *)
LEMMA RunHandlerStep ==
    ASSUME IInv, RunHandler
    PROVE  IInv'
<1>1. PICK h : h = Head(ready)
  OBVIOUS
<1>2. /\ MayRun /\ ready # <<>> /\ h.kind # "accept"
      /\ RunFirst({}) /\ main' = "pop"
      /\ g_evt_queue' = PushEvents(g_evt_queue, HandlerEvents(h))
      /\ UNCHANGED <<loop, evt, threadVars, tableVars, serverVars>>
  BY <1>1 DEF RunHandler
<1>3. /\ h \in Ops /\ Owned(h) /\ h.res # "none"
      /\ pending' \subseteq Ops /\ ready' \in Seq(Ops) /\ stopped' \in BOOLEAN
      /\ ReadyDone'
      /\ \A x \in Outstanding : x = h \/ (x \in Outstanding' /\ x.who # h.who)
      /\ \A x \in Outstanding' : x \in Outstanding /\ x.who # h.who
      /\ \A i, j \in 1..Len(ready') : ready'[i].who = ready'[j].who => i = j
      /\ \A x \in pending' :
            /\ \A y \in pending' : x.who = y.who => x = y
            /\ \A i \in 1..Len(ready') : ready'[i].who # x.who
      /\ h \in Outstanding
  BY <1>1, <1>2, RunFacts
<1>4. main = "get" /\ evt = <<>> /\ g_evt_queue = <<>> /\ ~AnyEvent
  BY <1>2, NoEventAtGet
<1>5. /\ h.kind \in Kinds /\ h.who \in Threads /\ at[h.who] = h.kind
      /\ h.dest_id = th_to_id[h.who] /\ (h.kind = "sleep" => h.res = "ok")
  BY <1>2, <1>3 DEF Owned, Ops
<1>6. PICK e \in Events :
         /\ e.type = "CONTINUE" /\ e.who = h.who /\ e.dest_id = h.dest_id
         /\ <<h.kind, e.source, e.data>> \in Results
         /\ IF h.kind = "read_some" /\ ~e.source
            THEN HandlerEvents(h) = <<e, Message(e)>>
            ELSE HandlerEvents(h) = <<e>>
  BY <1>3, <1>5, HandlerEventFacts
<1> DEFINE m == Message(e)
<1>7. m \in Events
  BY <1>6 DEF Event, Events, Success, Message
<1>8. g_evt_queue' = IF h.kind = "read_some" /\ ~e.source THEN <<e, m>> ELSE <<e>>
  BY <1>2, <1>4, <1>6, PushFacts
<1>9. /\ g_evt_queue' \in Seq(Events) /\ evt' = <<>> /\ AnyEvent' /\ FirstEvent' = e
      /\ OtherEvents' = IF h.kind = "read_some" /\ ~e.source THEN <<m>> ELSE <<>>
  <2>1. evt' = <<>>
    BY <1>2, <1>4
  <2>2. CASE h.kind = "read_some" /\ ~e.source
    <3>1. g_evt_queue' = <<e, m>>
      BY <1>8, <2>2
    <3>2. <<e, m>> \in Seq(Events) /\ <<e, m>> # <<>> /\ <<e, m>>[1] = e /\ Tail(<<e, m>>) = <<m>>
      <4> HIDE DEF m
      <4>1. <<e, m>> \in Seq(Events) /\ <<m>> \in Seq(Events)
        BY <1>7
      <4>2. /\ Len(<<e, m>>) = 2 /\ Len(<<m>>) = 1 /\ <<e, m>>[1] = e
            /\ <<e, m>>[2] = m /\ <<m>>[1] = m /\ <<e, m>> # <<>>
        OBVIOUS
      <4>3. /\ Tail(<<e, m>>) \in Seq(Events) /\ Len(Tail(<<e, m>>)) = 1
            /\ Tail(<<e, m>>)[1] = m
        BY <4>1, <4>2, HeadTailProperties
      <4>4. Tail(<<e, m>>) = <<m>>
        BY <4>1, <4>2, <4>3, SeqEqual
      <4> QED
        BY <4>1, <4>2, <4>4
    <3> QED
      BY <2>1, <2>2, <3>1, <3>2 DEF AnyEvent, FirstEvent, OtherEvents
  <2>3. CASE ~(h.kind = "read_some" /\ ~e.source)
    <3>1. g_evt_queue' = <<e>>
      BY <1>8, <2>3
    <3>2. <<e>> \in Seq(Events) /\ <<e>> # <<>> /\ <<e>>[1] = e /\ Tail(<<e>>) = <<>>
      OBVIOUS
    <3> QED
      BY <2>1, <2>3, <3>1, <3>2 DEF AnyEvent, FirstEvent, OtherEvents
  <2> QED
    BY <2>2, <2>3
<1>10. at' = at /\ svr' = svr /\ th_to_id' = th_to_id /\ th_tbl' = th_tbl
  BY <1>2 DEF threadVars, tableVars, serverVars
<1>11. TypeOK'
  BY <1>2, <1>3, <1>9 DEF IInv, TypeOK, TableType, MainPlaces, threadVars, tableVars, serverVars
<1>12. TableInv' /\ Registered' /\ StackSound'
  BY <1>2, StutterInv DEF IInv, Registered, StackSound, threadVars, tableVars
<1>13. (EvtSound /\ EventOwned)'
  BY <1>2, <1>5, <1>6, <1>9 DEF EvtSound, EventOwned
<1>14. EventFits'
  <2>1. h.who \in DOMAIN th_to_id
    BY <1>5, KindFacts DEF IInv, Registered
  <2>2. e.dest_id \in DOMAIN th_tbl /\ th_tbl[e.dest_id] = e.who
    BY <1>5, <1>6, <2>1 DEF IInv, TableInv, TwoWay
  <2> QED
    BY <1>5, <1>6, <1>9, <1>10, <2>2 DEF EventFits, Event, Message
<1>15. OpsOwned'
  BY <1>3, <1>10 DEF IInv, OpsOwned, Owned
<1>16. SingleWakeup'
  BY <1>3, <1>6, <1>9 DEF SingleWakeup
<1>17. NoLostWakeup'
  BY <1>3, <1>4, <1>6, <1>9, <1>10 DEF IInv, NoLostWakeup
<1>18. AcceptArmed'
  BY <1>3, <1>5, <1>10, LoopAssumption DEF IInv, AcceptArmed
<1> QED
  BY <1>3, <1>11, <1>12, <1>13, <1>14, <1>15, <1>16, <1>17, <1>18 DEF IInv

(* The handler of async_accept.                                            *)
LEMMA RunAcceptStep ==
    ASSUME IInv, RunAccept
    PROVE  IInv'
<1>1. PICK h : h = Head(ready)
  OBVIOUS
<1>2. PICK next : next = IF h.res = "aborted" THEN {} ELSE {AcceptOp(h.who)}
  OBVIOUS
<1>3. PICK e : e = Event("ACCEPT", h, TRUE, "none")
  OBVIOUS
<1>4. /\ MayRun /\ ready # <<>> /\ h.kind = "accept"
      /\ h.res = "aborted" \/ svr[h.who] = "open"
      /\ RunFirst(next) /\ main' = "pop"
      /\ g_evt_queue' = IF h.res = "ok" THEN PushEvent(g_evt_queue, e) ELSE g_evt_queue
      /\ UNCHANGED <<loop, evt, threadVars, tableVars, serverVars>>
  BY <1>1, <1>2, <1>3 DEF RunAccept, AcceptsAgain
<1>5. main = "get" /\ evt = <<>> /\ g_evt_queue = <<>> /\ ~AnyEvent
  BY <1>4, NoEventAtGet
<1>6. h \in Ops /\ Owned(h)
  <2>1. h \in Outstanding
    BY <1>1, <1>4, DequeueOp DEF IInv, TypeOK, Outstanding, ReadyOps
  <2> QED
    BY <2>1 DEF IInv, TypeOK, OpsOwned, Outstanding, ReadyOps
<1>7. h.who \in Servers /\ h.who \notin Threads
      /\ (h.res = "aborted" => svr[h.who] = "deleted") /\ svr[h.who] # "none"
  BY <1>4, <1>6, LoopAssumption DEF Owned
<1>8. \A x \in next : /\ x \in Ops /\ x.who = h.who /\ x.kind = "accept" /\ x.res = "none"
  <2>1. Port[h.who] \in Nat /\ 1 \in 1..MaxTransfers
    BY <1>7, LoopAssumption
  <2> QED
    BY <1>2, <1>7, <2>1 DEF AcceptOp, Ops
<1>9. \A x, y \in next : x = y
  BY <1>2
<1>10. /\ pending' \subseteq Ops /\ ready' \in Seq(Ops) /\ stopped' \in BOOLEAN
       /\ ReadyDone'
       /\ \A x \in Outstanding : x = h \/ (x \in Outstanding' /\ x.who # h.who)
       /\ \A x \in Outstanding' : x \in next \/ (x \in Outstanding /\ x.who # h.who)
       /\ next \subseteq Outstanding'
       /\ \A i, j \in 1..Len(ready') : ready'[i].who = ready'[j].who => i = j
       /\ \A x \in pending' :
             /\ \A y \in pending' : x.who = y.who => x = y
             /\ \A i \in 1..Len(ready') : ready'[i].who # x.who
  BY <1>1, <1>4, <1>8, <1>9, RunFacts
<1>11. at' = at /\ svr' = svr /\ th_to_id' = th_to_id /\ th_tbl' = th_tbl
  BY <1>4 DEF threadVars, tableVars, serverVars
<1>12. /\ g_evt_queue' \in Seq(Events) /\ evt' = <<>>
       /\ AnyEvent' => FirstEvent'.type = "ACCEPT" /\ FirstEvent'.who \in Servers
       /\ AnyEvent' => OtherEvents' = <<>>
  <2>1. evt' = <<>>
    BY <1>4, <1>5
  <2>2. CASE h.res = "ok"
    <3>1. g_evt_queue' = <<e>>
      BY <1>4, <1>5, <2>2, PushFacts
    <3>2. e \in Events /\ e.type = "ACCEPT" /\ e.who \in Servers
      BY <1>3, <1>6, <1>7 DEF Event, Events, Success, Message, Ops
    <3>3. <<e>> \in Seq(Events) /\ <<e>>[1] = e /\ Tail(<<e>>) = <<>>
      BY <3>2
    <3> QED
      BY <2>1, <3>1, <3>2, <3>3 DEF FirstEvent, OtherEvents
  <2>3. CASE h.res # "ok"
    BY <1>4, <1>5, <2>1, <2>3 DEF AnyEvent
  <2> QED
    BY <2>2, <2>3
<1>13. TypeOK'
  BY <1>4, <1>10, <1>12 DEF IInv, TypeOK, TableType, MainPlaces, threadVars, tableVars, serverVars
<1>14. TableInv' /\ Registered' /\ StackSound'
  BY <1>4, StutterInv DEF IInv, Registered, StackSound, threadVars, tableVars
<1>15. (EvtSound /\ EventOwned /\ EventFits)'
  BY <1>4, <1>12 DEF EvtSound, EventOwned, EventFits
<1>16. OpsOwned'
  <2>1. ASSUME NEW x \in Outstanding PROVE Owned(x)'
    BY <1>11 DEF IInv, OpsOwned, Owned
  <2>2. ASSUME NEW x \in next PROVE Owned(x)'
    BY <1>7, <1>8, <1>11 DEF Owned
  <2>3. \A x \in Outstanding' : x \in next \/ x \in Outstanding
    BY <1>10
  <2> QED
    BY <2>1, <2>2, <2>3, Zenon DEF OpsOwned
<1>17. SingleWakeup'
  <2>1. \A x \in Outstanding' :
           x.who \in Threads /\ AnyEvent' => FirstEvent'.who # x.who
    BY <1>12, LoopAssumption
  <2> QED
    BY <1>10, <2>1 DEF SingleWakeup
<1>18. NoLostWakeup'
  BY <1>5, <1>7, <1>10, <1>11 DEF IInv, NoLostWakeup
<1>19. AcceptArmed'
  <2>1. SUFFICES ASSUME NEW s \in Servers, svr[s] = "open"
                 PROVE  \E x \in Outstanding' : x.who = s
    BY <1>11 DEF AcceptArmed
  <2>2. CASE s = h.who
    <3>1. AcceptOp(h.who) \in next
      BY <1>2, <1>7, <2>1, <2>2
    <3>2. AcceptOp(h.who).who = s /\ AcceptOp(h.who) \in Outstanding'
      BY <1>8, <1>10, <2>2, <3>1
    <3> QED
      BY <3>2
  <2>3. CASE s # h.who
    BY <1>10, <2>1, <2>3 DEF IInv, AcceptArmed
  <2> QED
    BY <2>2, <2>3
<1> QED
  BY <1>10, <1>13, <1>14, <1>15, <1>16, <1>17, <1>18, <1>19 DEF IInv

(* asio_get returns the first event.                                       *)
LEMMA PopEventStep ==
    ASSUME IInv, PopEvent
    PROVE  IInv'
<1>1. /\ main = "pop" /\ g_evt_queue # <<>> /\ evt' = <<Head(g_evt_queue)>>
      /\ g_evt_queue' = Tail(g_evt_queue) /\ main' = "disp"
      /\ UNCHANGED <<loop, threadVars, tableVars, ioVars, serverVars>>
  BY DEF PopEvent
<1>2. evt = <<>>
  BY <1>1 DEF IInv, EvtSound
<1>3. g_evt_queue \in Seq(Events)
  BY DEF IInv, TypeOK
<1>4. Head(g_evt_queue) = g_evt_queue[1] /\ Head(g_evt_queue) \in Events
      /\ Tail(g_evt_queue) \in Seq(Events)
  BY <1>1, <1>3, HeadTailProperties
<1>5. /\ evt' # <<>> /\ evt'[1] = Head(g_evt_queue)
      /\ evt' \in Seq(Events) /\ g_evt_queue' \in Seq(Events)
  BY <1>1, <1>4
<1>6. /\ AnyEvent' = AnyEvent /\ FirstEvent' = FirstEvent /\ OtherEvents' = OtherEvents
  BY <1>1, <1>2, <1>4, <1>5 DEF AnyEvent, FirstEvent, OtherEvents
<1>7. /\ at' = at /\ svr' = svr /\ th_to_id' = th_to_id /\ th_tbl' = th_tbl
      /\ pending' = pending /\ ready' = ready /\ Outstanding' = Outstanding
  BY <1>1 DEF threadVars, tableVars, serverVars, ioVars, Outstanding, ReadyOps
<1>8. TypeOK'
  BY <1>1, <1>5 DEF IInv, TypeOK, TableType, MainPlaces, threadVars, tableVars, serverVars, ioVars
<1>9. (TableInv /\ Registered /\ StackSound)'
  BY <1>1, StutterInv DEF IInv, Registered, StackSound, threadVars, tableVars
<1>10. EvtSound'
  BY <1>1, <1>5 DEF EvtSound
<1>11. (EventOwned /\ EventFits)'
  BY <1>6, <1>7 DEF IInv, EventOwned, EventFits
<1>12. (OpsOwned /\ ReadyDone /\ SingleWakeup /\ NoLostWakeup /\ AcceptArmed)'
  BY <1>6, <1>7 DEF IInv, OpsOwned, Owned, ReadyDone, SingleWakeup, NoLostWakeup, AcceptArmed
<1> QED
  BY <1>8, <1>9, <1>10, <1>11, <1>12 DEF IInv

(* _evt_disp acts on an event: the thread it reaches is the event's owner, *)
(* and none of its operations is outstanding.                              *)
LEMMA DispFacts ==
    ASSUME IInv, main = "disp"
    PROVE  /\ AnyEvent /\ FirstEvent = evt[1] /\ OtherEvents = g_evt_queue
           /\ evt[1] \in Events
           /\ evt[1].type # "ACCEPT" =>
                 /\ Addressee = evt[1].who /\ Addressee \in Threads
                 /\ Addressee \in DOMAIN th_to_id /\ th_to_id[Addressee] = evt[1].dest_id
                 /\ \A op \in Outstanding : op.who # Addressee
                 /\ <<at[Addressee], evt[1].source, evt[1].data>> \in Results
                 /\ g_evt_queue = IF at[Addressee] = "read_some" /\ ~evt[1].source
                                  THEN <<Message(evt[1])>>
                                  ELSE <<>>
<1>1. evt # <<>> /\ evt \in Seq(Events)
  BY DEF IInv, EvtSound, TypeOK
<1>2. AnyEvent /\ FirstEvent = evt[1] /\ OtherEvents = g_evt_queue /\ evt[1] \in Events
  BY <1>1 DEF AnyEvent, FirstEvent, OtherEvents
<1>3. SUFFICES ASSUME evt[1].type # "ACCEPT"
               PROVE  /\ Addressee = evt[1].who /\ Addressee \in Threads
                      /\ Addressee \in DOMAIN th_to_id /\ th_to_id[Addressee] = evt[1].dest_id
                      /\ \A op \in Outstanding : op.who # Addressee
                      /\ <<at[Addressee], evt[1].source, evt[1].data>> \in Results
                      /\ g_evt_queue = IF at[Addressee] = "read_some" /\ ~evt[1].source
                                       THEN <<Message(evt[1])>>
                                       ELSE <<>>
  BY <1>2
<1>4. /\ evt[1].dest_id \in DOMAIN th_tbl
      /\ Addressee = evt[1].who
      /\ <<at[Addressee], evt[1].source, evt[1].data>> \in Results
      /\ g_evt_queue = IF at[Addressee] = "read_some" /\ ~evt[1].source
                       THEN <<Message(evt[1])>>
                       ELSE <<>>
  BY <1>2, <1>3 DEF IInv, EventFits, Addressee
<1>5. Addressee \in Threads
  BY <1>2, <1>3, <1>4 DEF IInv, EventOwned
<1>6. Addressee \in DOMAIN th_to_id /\ th_to_id[Addressee] = evt[1].dest_id
  BY <1>4 DEF IInv, TableInv, TwoWay, Addressee
<1>7. \A op \in Outstanding : op.who # Addressee
  BY <1>2, <1>4, <1>5 DEF IInv, SingleWakeup
<1> QED
  BY <1>4, <1>5, <1>6, <1>7

(* _evt_disp hands the first event over, and moves at most the thread it   *)
(* is for; the events left behind, if any, are for that thread.            *)
LEMMA DispStep ==
    ASSUME IInv, main = "disp", main' \in MainPlaces, main' # "disp", evt' = <<>>,
           UNCHANGED <<loop, g_evt_queue, tableVars, ioVars, serverVars>>,
           NEW a, NEW p \in Places, p # "none",
           \A op \in Outstanding : op.who \in Threads => op.who # a,
           a = evt[1].who, a \in DOMAIN th_to_id \/ a \notin Threads,
           at' = IF a \in Threads THEN [at EXCEPT ![a] = p] ELSE at,
           stack' \in Seq(Threads), StackSound',
           a \in Threads /\ p \in Parked => g_evt_queue # <<>> /\ g_evt_queue[1].who = a,
           EventOwned', EventFits'
    PROVE  IInv'
<1>1. /\ svr' = svr /\ th_to_id' = th_to_id
      /\ pending' = pending /\ ready' = ready /\ Outstanding' = Outstanding
  BY DEF tableVars, serverVars, ioVars, Outstanding, ReadyOps
<1>2. /\ \A x \in Threads : x # a => at'[x] = at[x]
      /\ a \in Threads => at'[a] = p
      /\ at' \in [Threads -> Places]
  BY DEF IInv, TypeOK
<1>3. TypeOK'
  <2>1. evt' \in Seq(Events)
    OBVIOUS
  <2> QED
    BY <1>2, <2>1 DEF IInv, TypeOK, TableType, tableVars, serverVars, ioVars
<1>4. TableInv' /\ Registered'
  BY <1>1, <1>2, StutterInv DEF IInv, Registered
<1>5. EvtSound'
  BY DEF EvtSound
<1>6. OpsOwned'
  <2>1. ASSUME NEW op \in Outstanding PROVE Owned(op)'
    BY <1>1, <1>2 DEF IInv, OpsOwned, Owned
  <2> QED
    BY <1>1, <2>1 DEF OpsOwned
<1>7. AnyEvent /\ FirstEvent = evt[1] /\ OtherEvents = g_evt_queue
  BY DispFacts
<1>8. ReadyDone' /\ AcceptArmed'
  BY <1>1 DEF IInv, ReadyDone, AcceptArmed
<1>9. AnyEvent' <=> g_evt_queue # <<>>
  BY DEF AnyEvent
<1>10. AnyEvent' => FirstEvent' = g_evt_queue[1]
  BY <1>9 DEF FirstEvent
<1>11. AnyEvent' => FirstEvent'.who = a
  <2>1. SUFFICES ASSUME g_evt_queue # <<>> PROVE g_evt_queue[1].who = a
    BY <1>9, <1>10
  <2>2. evt[1].type # "ACCEPT"
    BY <1>7, <2>1 DEF IInv, EventFits
  <2>3. g_evt_queue = <<Message(evt[1])>>
    BY <2>1, <2>2, DispFacts
  <2> QED
    BY <2>3 DEF Event, Message
<1>12. SingleWakeup'
  BY <1>1, <1>11 DEF IInv, SingleWakeup
<1>13. NoLostWakeup'
  <2>1. SUFFICES ASSUME NEW t \in Threads, at'[t] \in Parked
                 PROVE  \/ \E op \in Outstanding : op.who = t
                        \/ AnyEvent' /\ FirstEvent'.who = t
    BY <1>1 DEF NoLostWakeup
  <2>2. CASE t = a
    BY <1>2, <1>9, <1>11, <2>1, <2>2
  <2>3. CASE t # a
    BY <1>2, <1>7, <2>1, <2>3 DEF IInv, NoLostWakeup
  <2> QED
    BY <2>2, <2>3
<1> QED
  BY <1>3, <1>4, <1>5, <1>6, <1>8, <1>12, <1>13 DEF IInv

(* The dispatcher resumes the thread an event is for.                      *)
LEMMA DispContinueStep ==
    ASSUME IInv, DispContinue
    PROVE  IInv'
<1>1. PICK a : a = Addressee
  OBVIOUS
<1>2. /\ main = "disp" /\ evt[1].type = "CONTINUE"
      /\ ~(at[a] = "read_some" /\ ~evt[1].source)
      /\ at' = [at EXCEPT ![a] = "active"] /\ stack' = <<a>>
      /\ main' = "resumed" /\ evt' = <<>>
      /\ UNCHANGED <<loop, g_evt_queue, tableVars, ioVars, serverVars>>
  BY <1>1 DEF DispContinue
<1>3. /\ a = evt[1].who /\ a \in Threads /\ a \in DOMAIN th_to_id
      /\ \A op \in Outstanding : op.who # a
      /\ g_evt_queue = <<>>
  BY <1>1, <1>2, DispFacts
<1>4. stack' \in Seq(Threads) /\ Len(stack') = 1 /\ stack'[1] = a
  BY <1>2, <1>3
<1>5. StackSound'
  <2>1. at'[a] = "active"
    BY <1>2, <1>3 DEF IInv, TypeOK
  <2> QED
    BY <1>4, <2>1 DEF StackSound
<1>6. (EventOwned /\ EventFits)'
  BY <1>2, <1>3 DEF EventOwned, EventFits, AnyEvent
<1>7. "active" \in Places /\ "active" \notin Parked
  BY KindFacts DEF Places
<1> QED
  BY <1>2, <1>3, <1>4, <1>5, <1>6, <1>7, DispStep DEF MainPlaces

(* The dispatcher meets the error event of a read_some.                    *)
LEMMA DispReadSomeErrorStep ==
    ASSUME IInv, DispReadSomeError
    PROVE  IInv'
<1>1. PICK a : a = Addressee
  OBVIOUS
<1>2. PICK m : m = Message(evt[1])
  OBVIOUS
<1>3. /\ main = "disp" /\ evt[1].type = "CONTINUE"
      /\ at[a] = "read_some" /\ ~evt[1].source
      /\ at' = [at EXCEPT ![a] = "read_some_err"] /\ stack' = stack
      /\ main' = AfterDispatch /\ evt' = <<>>
      /\ UNCHANGED <<loop, g_evt_queue, tableVars, ioVars, serverVars>>
  BY <1>1 DEF DispReadSomeError
<1>4. /\ a = evt[1].who /\ a \in Threads /\ a \in DOMAIN th_to_id
      /\ th_to_id[a] = evt[1].dest_id
      /\ \A op \in Outstanding : op.who # a
      /\ g_evt_queue = <<m>>
  BY <1>1, <1>2, <1>3, DispFacts
<1>5. /\ m.type = "CONTINUE" /\ m.who = a /\ m.dest_id = th_to_id[a]
      /\ m.source = FALSE /\ m.data = "message"
  BY <1>2, <1>4 DEF Event, Message
<1>6. g_evt_queue # <<>> /\ g_evt_queue[1] = m /\ Tail(g_evt_queue) = <<>>
  BY <1>4
<1>7. /\ at' \in [Threads -> Places \cup {"read_some_err"}] /\ at'[a] = "read_some_err"
      /\ \A x \in Threads : x # a => at'[x] = at[x]
  BY <1>3, <1>4 DEF IInv, TypeOK
<1>8. stack' \in Seq(Threads) /\ StackSound'
  <2>1. \A i \in 1..Len(stack) : at[stack[i]] = "active" /\ stack[i] \in Threads
    BY ElementOfSeq DEF IInv, TypeOK, StackSound
  <2>2. \A i \in 1..Len(stack) : at'[stack[i]] = "active"
    BY <1>3, <1>7, <2>1
  <2> QED
    BY <1>3, <2>2 DEF IInv, TypeOK, StackSound
<1>9. AnyEvent' /\ FirstEvent' = m /\ OtherEvents' = <<>>
  BY <1>3, <1>6 DEF AnyEvent, FirstEvent, OtherEvents
<1>10. EventOwned'
  BY <1>4, <1>5, <1>9 DEF EventOwned
<1>11. EventFits'
  <2>1. m.dest_id \in DOMAIN th_tbl' /\ th_tbl'[m.dest_id] = m.who
    BY <1>3, <1>4, <1>5 DEF IInv, TableInv, TwoWay, tableVars
  <2>2. <<at'[m.who], m.source, m.data>> \in Results
    BY <1>5, <1>7 DEF Results
  <2>3. at'[m.who] # "read_some"
    BY <1>5, <1>7
  <2> QED
    BY <1>5, <1>9, <2>1, <2>2, <2>3 DEF EventFits
<1>12. "read_some_err" \in Places /\ main' \in MainPlaces /\ main' # "disp"
  BY <1>3 DEF Places, Parked, MainPlaces, AfterDispatch
<1> QED
  BY <1>3, <1>4, <1>5, <1>6, <1>8, <1>10, <1>11, <1>12, DispStep

(* The dispatcher meets an accept event: the handler runs, or there is     *)
(* none.                                                                   *)
LEMMA DispAcceptStep ==
    ASSUME IInv, DispAccept \/ DispNoHandler
    PROVE  IInv'
<1>1. PICK a : a = evt[1].who
  OBVIOUS
<1>2. /\ main = "disp" /\ evt[1].type = "ACCEPT" /\ main' \in {"handler", "chunk"} /\ evt' = <<>>
      /\ UNCHANGED <<loop, g_evt_queue, threadVars, tableVars, ioVars, serverVars>>
  BY DEF DispAccept, DispNoHandler
<1>3. AnyEvent /\ FirstEvent = evt[1] /\ OtherEvents = g_evt_queue
  BY <1>2, DispFacts
<1>4. a \notin Threads /\ g_evt_queue = <<>>
  BY <1>1, <1>2, <1>3, LoopAssumption DEF IInv, EventOwned, EventFits
<1>5. stack' \in Seq(Threads) /\ StackSound' /\ at' = at
  BY <1>2 DEF IInv, TypeOK, StackSound, threadVars
<1>6. (EventOwned /\ EventFits)'
  BY <1>2, <1>4 DEF EventOwned, EventFits, AnyEvent
<1>7. "active" \in Places
  BY DEF Places
<1> QED
  BY <1>1, <1>2, <1>4, <1>5, <1>6, <1>7, DispStep DEF MainPlaces

----------------------------------------------------------------------------
(* Steps of MoveStep.                                                      *)
LEMMA MoveSteps ==
    ASSUME IInv,
           \/ GetQueued \/ GetNoWork \/ GetNothing \/ RunAcceptDeleted \/ PopNull
           \/ HandlerReturns \/ HandlerFails \/ RunContinues \/ RunReturns \/ Exit
           \/ Ended \/ UNCHANGED vars \/ \E l \in Loops : EnterLoop(l)
    PROVE  IInv'
<1>1. /\ AfterDispatch \in {"check", "chunk"} /\ stopped \in BOOLEAN
      /\ main \in MainPlaces /\ loop \in Loops
  BY DEF AfterDispatch, IInv, TypeOK
<1>2. CASE GetQueued \/ RunAcceptDeleted \/ PopNull
  BY <1>1, <1>2, MoveStep DEF GetQueued, RunAcceptDeleted, PopNull, MayRun, Goto, ioVars, MainPlaces
<1>3. CASE GetNoWork \/ GetNothing
  <2>1. stopped' \in BOOLEAN
    BY <1>3 DEF GetNoWork, GetNothing, RunWithoutWork, RunNothing
  <2> QED
    BY <1>1, <1>3, <2>1, MoveStep
       DEF GetNoWork, GetNothing, MayRun, RunWithoutWork, RunNothing, MainPlaces
<1>4. CASE HandlerReturns \/ HandlerFails \/ RunContinues \/ RunReturns \/ Exit
  BY <1>1, <1>4, MoveStep
     DEF HandlerReturns, HandlerFails, RunContinues, RunReturns, Exit, Goto, ioVars, MainPlaces
<1>5. CASE Ended \/ UNCHANGED vars
  BY <1>1, <1>5, MoveStep DEF Ended, vars, ioVars, loopVars
<1>6. CASE \E l \in Loops : EnterLoop(l)
  BY <1>1, <1>6, MoveStep DEF EnterLoop, ioVars, MainPlaces
<1> QED
  BY <1>2, <1>3, <1>4, <1>5, <1>6

(* Every step of the event loop keeps the invariant.                       *)
LEMMA NextIInv == IInv /\ [Next]_vars => IInv'
<1> SUFFICES ASSUME IInv, [Next]_vars PROVE IInv'
  OBVIOUS
<1>1. CASE UserStep
  BY <1>1, SpawnStep, EndStep, OperateCalls, CallStep, ListenStep, DeleteServerStep, MoveSteps
     DEF UserStep
<1>2. CASE LoopStep
  BY <1>2, RunTransferStep, RunHandlerStep, RunAcceptStep, PopEventStep, DispContinueStep,
     DispReadSomeErrorStep, DispAcceptStep, MoveSteps DEF LoopStep
<1>3. CASE KernelStep
  BY <1>3, KernelFinishStep DEF KernelStep
<1>4. CASE Ended \/ UNCHANGED vars
  BY <1>4, MoveSteps
<1> QED
  BY <1>1, <1>2, <1>3, <1>4 DEF Next

(* IInv holds in every reachable state of the event loop.                  *)
THEOREM LoopInvariant == Spec => []IInv
BY InitIInv, NextIInv, PTL DEF Spec

(* Every variable keeps its type.                                          *)
THEOREM LoopTypes == Spec => []TypeOK
<1>1. IInv => TypeOK
  BY DEF IInv
<1> QED
  BY <1>1, LoopInvariant, PTL

(* push_event never drops an event (luaAsio.cpp:62-64), for every capacity *)
(* of at least two events.                                                 *)
THEOREM NothingDropped == Spec => []QueueBound
<1>1. ASSUME IInv PROVE QueueBound
  <2>1. g_evt_queue \in Seq(Events)
    BY <1>1 DEF IInv, TypeOK
  <2>2. CASE ~AnyEvent
    BY <2>2 DEF AnyEvent, QueueBound
  <2>3. CASE AnyEvent
    <3>1. PICK m : OtherEvents = <<>> \/ OtherEvents = <<m>>
      BY <1>1, <2>3 DEF IInv, EventFits
    <3>2. CASE evt # <<>>
      BY <3>1, <3>2 DEF OtherEvents, QueueBound
    <3>3. CASE evt = <<>>
      <4>1. g_evt_queue # <<>> /\ OtherEvents = Tail(g_evt_queue)
        BY <2>3, <3>3 DEF AnyEvent, OtherEvents
      <4>2. /\ Len(g_evt_queue) \in Nat /\ Len(OtherEvents) = Len(g_evt_queue) - 1
        BY <2>1, <4>1, HeadTailProperties, LenProperties
      <4>3. Len(OtherEvents) <= 1
        <5>1. Len(<<>>) = 0 /\ Len(<<m>>) = 1
          OBVIOUS
        <5>2. CASE OtherEvents = <<>>
          BY <5>1, <5>2
        <5>3. CASE OtherEvents = <<m>>
          BY <5>1, <5>3
        <5> QED
          BY <3>1, <5>2, <5>3
      <4> QED
        BY <4>2, <4>3 DEF QueueBound
    <3> QED
      BY <3>2, <3>3
  <2> QED
    BY <2>2, <2>3
<1> QED
  BY <1>1, LoopInvariant, PTL

(* A completion reaches the light thread that started the operation, while *)
(* it waits for it, with a result its call can return (asio.lua:257-266).  *)
THEOREM EventsReachTheirOwner == Spec => [](Addressed /\ EventFits)
<1>1. ASSUME IInv PROVE Addressed /\ EventFits
  <2>1. ASSUME NEW op \in Outstanding, op.kind # "accept"
        PROVE  /\ op.dest_id \in DOMAIN th_tbl
               /\ th_tbl[op.dest_id] = op.who
               /\ at[op.who] = op.kind
    <3>1. op.kind \in Kinds
      <4>1. op \in Ops
        BY <1>1, <2>1, ElementOfSeq DEF IInv, TypeOK, Outstanding, ReadyOps
      <4> QED
        BY <2>1, <4>1 DEF Ops
    <3>2. op.who \in Threads /\ at[op.who] = op.kind /\ op.dest_id = th_to_id[op.who]
      BY <1>1, <2>1 DEF IInv, OpsOwned, Owned
    <3>3. op.who \in DOMAIN th_to_id
      BY <1>1, <3>1, <3>2, KindFacts DEF IInv, Registered
    <3> QED
      BY <1>1, <3>2, <3>3 DEF IInv, TableInv, TwoWay
  <2> QED
    BY <1>1, <2>1 DEF IInv, Addressed
<1> QED
  BY <1>1, LoopInvariant, PTL

(* A parked light thread waits for exactly one thing: its operation, or    *)
(* the result of it on its way.                                            *)
THEOREM OneWakeup == Spec => [](NoLostWakeup /\ SingleWakeup)
<1>1. IInv => NoLostWakeup /\ SingleWakeup
  BY DEF IInv
<1> QED
  BY <1>1, LoopInvariant, PTL

(* No light thread is parked with nothing left to wake it (luaAsio.cpp:63, *)
(* 169): every operation of any number of threads ends in its resumption   *)
(* or is still outstanding.                                                *)
THEOREM WakeupsKept == Spec => []NoLostWakeup
<1>1. NoLostWakeup /\ SingleWakeup => NoLostWakeup
  OBVIOUS
<1> QED
  BY <1>1, OneWakeup, PTL

(* An operation in flight carries the tid of the light thread that started *)
(* it, which is still parked in that call (asio.lua:96, 259).              *)
THEOREM TidsStayValid == Spec => []Addressed
<1>1. Addressed /\ EventFits => Addressed
  OBVIOUS
<1> QED
  BY <1>1, EventsReachTheirOwner, PTL

(* A server that is open always has an accept outstanding.                 *)
THEOREM ServersKeepAccepting == Spec => []AcceptArmed
<1>1. IInv => AcceptArmed
  BY DEF IInv
<1> QED
  BY <1>1, LoopInvariant, PTL

(* The steps that stop the io_context.                                     *)
LEMMA StoppingSteps ==
    ASSUME [Next]_vars, ~stopped, stopped'
    PROVE  /\ pending' = {} /\ ready' = <<>> /\ main' = "pop"
           /\ UNCHANGED <<threadVars, serverVars>>
<1>1. CASE UserStep
  <2>1. stopped' = stopped
    BY <1>1, Zenon
       DEF UserStep, Spawn, Return, Fail, Operate, Connect, Read, ReadSome, Write, Sleep, Call,
           Listen, ListenFails, DeleteServer, EnterLoop,
           HandlerReturns, HandlerFails, Exit, Goto, ioVars
  <2> QED
    BY <2>1
<1>2. CASE KernelStep \/ Ended \/ UNCHANGED vars
  <2>1. stopped' = stopped
    BY <1>2 DEF KernelStep, Finish, FinishOp, Ended, vars, ioVars
  <2> QED
    BY <2>1
<1>3. CASE \/ GetQueued \/ RunAcceptDeleted \/ PopEvent \/ PopNull \/ DispContinue
           \/ DispReadSomeError \/ DispAccept \/ DispNoHandler \/ RunContinues \/ RunReturns
  <2>1. stopped' = stopped
    BY <1>3, Zenon
       DEF GetQueued, RunAcceptDeleted, PopEvent, PopNull, DispContinue, DispReadSomeError,
           DispAccept, DispNoHandler, RunContinues, RunReturns, Goto, ioVars
  <2> QED
    BY <2>1
<1>4. CASE GetNoWork \/ GetNothing
  BY <1>4 DEF GetNoWork, GetNothing, RunWithoutWork, RunNothing, NoWork, threadVars, serverVars
<1>5. CASE RunTransfer \/ RunHandler \/ RunAccept
  BY <1>5 DEF RunTransfer, RunHandler, RunAccept, RunFirst
<1> QED
  BY <1>1, <1>2, <1>3, <1>4, <1>5 DEF Next, LoopStep

(* The io_context, whose stopped flag ends asio.run (asio.lua:323), stops  *)
(* only when no server is open and no light thread waits for anything but  *)
(* the event that is already queued.                                       *)
THEOREM StopsOnlyWhenIdle == Spec => StopsWhenIdle
<1>1. ASSUME IInv', [Next]_vars, ~stopped, stopped'
      PROVE  /\ \A s \in Servers : svr[s] # "open"
             /\ \A t \in Threads : at[t] \in Parked =>
                   g_evt_queue' # <<>> /\ g_evt_queue'[1].who = t
  <2>1. /\ pending' = {} /\ ready' = <<>> /\ main' = "pop"
        /\ at' = at /\ svr' = svr
    BY <1>1, StoppingSteps DEF threadVars, serverVars
  <2>2. Outstanding' = {}
    <3>1. ReadyOps' = {}
      BY <2>1 DEF ReadyOps
    <3> QED
      BY <2>1, <3>1 DEF Outstanding
  <2>3. evt' = <<>>
    BY <1>1, <2>1 DEF IInv, EvtSound
  <2>4. \A s \in Servers : svr[s] # "open"
    BY <1>1, <2>1, <2>2 DEF IInv, AcceptArmed
  <2>5. \A t \in Threads : at[t] \in Parked =>
           g_evt_queue' # <<>> /\ g_evt_queue'[1].who = t
    BY <1>1, <2>1, <2>2, <2>3 DEF IInv, NoLostWakeup, AnyEvent, FirstEvent
  <2> QED
    BY <2>4, <2>5
<1>2. IInv /\ IInv' /\ [Next]_vars =>
         [~stopped /\ stopped' =>
            /\ \A s \in Servers : svr[s] # "open"
            /\ \A t \in Threads : at[t] \in Parked =>
                  g_evt_queue' # <<>> /\ g_evt_queue'[1].who = t]_vars
  BY <1>1
<1> QED
  BY <1>2, LoopInvariant, PTL DEF Spec, StopsWhenIdle

(* The event loop uses the light-thread table as ThreadTable says, so that *)
(* what is proved of the table alone holds in the running program.         *)
THEOREM LoopUsesTable == Spec => TableSpec
<1>1. Init => TableInit
  BY DEF Init
<1>2. ASSUME [Next]_vars PROVE [TableNext]_tableVars
  <2>1. CASE UserStep
    <3>1. ASSUME NEW t \in Threads, Spawn(t) PROVE TableNext
      BY <3>1 DEF Spawn, TableNext
    <3>2. ASSUME NEW t \in Threads, Return(t) PROVE TableNext
      BY <3>2 DEF Return, TableNext, RemoveTh
    <3>3. CASE \/ \E t \in Threads : Fail(t)
               \/ \E t \in Threads : Operate(t)
               \/ \E s \in Servers : Listen(s) \/ ListenFails(s) \/ DeleteServer(s)
               \/ \E l \in Loops : EnterLoop(l)
               \/ HandlerReturns \/ HandlerFails \/ Exit
      BY <3>3, Zenon DEF Fail, Operate, Connect, Read, ReadSome, Write, Sleep, Call, Listen,
                         ListenFails, DeleteServer, EnterLoop, HandlerReturns, HandlerFails, Exit, Goto
    <3> QED
      BY <2>1, <3>1, <3>2, <3>3 DEF UserStep
  <2>2. CASE LoopStep
    BY <2>2, Zenon
       DEF LoopStep, GetQueued, GetNoWork, GetNothing, RunTransfer, RunHandler, RunAccept,
           RunAcceptDeleted, PopEvent, PopNull, DispContinue, DispReadSomeError, DispAccept,
           DispNoHandler, RunContinues, RunReturns, Goto
  <2>3. CASE KernelStep \/ Ended \/ UNCHANGED vars
    BY <2>3 DEF KernelStep, Finish, Ended, vars
  <2> QED
    BY <1>2, <2>1, <2>2, <2>3 DEF Next
<1> QED
  BY <1>1, <1>2, PTL DEF Spec, TableSpec
=============================================================================
