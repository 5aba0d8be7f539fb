------------------------------ MODULE Reactor ------------------------------
(***************************************************************************)
(* The epoll reactor and the scheduler of the vendored asio under the      *)
(* operations of one connection, as luaAsio.cpp uses them: one OS thread,  *)
(* which runs Lua or run_one.  IoContext states what EventLoop takes from  *)
(* them; here is how operations come to finish.                            *)
(*                                                                         *)
(* One descriptor_state is modelled.  It is reused for the next socket     *)
(* when one is closed, so items of an earlier socket may still be queued.  *)
(* Notification is edge triggered: the kernel lists a descriptor once when *)
(* something changes, and reports it with all it is then ready for.        *)
(*                                                                         *)
(* An operation is [who, kind, left, sock, res]: the light thread, bytes   *)
(* still to transfer, the number of its socket, and its outcome.           *)
(***************************************************************************)
EXTENDS Naturals, SequencesExt

CONSTANTS Readers, Writers,   \* light threads that read, that write
          Sizes,              \* bytes a read or write is for
          MaxBuffer,          \* bound: bytes in the kernel's buffers
          MaxSockets          \* bound: sockets that use the descriptor_state

ASSUME ReactorAssumption ==
    /\ Sizes \subseteq Nat \ {0}
    /\ MaxBuffer \in Nat \ {0} /\ MaxSockets \in Nat

Threads == Readers \cup Writers

VARIABLES
    open,         \* registered, not shutdown_
    sock,         \* number of the socket
    waiting,      \* descriptor_state::op_queue_, per direction
    speculative,  \* descriptor_state::try_speculative_
    registered,   \* registered_events_: directions asked for
    avail,        \* kernel: bytes to receive
    ended,        \* kernel: "no", "eof" (FIN received), or "err" (reset)
    space,        \* kernel: bytes send would take
    nospace,      \* kernel: a send or a poll found no space (SOCK_NOSPACE)
    listed,       \* kernel: the descriptor is on the ready list of epoll
    op_queue,     \* scheduler::op_queue_: the task, the descriptor, operations
    work,         \* scheduler::outstanding_work_
    io,           \* perform_io in progress: directions to do, operations done
    at            \* light threads: "run", or "call" while in an operation

descVars == <<open, sock, waiting, speculative, registered>>
kernelVars == <<avail, ended, space, nospace, listed>>
vars == <<descVars, kernelVars, op_queue, work, io, at>>

Task == [type |-> "task"]
Descriptor(events) == [type |-> "descriptor", events |-> events]
Finished(op) == [type |-> "op", op |-> op]

InRunOne == io # <<>>

Direction(op) == IF op.kind \in {"read", "read_some"} THEN "in" ELSE "out"

(* What poll of the socket answers.                                        *)
Ready(d) ==
    \/ ended = "err"
    \/ d = "in" /\ (avail > 0 \/ ended = "eof")
    \/ d = "out" /\ space > 0

----------------------------------------------------------------------------
(* reactor_op::perform: a system call that does not block.                 *)

(* Wrong variant: the call is taken to transfer the whole buffer.          *)
Amount_All(op) == op.left

(* The bytes it transfers.                                                 *)
Amount(op) ==
    IF ended = "err" \/ op.kind = "connect" THEN 0
    ELSE Min({op.left, IF Direction(op) = "in" THEN avail ELSE space})

(* The operation after a call that was not refused with EAGAIN.            *)
Performed(op) ==
    [op EXCEPT !.left = @ - Amount(op),
               !.res = IF ended = "err" \/ (op.kind # "connect" /\ Amount(op) = 0)
                       THEN "fail" ELSE "ok"]

(* done_and_exhausted: end of file, an error, or a send that was cut.      *)
Exhausted(op) ==
    CASE op.kind = "connect" -> FALSE
      [] Direction(op) = "in" -> Amount(op) = 0
      [] OTHER -> Amount(op) < op.left

(* What the call does to the kernel's buffers, EAGAIN included.            *)
SystemCall(op) ==
    /\ avail' = IF Direction(op) = "in" THEN avail - Amount(op) ELSE avail
    /\ space' = IF Direction(op) = "out" THEN space - Amount(op) ELSE space
    /\ nospace' = (nospace \/ (op.kind = "write" /\ Amount(op) < op.left))

(* Wrong variant: EPOLLOUT is not asked for.                               *)
Register_InOnly(d) == registered' = registered /\ listed' = listed

(* epoll_ctl(EPOLL_CTL_MOD) for the first write that has to wait: the      *)
(* descriptor is listed if it is ready by now.                             *)
Register(d) ==
    /\ registered' = registered \cup {d}
    /\ listed' = IF d \in registered THEN listed
                 ELSE listed \/ \E e \in registered' : Ready(e)

(* epoll_reactor::start_op on an open descriptor: try at once if nobody    *)
(* waits and the last attempt did not exhaust the socket; otherwise wait.  *)
(* rest: the scheduler's queue; the next transfer of a composed operation  *)
(* is started inside a handler, whose own unit of work it takes over.      *)
StartOp(op, rest, gained) ==
    LET d == Direction(op)
        tries == waiting[d] = <<>> /\ speculative[d]
    IN  \/ /\ open /\ op.sock = sock /\ tries /\ Ready(d)
           /\ SystemCall(op)
           /\ speculative' = [speculative EXCEPT ![d] = ~Exhausted(op)]
           /\ op_queue' = Append(rest, Finished(Performed(op)))
           /\ work' = work + gained
           /\ UNCHANGED <<open, sock, waiting, registered, ended, listed>>
        \/ /\ open /\ op.sock = sock /\ ~(tries /\ Ready(d))
           /\ IF tries THEN SystemCall(op) ELSE UNCHANGED <<avail, space, nospace>>
           /\ IF waiting[d] = <<>> THEN Register(d) ELSE UNCHANGED <<registered, listed>>
           /\ waiting' = [waiting EXCEPT ![d] = Append(@, op)]
           /\ op_queue' = rest
           /\ work' = work + gained
           /\ UNCHANGED <<open, sock, speculative, ended>>
        \/ /\ ~open \/ op.sock # sock                   \* bad_descriptor
           /\ op_queue' = Append(rest, Finished([op EXCEPT !.res = "fail"]))
           /\ work' = work + gained
           /\ UNCHANGED <<descVars, kernelVars>>

(* deregister_descriptor and cleanup_descriptor_data: what waits is        *)
(* aborted; a descriptor item that is queued stays queued.                 *)
Deregister(rest) ==
    LET aborted == waiting["in"] \o waiting["out"]
    IN  /\ open' = FALSE /\ listed' = FALSE
        /\ waiting' = [d \in {"in", "out"} |-> <<>>]
        /\ op_queue' = rest \o [i \in 1..Len(aborted) |->
                                  Finished([aborted[i] EXCEPT !.res = "fail"])]
        /\ UNCHANGED <<sock, speculative, registered, avail, ended, space, nospace>>

----------------------------------------------------------------------------
(* Lua, between two calls of run_one.                                      *)

(* A new socket: register_descriptor.                                      *)
NewSocket ==
    /\ ~InRunOne /\ ~open /\ sock < MaxSockets
    /\ open' = TRUE /\ sock' = sock + 1
    /\ speculative' = [d \in {"in", "out"} |-> TRUE]
    /\ avail' = 0

(* An accepted connection.                                                 *)
Accepted ==
    /\ NewSocket
    /\ registered' = {"in"}
    /\ ended' = "no" /\ space' = MaxBuffer /\ nospace' = FALSE /\ listed' = FALSE
    /\ UNCHANGED <<waiting, op_queue, work, io, at>>

(* start_connect_op: connect(2) is in progress and the operation waits for *)
(* the socket to be writable.                                              *)
Connect(t) ==
    /\ NewSocket
    /\ at[t] = "run"
    /\ registered' = {"in", "out"}
    /\ ended' = "no" /\ space' = 0 /\ nospace' = TRUE /\ listed' = FALSE
    /\ waiting' = [waiting EXCEPT !["out"] =
          <<[who |-> t, kind |-> "connect", left |-> 0, sock |-> sock', res |-> "none"]>>]
    /\ work' = work + 1
    /\ at' = [at EXCEPT ![t] = "call"]
    /\ UNCHANGED <<op_queue, io>>

(* start_connect_op: connect(2) succeeds or fails at once, and the         *)
(* operation is posted (post_immediate_completion).  The socket is left    *)
(* open; one that is not connected refuses every transfer and hangs up.    *)
ConnectAtOnce(t, res) ==
    /\ NewSocket
    /\ at[t] = "run"
    /\ registered' = {"in"}
    /\ ended' = IF res = "ok" THEN "no" ELSE "err"
    /\ space' = MaxBuffer /\ nospace' = FALSE /\ listed' = (res = "fail")
    /\ op_queue' = Append(op_queue,
          Finished([who |-> t, kind |-> "connect", left |-> 0, sock |-> sock', res |-> res]))
    /\ work' = work + 1
    /\ at' = [at EXCEPT ![t] = "call"]
    /\ UNCHANGED <<waiting, io>>

Start(t, kind, n) ==
    /\ ~InRunOne /\ at[t] = "run" /\ sock > 0
    /\ StartOp([who |-> t, kind |-> kind, left |-> n, sock |-> sock, res |-> "none"],
               op_queue, 1)
    /\ at' = [at EXCEPT ![t] = "call"]
    /\ UNCHANGED io

(* conn:close, or the destructor.                                          *)
Close ==
    /\ ~InRunOne /\ open
    /\ Deregister(op_queue)
    /\ UNCHANGED <<work, io, at>>

----------------------------------------------------------------------------
(* The kernel and the peer.                                                *)
Arrive ==
    /\ open /\ ended = "no" /\ avail < MaxBuffer
    /\ avail' = avail + 1
    /\ listed' = TRUE
    /\ UNCHANGED <<descVars, ended, space, nospace, op_queue, work, io, at>>

(* The peer takes bytes, or accepts the connection: a writer that found no *)
(* space is told, if EPOLLOUT was asked for.                               *)
Drain ==
    /\ open /\ ended # "err" /\ space < MaxBuffer
    /\ space' = space + 1
    /\ nospace' = FALSE
    /\ listed' = (listed \/ (nospace /\ "out" \in registered))
    /\ UNCHANGED <<descVars, avail, ended, op_queue, work, io, at>>

PeerEnds ==
    /\ open /\ ended # "err"
    /\ ended' \in {"eof", "err"} \ {ended}
    /\ listed' = TRUE
    /\ UNCHANGED <<descVars, avail, space, nospace, op_queue, work, io, at>>

----------------------------------------------------------------------------
(* run_one: do_run_one takes the first item of op_queue_.                  *)
RunOne(type) == ~InRunOne /\ work > 0 /\ Head(op_queue).type = type

(* What epoll_wait reports of a listed descriptor: all that was asked for  *)
(* and is ready now; an error is for both directions.                      *)
Reported ==
    IF ~listed THEN {}
    ELSE IF ended = "err" THEN {"in", "out"}
    ELSE {d \in registered : Ready(d)}

(* Wrong variant: the task is queued before the descriptor.                *)
Requeue_TaskFirst(items) == op_queue' = Tail(op_queue) \o <<Task>> \o items

(* task_cleanup queues the descriptor, and behind it the task again.       *)
Requeue(items) == op_queue' = Tail(op_queue) \o items \o <<Task>>

(* epoll_reactor::run: waits only when nothing else is queued.  Polling    *)
(* the socket for EPOLLOUT sets nospace too.                               *)
RunTask ==
    /\ RunOne("task")
    /\ Reported # {} \/ Tail(op_queue) # <<>>
    /\ Requeue(IF Reported = {} THEN <<>> ELSE <<Descriptor(Reported)>>)
    /\ listed' = FALSE
    /\ nospace' = (nospace \/ (listed /\ "out" \in registered /\ space = 0))
    /\ UNCHANGED <<descVars, avail, ended, space, work, io, at>>

(* perform_io begins: writes before reads.                                 *)
RunDescriptor ==
    /\ RunOne("descriptor")
    /\ LET events == Head(op_queue).events
           todo == (IF "out" \in events THEN <<"out">> ELSE <<>>)
                      \o (IF "in" \in events THEN <<"in">> ELSE <<>>)
       IN  /\ io' = <<[todo |-> todo, done |-> <<>>]>>
           /\ speculative' = [d \in {"in", "out"} |-> d \in events \/ speculative[d]]
    /\ op_queue' = Tail(op_queue)
    /\ UNCHANGED <<open, sock, waiting, registered, kernelVars, work, at>>

(* One operation of the direction in turn is performed.                    *)
PerformIo ==
    /\ InRunOne /\ io[1].todo # <<>>
    /\ LET d == Head(io[1].todo)
       IN  /\ waiting[d] # <<>> /\ Ready(d)
           /\ LET op == Head(waiting[d])
              IN  /\ SystemCall(op)
                  /\ waiting' = [waiting EXCEPT ![d] = Tail(@)]
                  /\ speculative' = [speculative EXCEPT ![d] = @ /\ ~Exhausted(op)]
                  /\ io' = <<[todo |-> IF Exhausted(op) THEN Tail(io[1].todo) ELSE io[1].todo,
                              done |-> Append(io[1].done, Performed(op))]>>
    /\ UNCHANGED <<open, sock, registered, ended, listed, op_queue, work, at>>

(* No operation is left for the direction, or the first gets EAGAIN.       *)
LeaveDirection ==
    /\ InRunOne /\ io[1].todo # <<>>
    /\ LET d == Head(io[1].todo)
       IN  /\ waiting[d] = <<>> \/ ~Ready(d)
           /\ IF waiting[d] = <<>> THEN UNCHANGED <<avail, space, nospace>>
              ELSE SystemCall(Head(waiting[d]))
    /\ io' = <<[io[1] EXCEPT !.todo = Tail(@)]>>
    /\ UNCHANGED <<descVars, ended, listed, op_queue, work, at>>

----------------------------------------------------------------------------
(* Handlers.                                                               *)
NeedsMore(op) == op.kind \in {"read", "write"} /\ op.res = "ok" /\ op.left > 0

(* Wrong variant: the handler of a failed operation leaves the socket open.*)
ClosesOnError_Not(op) == FALSE

(* The error branch of the handlers of read, read_some and write.          *)
ClosesOnError(op) == op.kind # "connect" /\ op.res = "fail" /\ op.sock = sock /\ open

(* The handler of op, with work_cleanup behind it: one unit of work ends.  *)
Handle(op, rest) ==
    IF NeedsMore(op)
    THEN StartOp([op EXCEPT !.res = "none"], rest, 0) /\ at' = at
    ELSE /\ at' = [at EXCEPT ![op.who] = "run"]
         /\ work' = work - 1
         /\ IF ClosesOnError(op) THEN Deregister(rest)
            ELSE op_queue' = rest /\ UNCHANGED <<descVars, kernelVars>>

RunOp ==
    /\ RunOne("op")
    /\ Handle(Head(op_queue).op, Tail(op_queue))
    /\ UNCHANGED io

(* perform_io returns: the first operation done is completed now, the      *)
(* others are posted.                                                      *)
RunFirstDone ==
    /\ InRunOne /\ io[1].todo = <<>> /\ io[1].done # <<>>
    /\ Handle(Head(io[1].done),
              op_queue \o [i \in 1..Len(io[1].done) - 1 |-> Finished(io[1].done[i + 1])])
    /\ io' = <<>>

(* Wrong variant: the descriptor item ends a unit of work of its own.      *)
Compensated_Not == work' = work - 1

(* compensating_work_started, against the work_finished that follows.      *)
Compensated == work' = work

(* perform_io has finished nothing.                                        *)
NothingDone ==
    /\ InRunOne /\ io[1].todo = <<>> /\ io[1].done = <<>>
    /\ Compensated
    /\ io' = <<>>
    /\ UNCHANGED <<descVars, kernelVars, op_queue, at>>

----------------------------------------------------------------------------
Init ==
    /\ open = FALSE /\ sock = 0
    /\ waiting = [d \in {"in", "out"} |-> <<>>]
    /\ speculative = [d \in {"in", "out"} |-> TRUE]
    /\ registered = {}
    /\ avail = 0 /\ ended = "no" /\ space = 0 /\ nospace = FALSE /\ listed = FALSE
    /\ op_queue = <<Task>> /\ work = 0 /\ io = <<>>
    /\ at = [t \in Threads |-> "run"]

UserStep ==
    \/ Accepted \/ Close
    \/ \E t \in Threads : Connect(t) \/ \E res \in {"ok", "fail"} : ConnectAtOnce(t, res)
    \/ \E n \in Sizes :
          \/ \E t \in Readers, kind \in {"read", "read_some"} : Start(t, kind, n)
          \/ \E t \in Writers : Start(t, "write", n)

RunStep ==
    \/ RunTask \/ RunDescriptor \/ RunOp
    \/ PerformIo \/ LeaveDirection \/ RunFirstDone \/ NothingDone

Next == UserStep \/ Arrive \/ Drain \/ PeerEnds \/ RunStep

Spec == Init /\ [][Next]_vars

(* The program keeps calling run_one.                                      *)
FairSpec == Spec /\ WF_vars(RunStep)

----------------------------------------------------------------------------
Ops == [who : Threads, kind : {"read", "read_some", "write", "connect"}, left : Nat,
        sock : 1..MaxSockets, res : {"none", "ok", "fail"}]
Directions == {"in", "out"}

(* Types of all variables; system calls transfer what the buffers hold.    *)
TypeOK ==
    /\ open \in BOOLEAN /\ sock \in 0..MaxSockets
    /\ waiting \in [Directions -> Seq(Ops)] /\ speculative \in [Directions -> BOOLEAN]
    /\ registered \subseteq Directions
    /\ avail \in 0..MaxBuffer /\ space \in 0..MaxBuffer /\ ended \in {"no", "eof", "err"}
    /\ nospace \in BOOLEAN /\ listed \in BOOLEAN /\ work \in Nat
    /\ at \in [Threads -> {"run", "call"}]

Places(type) == {i \in 1..Len(op_queue) : op_queue[i].type = type}
Done == IF InRunOne THEN io[1].done ELSE <<>>

(* Operations that wait, have finished in perform_io, or are queued.       *)
Outstanding ==
    ToSet(waiting["in"]) \cup ToSet(waiting["out"]) \cup ToSet(Done)
       \cup {op_queue[i].op : i \in Places("op")}

(* outstanding_work_ is the number of operations whose handler has not     *)
(* run, although start_op, posting, the descriptor item, perform_io and    *)
(* work_cleanup each keep a part of the count.  It is what stops the       *)
(* io_context and so ends asio.run (scheduler.ipp:81-109).                 *)
WorkExact ==
    work = Len(waiting["in"]) + Len(waiting["out"]) + Len(Done) + Cardinality(Places("op"))

(* The notification an operation waits for is on its way: an operation of  *)
(* a direction that is ready will be found, by an event that is listed or  *)
(* queued, by the round of perform_io, or the socket is about to be closed *)
(* by the handler of a failed operation.  Edges are not repeated, so one   *)
(* lost here is lost for good (epoll_reactor.ipp:255-318, 756-793).        *)
NoLostEdge ==
    \A d \in {"in", "out"} :
       open /\ waiting[d] # <<>> /\ Ready(d) =>
          \/ listed /\ d \in registered
          \/ \E i \in Places("descriptor") : d \in op_queue[i].events
          \/ InRunOne /\ d \in ToSet(io[1].todo)
          \/ \E op \in Outstanding : op.kind # "connect" /\ op.res = "fail" /\ op.sock = sock

(* The comment of epoll_reactor.ipp:473: the task is queued once, behind   *)
(* all descriptor items, of which there is one at most.                    *)
TaskBehindDescriptors ==
    /\ Cardinality(Places("task")) = 1
    /\ \A i \in Places("descriptor") :
          /\ Places("descriptor") = {i}
          /\ \A j \in Places("task") : i < j

(* An operation that can be performed is performed: it does not wait       *)
(* forever on a socket that stays ready.                                   *)
Served ==
    \A d \in {"in", "out"} :
       (waiting[d] # <<>> /\ Ready(d)) ~> (waiting[d] = <<>> \/ ~Ready(d))
=============================================================================
