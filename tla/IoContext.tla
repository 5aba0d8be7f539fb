----------------------------- MODULE IoContext -----------------------------
(***************************************************************************)
(* asio::io_context as luaAsio.cpp uses it: one thread calls run_one, so   *)
(* no two completion handlers ever run at the same time.                   *)
(*                                                                         *)
(* An operation is a record with at least the fields                       *)
(*    who    the party it was started for (a light thread, a server)       *)
(*    left   transfers it still needs (composed reads and writes need      *)
(*           several), and                                                 *)
(*    res    "none" until its outcome is known, then "ok", "fail" or       *)
(*           "aborted" (asio::error::operation_aborted).                   *)
(* It is pending until its outcome is known, then waits in ready, the FIFO *)
(* op_queue_ of the scheduler, until run_one runs its handler.  Both count *)
(* as outstanding work.                                                    *)
(*                                                                         *)
(* An operation may finish at any moment after it was started: at once     *)
(* (the epoll reactor tries it speculatively), from the kernel while Lua   *)
(* runs (IOCP), or when run_one polls.  Its handler runs only in run_one.  *)
(* ready holds operations in the order in which their handlers run; which  *)
(* orders the reactor produces is in Reactor.                              *)
(***************************************************************************)
EXTENDS Sequences

VARIABLES pending,    \* operations started and not finished
          ready,      \* op_queue_: finished, handler not yet run
          stopped     \* scheduler::stopped_

ioVars == <<pending, ready, stopped>>

Outcomes == {"ok", "fail", "aborted"}

IoInit == pending = {} /\ ready = <<>> /\ stopped = FALSE

(* outstanding_work_ == 0                                                  *)
NoWork == pending = {} /\ ready = <<>>

(* start_op and work_started                                               *)
StartOp(op) == pending' = pending \cup {op}

(* The operation with its outcome.                                         *)
WithResult(op, res) == [op EXCEPT !.res = res]

(* An operation finishes and its handler is queued behind the others.      *)
FinishOp(op, res) ==
    /\ op \in pending
    /\ pending' = pending \ {op}
    /\ ready' = Append(ready, WithResult(op, res))
    /\ UNCHANGED stopped

(* deregister_descriptor: closing a descriptor fails the pending           *)
(* operations on it with operation_aborted and posts them.  One that has   *)
(* finished already keeps its outcome.  A descriptor with at most one      *)
(* pending operation of one party, as an acceptor has.                     *)
CloseDescriptor(who) ==
    LET ops == {op \in pending : op.who = who}
    IN  /\ pending' = pending \ ops
        /\ IF ops = {} THEN ready' = ready
           ELSE \E op \in ops : ready' = Append(ready, WithResult(op, "aborted"))

(* Wrong variant: an empty op_queue_ stops the context.                    *)
RunFirst_StopsWhenQueueEmpty(next) ==
    /\ ready # <<>>
    /\ ready' = Tail(ready)
    /\ pending' = pending \cup next
    /\ stopped' = (ready' = <<>>)

(* do_run_one takes the first handler off op_queue_, runs it, and when it  *)
(* returns work_cleanup stops the context if no work is left: next is the  *)
(* set of operations the handler started.  asio_get restarted the context  *)
(* just before.                                                            *)
RunFirst(next) ==
    /\ ready # <<>>
    /\ ready' = Tail(ready)
    /\ pending' = pending \cup next
    /\ stopped' = (ready' = <<>> /\ pending' = {})

(* run_one without outstanding work stops the context at once.             *)
RunWithoutWork ==
    /\ NoWork
    /\ stopped' = TRUE
    /\ UNCHANGED <<pending, ready>>

(* A wait that ends without a handler having run: the time limit of        *)
(* run_one_for, or a descriptor event that finishes no operation, which    *)
(* the epoll reactor queues like a handler.  The context stays restarted.  *)
RunNothing ==
    /\ stopped' = FALSE
    /\ UNCHANGED <<pending, ready>>
=============================================================================
