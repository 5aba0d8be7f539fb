----------------------------- MODULE EventLoop -----------------------------
(***************************************************************************)
(* The event loop of LuaAsio: light threads (Lua coroutines) start         *)
(* asynchronous operations and yield, the completion handlers of           *)
(* luaAsio.cpp turn each finished operation into events of g_evt_queue,    *)
(* and asio.run / asio.run_once take the events one by one and resume the  *)
(* light thread, or call the accept handler, each one is addressed to.     *)
(*                                                                         *)
(* Everything runs in one OS thread.  What interleaves is the user's code  *)
(* (main chunk, accept handlers, light threads that resume one another)    *)
(* with the finishing of operations, which the kernel decides.  `main` is  *)
(* the position of the main coroutine, `stack` the light threads it has    *)
(* resumed and that have resumed each other, innermost last; the user code *)
(* that runs is the last of the stack or, if the stack is empty, main.     *)
(*                                                                         *)
(* Connections are abstracted to the outcomes their operations may have:   *)
(* any read, write or connect may succeed or fail.                         *)
(***************************************************************************)
EXTENDS ThreadTable, IoContext

CONSTANTS Servers,        \* asio.server calls that return a server object
          Port,           \* Port[s]: the port s is created with
          Kinds,          \* the operations light threads perform
          Loops,          \* the ways main runs the loop
          MaxTransfers,   \* most transfers a composed read or write takes
          MAX_EVT_MSG     \* capacity of g_evt_queue

AllKinds == {"connect", "read", "read_some", "write", "sleep"}

(* run(), run_once() or run_once(-1), run_once(n) with n > 0, run_once(0)  *)
AllLoops == {"run", "once", "timed", "poll"}

ASSUME LoopAssumption ==
    /\ Threads \cap Servers = {}
    /\ Port \in [Servers -> Nat]
    /\ Kinds \subseteq AllKinds
    /\ Loops \subseteq AllLoops
    /\ MaxTransfers \in Nat \ {0}
    /\ MAX_EVT_MSG \in Nat \ {0, 1}

VARIABLES at,             \* where each coroutine is, see Places
          stack,          \* active light threads, innermost last
          main,           \* where the main coroutine is, see MainPlaces
          loop,           \* the member of Loops main is in
          g_evt_queue,    \* events pushed and not yet returned by asio_get
          evt,            \* <<e>> while _evt_disp has yet to act on e
          svr,            \* "none", "open" or "deleted" for each server
          handler_tbl     \* port -> the server call whose handler it holds

threadVars == <<at, stack>>
loopVars == <<main, loop>>
queueVars == <<g_evt_queue, evt>>
serverVars == <<svr, handler_tbl>>
vars == <<tableVars, ioVars, threadVars, loopVars, queueVars, serverVars>>

(* A coroutine is parked at the yield of the operation it called; the      *)
(* error path of read_some yields a second time.                           *)
Parked == Kinds \cup {"read_some_err"}
Places == Parked \cup {"none", "active", "dead"}
MainPlaces == {"chunk", "get", "pop", "disp", "resumed", "handler", "check",
               "exit", "undefined"}

----------------------------------------------------------------------------
(* Events.  source is TRUE for a non-NULL source pointer; data is "none"   *)
(* for an empty string, "bytes" for received data, "message" for the text  *)
(* of an error.  `who` is not in the code: it records for whom the         *)
(* operation was started, to compare with whom the event reaches.          *)
Event(type, op, source, data) ==
    [type |-> type, dest_id |-> op.dest_id, source |-> source,
     data |-> data, who |-> op.who]

(* push_event                                                              *)
PushEvent(queue, e) ==
    LET q == Append(queue, e)
    IN  IF Len(q) > MAX_EVT_MSG
        THEN SubSeq(q, Len(q) - MAX_EVT_MSG + 1, Len(q))
        ELSE q

(* What a completion handler pushes on success: a read adds the data, and  *)
(* only the timer has no source pointer.                                   *)
Success(op) ==
    Event("CONTINUE", op, op.kind # "sleep",
          IF op.kind \in {"read", "read_some"} THEN "bytes" ELSE "none")

(* ... and on an error: no source, and the text of the error.              *)
Message(op) == Event("CONTINUE", op, FALSE, "message")

(* Wrong variant: the message of a failed read_some before the data.       *)
ReadSomeFailure_MessageFirst(op) == <<Message(op), Event("CONTINUE", op, FALSE, "bytes")>>

(* Wrong variant: a failed read_some pushes the data and no message.       *)
ReadSomeFailure_NoMessage(op) == <<Event("CONTINUE", op, FALSE, "bytes")>>

(* A failed read_some pushes two events: what was read, then the message.  *)
ReadSomeFailure(op) == <<Event("CONTINUE", op, FALSE, "bytes"), Message(op)>>

(* Wrong variant: every read_some pushes two events, not only a failed one.*)
HandlerEvents_AlwaysTwo(op) ==
    IF op.kind = "read_some" THEN <<Event("CONTINUE", op, op.res = "ok", "bytes"), Message(op)>>
    ELSE IF op.res = "ok" THEN <<Success(op)>> ELSE <<Message(op)>>

(* The events the completion handler of a light thread's operation pushes, *)
(* in order.                                                               *)
HandlerEvents(op) ==
    IF op.res = "ok" THEN <<Success(op)>>
    ELSE IF op.kind = "read_some" THEN ReadSomeFailure(op)
    ELSE <<Message(op)>>

(* The one or two push_event calls of such a handler.                      *)
PushEvents(queue, es) ==
    IF Len(es) = 1 THEN PushEvent(queue, es[1])
                   ELSE PushEvent(PushEvent(queue, es[1]), es[2])

----------------------------------------------------------------------------
(* Only the position of the main coroutine changes.                        *)
Goto(place) ==
    /\ main' = place
    /\ UNCHANGED <<loop, threadVars, queueVars, tableVars, ioVars, serverVars>>

(* User code runs: the main chunk, an accept handler, or the innermost     *)
(* active light thread.                                                    *)
UserCode == stack # <<>> \/ main \in {"chunk", "handler"}

(* Lua runs, user code or the loop of asio.lua: the collector may act.     *)
LuaCode == main \in {"chunk", "resumed", "handler", "disp", "check"}

Running(t) == stack # <<>> /\ stack[Len(stack)] = t

(* Where main continues when asio_get returned NULL or _evt_disp returned. *)
AfterDispatch == IF loop = "run" THEN "check" ELSE "chunk"

(* The innermost light thread yields, returns or fails: control goes back  *)
(* to whoever resumed it, and out of _evt_disp if that was main.           *)
Leave ==
    /\ stack' = SubSeq(stack, 1, Len(stack) - 1)
    /\ main' = IF main = "resumed" /\ Len(stack) = 1 THEN AfterDispatch ELSE main
    /\ UNCHANGED <<loop, queueVars>>

(* spawn_light_thread: the new light thread runs at once.                  *)
Spawn(t) ==
    /\ UserCode
    /\ at[t] = "none"
    /\ CreateTh(t)
    /\ at' = [at EXCEPT ![t] = "active"]
    /\ stack' = Append(stack, t)
    /\ UNCHANGED <<loopVars, queueVars, ioVars, serverVars>>

(* Wrong variant: transfers counted from 0.                                *)
OpOf_FromZero(t, kind, n) ==
    [who |-> t, kind |-> kind, dest_id |-> th_to_id[t], left |-> n - 1, res |-> "none"]

(* The operation that connect, read, read_some, write or sleep starts, for *)
(* the tid of the running light thread.                                    *)
OpOf(t, kind, n) ==
    [who |-> t, kind |-> kind, dest_id |-> th_to_id[t], left |-> n, res |-> "none"]

(* A light thread starts an operation that takes n transfers, and yields.  *)
Call(t, kind, n) ==
    /\ kind \in Kinds
    /\ Running(t)
    /\ StartOp(OpOf(t, kind, n))
    /\ at' = [at EXCEPT ![t] = kind]
    /\ Leave
    /\ UNCHANGED <<ready, stopped, tableVars, serverVars>>

(* asio.connect, conn:read_some and asio.sleep end with the first outcome; *)
(* conn:read and conn:write are composed and transfer until all is done.   *)
Connect(t) == Call(t, "connect", 1)
Read(t, n) == Call(t, "read", n)
ReadSome(t) == Call(t, "read_some", 1)
Write(t, n) == Call(t, "write", n)
Sleep(t) == Call(t, "sleep", 1)

Operate(t) ==
    \/ Connect(t) \/ ReadSome(t) \/ Sleep(t)
    \/ \E n \in 1..MaxTransfers : Read(t, n) \/ Write(t, n)

(* The function of the light thread returns: _light_thread frees the tid   *)
(* and the coroutine ends.                                                 *)
Return(t) ==
    /\ Running(t)
    /\ RemoveTh(th_to_id[t])
    /\ at' = [at EXCEPT ![t] = "none"]
    /\ Leave
    /\ UNCHANGED <<ioVars, serverVars>>

(* The function of the light thread raises an error: resume returns false  *)
(* and a traceback is printed, but _remove_th is never reached and the     *)
(* dead coroutine stays in th_tbl.                                         *)
Fail(t) ==
    /\ Running(t)
    /\ at' = [at EXCEPT ![t] = "dead"]
    /\ Leave
    /\ UNCHANGED <<tableVars, ioVars, serverVars>>

----------------------------------------------------------------------------
(* Servers.                                                                *)
AcceptOp(s) ==
    [who |-> s, kind |-> "accept", dest_id |-> Port[s], left |-> 1, res |-> "none"]

(* asio.server stores the handler, or nil if none is given, before it      *)
(* tries to create the server.                                             *)
SetHandler(s, given) ==
    LET other == DOMAIN handler_tbl \ {Port[s]}
    IN  handler_tbl' = [p \in IF given THEN other \cup {Port[s]} ELSE other |->
                           IF p = Port[s] THEN s ELSE handler_tbl[p]]

(* asio.server, when asio_new_server succeeds: the constructor of server   *)
(* starts the first accept.                                                *)
Listen(s) ==
    /\ UserCode
    /\ svr[s] = "none"
    /\ \E given \in BOOLEAN : SetHandler(s, given)
    /\ svr' = [svr EXCEPT ![s] = "open"]
    /\ StartOp(AcceptOp(s))
    /\ UNCHANGED <<ready, stopped, tableVars, threadVars, loopVars, queueVars>>

(* asio.server, when asio_new_server returns NULL: the address is not an   *)
(* IP address, or cannot be bound.                                         *)
ListenFails(s) ==
    /\ UserCode
    /\ svr[s] = "none"
    /\ \E given \in BOOLEAN : SetHandler(s, given)
    /\ UNCHANGED <<svr, tableVars, ioVars, threadVars, loopVars, queueVars>>

(* asio.destory_server, or the finaliser of the collected holder, which    *)
(* may run wherever Lua allocates: the server is deleted and its acceptor  *)
(* closed.                                                                 *)
DeleteServer(s) ==
    /\ LuaCode
    /\ svr[s] = "open"
    /\ svr' = [svr EXCEPT ![s] = "deleted"]
    /\ CloseDescriptor(s)
    /\ UNCHANGED <<stopped, handler_tbl, tableVars, threadVars, loopVars, queueVars>>

----------------------------------------------------------------------------
(* The kernel finishes an operation.  Nothing cancels a timer.             *)
Finish(op) ==
    /\ main \notin {"exit", "undefined"}
    /\ \E res \in IF op.kind = "sleep" THEN {"ok"} ELSE {"ok", "fail"} :
          FinishOp(op, res)
    /\ UNCHANGED <<tableVars, threadVars, loopVars, queueVars, serverVars>>

(* asio_get, first half: only an empty queue lets the io_context run.      *)
GetQueued ==
    /\ main = "get"
    /\ g_evt_queue # <<>>
    /\ Goto("pop")

(* Wrong variant: the io_context runs although events are queued.          *)
MayRun_IgnoresQueue == main = "get" /\ loop # "poll"

(* restart if stopped, then run_one or run_one_for.  With a time limit of  *)
(* 0 run_one_for returns before it looks at the queue.                     *)
MayRun ==
    /\ main = "get"
    /\ g_evt_queue = <<>>
    /\ loop # "poll"

GetNoWork ==
    /\ MayRun
    /\ RunWithoutWork
    /\ main' = "pop"
    /\ UNCHANGED <<loop, threadVars, queueVars, tableVars, serverVars>>

GetNothing ==
    /\ main = "get"
    /\ g_evt_queue = <<>>
    /\ loop = "poll" \/ ~NoWork
    /\ RunNothing
    /\ main' = "pop"
    /\ UNCHANGED <<loop, threadVars, queueVars, tableVars, serverVars>>

(* Wrong variant: the composed operation forgets what it transferred.      *)
NextTransfer_NoProgress(op) == [op EXCEPT !.res = "none"]

(* The next transfer of a composed read or write.                          *)
NextTransfer(op) == [op EXCEPT !.left = @ - 1, !.res = "none"]

(* A composed read or write that needs more transfers starts the next one  *)
(* and pushes nothing.                                                     *)
RunTransfer ==
    /\ MayRun
    /\ ready # <<>>
    /\ Head(ready).kind # "accept"
    /\ Head(ready).res = "ok" /\ Head(ready).left > 1
    /\ RunFirst({NextTransfer(Head(ready))})
    /\ main' = "pop"
    /\ UNCHANGED <<loop, threadVars, queueVars, tableVars, serverVars>>

(* The completion handler of connect, read, read_some, write or sleep.     *)
RunHandler ==
    /\ MayRun
    /\ ready # <<>>
    /\ Head(ready).kind # "accept"
    /\ Head(ready).res # "ok" \/ Head(ready).left = 1
    /\ RunFirst({})
    /\ g_evt_queue' = PushEvents(g_evt_queue, HandlerEvents(Head(ready)))
    /\ main' = "pop"
    /\ UNCHANGED <<loop, evt, threadVars, tableVars, serverVars>>

(* Wrong variant: any error ends the chain of accepts.                     *)
AcceptsAgain_OnlyAfterSuccess(op) == op.res = "ok"

(* Every outcome but operation_aborted is followed by the next accept.     *)
AcceptsAgain(op) == op.res # "aborted"

(* The completion handler of async_accept: an accepted connection pushes   *)
(* an event.                                                               *)
RunAccept ==
    /\ MayRun
    /\ ready # <<>>
    /\ LET op == Head(ready)
       IN  /\ op.kind = "accept"
           /\ op.res = "aborted" \/ svr[op.who] = "open"
           /\ RunFirst(IF AcceptsAgain(op) THEN {AcceptOp(op.who)} ELSE {})
           /\ g_evt_queue' = IF op.res = "ok"
                             THEN PushEvent(g_evt_queue, Event("ACCEPT", op, TRUE, "none"))
                             ELSE g_evt_queue
    /\ main' = "pop"
    /\ UNCHANGED <<loop, evt, threadVars, tableVars, serverVars>>

(* The same handler for an accept that finished before its server was      *)
(* deleted: it reads port and calls do_accept through a dangling `this`.   *)
(* Undefined behaviour; no later step is modelled.                         *)
RunAcceptDeleted ==
    /\ MayRun
    /\ ready # <<>>
    /\ Head(ready).kind = "accept"
    /\ Head(ready).res # "aborted"
    /\ svr[Head(ready).who] = "deleted"
    /\ Goto("undefined")

(* asio_get, second half: return the first event, or NULL.                 *)
PopEvent ==
    /\ main = "pop"
    /\ g_evt_queue # <<>>
    /\ evt' = <<Head(g_evt_queue)>>
    /\ g_evt_queue' = Tail(g_evt_queue)
    /\ main' = "disp"
    /\ UNCHANGED <<loop, threadVars, tableVars, ioVars, serverVars>>

PopNull ==
    /\ main = "pop"
    /\ g_evt_queue = <<>>
    /\ Goto(AfterDispatch)

----------------------------------------------------------------------------
(* _evt_disp.                                                              *)
Addressee == th_tbl[evt[1].dest_id]

(* EVT_CONTINUE: resume the light thread, which returns from its operation *)
(* with the result.  coroutine.resume works on suspended coroutines only.  *)
DispContinue ==
    /\ main = "disp"
    /\ evt[1].type = "CONTINUE"
    /\ evt[1].dest_id \in DOMAIN th_tbl
    /\ at[Addressee] \in Parked
    /\ ~(at[Addressee] = "read_some" /\ ~evt[1].source)
    /\ at' = [at EXCEPT ![Addressee] = "active"]
    /\ stack' = <<Addressee>>
    /\ main' = "resumed"
    /\ evt' = <<>>
    /\ UNCHANGED <<loop, g_evt_queue, tableVars, ioVars, serverVars>>

(* The same, where conn:read_some learns of the failure: it keeps the data *)
(* and yields again for the message.                                       *)
DispReadSomeError ==
    /\ main = "disp"
    /\ evt[1].type = "CONTINUE"
    /\ evt[1].dest_id \in DOMAIN th_tbl
    /\ at[Addressee] = "read_some" /\ ~evt[1].source
    /\ at' = [at EXCEPT ![Addressee] = "read_some_err"]
    /\ main' = AfterDispatch
    /\ evt' = <<>>
    /\ UNCHANGED <<stack, loop, g_evt_queue, tableVars, ioVars, serverVars>>

(* EVT_ACCEPT: the accept handler runs on the main coroutine.              *)
DispAccept ==
    /\ main = "disp"
    /\ evt[1].type = "ACCEPT"
    /\ evt[1].dest_id \in DOMAIN handler_tbl
    /\ main' = "handler"
    /\ evt' = <<>>
    /\ UNCHANGED <<loop, g_evt_queue, threadVars, tableVars, ioVars, serverVars>>

(* The port holds no handler: calling nil is an error, like one of the     *)
(* handler's own.                                                          *)
DispNoHandler ==
    /\ main = "disp"
    /\ evt[1].type = "ACCEPT"
    /\ evt[1].dest_id \notin DOMAIN handler_tbl
    /\ main' = "chunk"
    /\ evt' = <<>>
    /\ UNCHANGED <<loop, g_evt_queue, threadVars, tableVars, ioVars, serverVars>>

HandlerReturns ==
    /\ main = "handler" /\ stack = <<>>
    /\ Goto(AfterDispatch)

(* Nothing catches an error of the accept handler: it leaves run or        *)
(* run_once and reaches the caller in the main chunk.                      *)
HandlerFails ==
    /\ main = "handler" /\ stack = <<>>
    /\ Goto("chunk")

----------------------------------------------------------------------------
(* The main chunk.                                                         *)
EnterLoop(l) ==
    /\ main = "chunk" /\ stack = <<>>
    /\ loop' = l
    /\ main' = "get"
    /\ UNCHANGED <<threadVars, queueVars, tableVars, ioVars, serverVars>>

(* run: `if asio_stopped() then break`                                     *)
RunContinues ==
    /\ main = "check" /\ ~stopped
    /\ Goto("get")

RunReturns ==
    /\ main = "check" /\ stopped
    /\ Goto("chunk")

Exit ==
    /\ main = "chunk" /\ stack = <<>>
    /\ Goto("exit")

(* The process has ended, or has lost its defined behaviour.               *)
Ended == main \in {"exit", "undefined"} /\ UNCHANGED vars

----------------------------------------------------------------------------
Init ==
    /\ TableInit
    /\ IoInit
    /\ at = [t \in Threads |-> "none"]
    /\ stack = <<>>
    /\ main = "chunk"
    /\ loop \in Loops
    /\ g_evt_queue = <<>>
    /\ evt = <<>>
    /\ svr = [s \in Servers |-> "none"]
    /\ handler_tbl = [p \in {} |-> 0]

UserStep ==
    \/ \E t \in Threads : Spawn(t) \/ Operate(t) \/ Return(t) \/ Fail(t)
    \/ \E s \in Servers : Listen(s) \/ ListenFails(s) \/ DeleteServer(s)
    \/ \E l \in Loops : EnterLoop(l)
    \/ HandlerReturns \/ HandlerFails \/ Exit

LoopStep ==
    \/ GetQueued \/ GetNoWork \/ GetNothing
    \/ RunTransfer \/ RunHandler \/ RunAccept \/ RunAcceptDeleted
    \/ PopEvent \/ PopNull
    \/ DispContinue \/ DispReadSomeError \/ DispAccept \/ DispNoHandler
    \/ RunContinues \/ RunReturns

KernelStep == \E op \in pending : Finish(op)

Next == UserStep \/ LoopStep \/ KernelStep \/ Ended

Spec == Init /\ [][Next]_vars

----------------------------------------------------------------------------
(* The loop keeps executing.  User code does not run forever without       *)
(* yielding or returning (a light thread that does would stop any program  *)
(* of this single-threaded design), and main enters the loop again or ends *)
(* the process.  The kernel finishes every operation of a light thread: a  *)
(* timer expires, a peer answers, closes, or is timed out by TCP.  Nothing *)
(* is assumed of incoming connections.  Before a queued handler run_one    *)
(* may find descriptor events that finish nothing, but not without end:    *)
(* op_queue_ is a FIFO that holds each descriptor once.                    *)
Fairness ==
    /\ WF_vars(LoopStep)
    /\ SF_vars(RunTransfer \/ RunHandler \/ RunAccept \/ RunAcceptDeleted)
    /\ \A t \in Threads :
          /\ SF_vars(Operate(t) \/ Return(t) \/ Fail(t))
          /\ WF_vars(\E op \in pending : op.who = t /\ Finish(op))
    /\ SF_vars(HandlerReturns \/ HandlerFails \/ Exit \/ \E l \in Loops : EnterLoop(l))

FairSpec == Spec /\ Fairness

----------------------------------------------------------------------------
Ops == [who : Threads \cup Servers, kind : Kinds \cup {"accept"}, dest_id : Nat,
        left : 1..MaxTransfers, res : Outcomes \cup {"none"}]

Events == [type : {"CONTINUE", "ACCEPT"}, dest_id : Nat, source : BOOLEAN,
           data : {"none", "bytes", "message"}, who : Threads \cup Servers]

ReadyOps == {ready[i] : i \in 1..Len(ready)}
Outstanding == pending \cup ReadyOps

(* The events on their way to _evt_disp: the first, which asio_get has     *)
(* returned or returns next, and those behind it.                          *)
AnyEvent == evt # <<>> \/ g_evt_queue # <<>>
FirstEvent == IF evt # <<>> THEN evt[1] ELSE g_evt_queue[1]
OtherEvents == IF evt # <<>> THEN g_evt_queue ELSE Tail(g_evt_queue)

(* Types of all variables.                                                 *)
TypeOK ==
    /\ TableType
    /\ pending \subseteq Ops /\ ready \in Seq(Ops) /\ stopped \in BOOLEAN
    /\ at \in [Threads -> Places] /\ stack \in Seq(Threads)
    /\ main \in MainPlaces /\ loop \in Loops
    /\ g_evt_queue \in Seq(Events) /\ evt \in Seq(Events)
    /\ svr \in [Servers -> {"none", "open", "deleted"}]
    /\ DOMAIN handler_tbl \subseteq Nat
    /\ \A p \in DOMAIN handler_tbl : handler_tbl[p] \in Servers

(* "just in case, would not be triggered" (luaAsio.cpp:62): push_event     *)
(* never has to drop an event, because asio_get runs the io_context only   *)
(* when the queue is empty and one handler pushes at most two events.      *)
QueueBound == Len(g_evt_queue) <= 2

(* An operation on its way carries the tid of the thread that started it,  *)
(* and that thread is still parked at it: tids freed and reused in the     *)
(* meantime (asio.lua:87-98) never redirect a completion.                  *)
Addressed ==
    \A op \in Outstanding : op.kind # "accept" =>
       /\ op.dest_id \in DOMAIN th_tbl
       /\ th_tbl[op.dest_id] = op.who
       /\ at[op.who] = op.kind

(* What a light thread parked at a place can be resumed with: the place,   *)
(* whether source is set, and the data.                                    *)
Results ==
    {<<"sleep", FALSE, "none">>,
     <<"connect", TRUE, "none">>,     <<"connect", FALSE, "message">>,
     <<"write", TRUE, "none">>,       <<"write", FALSE, "message">>,
     <<"read", TRUE, "bytes">>,       <<"read", FALSE, "message">>,
     <<"read_some", TRUE, "bytes">>,  <<"read_some", FALSE, "bytes">>,
     <<"read_some_err", FALSE, "message">>}

(* The next event for a light thread reaches the thread whose operation    *)
(* produced it, while it is suspended (resume of a missing, running or     *)
(* dead coroutine would raise or be ignored, asio.lua:259-266), with a     *)
(* result its call can return; data and message of a failed read_some come *)
(* in this order with nothing between them (luaAsio.cpp:169-170).          *)
EventFits ==
    AnyEvent =>
       LET e == FirstEvent
       IN  IF e.type = "ACCEPT" THEN OtherEvents = <<>>
           ELSE /\ e.dest_id \in DOMAIN th_tbl
                /\ th_tbl[e.dest_id] = e.who
                /\ <<at[e.who], e.source, e.data>> \in Results
                /\ OtherEvents = IF at[e.who] = "read_some" /\ ~e.source
                                 THEN <<Message(e)>>
                                 ELSE <<>>

(* A parked light thread is never forgotten: its operation is outstanding, *)
(* or an event for it is in flight.                                        *)
NoLostWakeup ==
    \A t \in Threads : at[t] \in Parked =>
       \/ \E op \in Outstanding : op.who = t
       \/ AnyEvent /\ FirstEvent.who = t

(* ... and never woken twice: there is one such operation, or one result   *)
(* in flight, not both.                                                    *)
SingleWakeup ==
    /\ \A i, j \in 1..Len(ready) : ready[i].who = ready[j].who => i = j
    /\ \A op \in pending :
          /\ \A op2 \in pending : op.who = op2.who => op = op2
          /\ \A i \in 1..Len(ready) : ready[i].who # op.who
    /\ \A op \in Outstanding :
          op.who \in Threads /\ AnyEvent => FirstEvent.who # op.who

(* A listening server always has an accept outstanding, whatever the       *)
(* earlier ones ended with (luaAsio.cpp:206-217).                          *)
AcceptArmed ==
    \A s \in Servers : svr[s] = "open" => \E op \in Outstanding : op.who = s

(* The io_context stops only when no server listens and no light thread    *)
(* waits for anything but an event that is already queued: it is the       *)
(* stopped flag that ends asio.run (asio.lua:323).                         *)
StopsWhenIdle ==
    [][~stopped /\ stopped' =>
          /\ \A s \in Servers : svr[s] # "open"
          /\ \A t \in Threads : at[t] \in Parked =>
                g_evt_queue' # <<>> /\ g_evt_queue'[1].who = t]_vars

(* Every light thread that waits is resumed, unless the process ends.      *)
Resumed ==
    \A t \in Threads :
       at[t] \in Parked ~> at[t] \notin Parked \/ main \in {"exit", "undefined"}

----------------------------------------------------------------------------
(* Statements of the documentation that the code does not meet.            *)

(* README.md:32, on asio.run: "This event loop is blocked during code      *)
(* execution", and README.md:57: a light thread in an operation "will wait *)
(* for completion".  run does not return while a light thread is suspended *)
(* in an operation.                                                        *)
RunsToCompletion == main = "check" /\ stopped => \A t \in Threads : at[t] \notin Parked

(* README.md:166: "accept_handler(conn) is your callback function when new *)
(* connection is established".  A handler that is called for a connection  *)
(* is the one the server that accepted it was created with.                *)
HandlerIsOwn ==
    main = "disp" /\ evt[1].type = "ACCEPT" /\ evt[1].dest_id \in DOMAIN handler_tbl
       => handler_tbl[evt[1].dest_id] = evt[1].who

(* README.md:170: "Server are automatically closed when the return value   *)
(* holder are garbage collected".  A closed server runs no accept handler. *)
ClosedServerIsSilent == main # "undefined"
=============================================================================
