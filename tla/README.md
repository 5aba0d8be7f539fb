# LuaAsio: verification project

TLA+ modules, TLC runs and TLAPS proofs for LuaAsio, a single-threaded
asynchronous TCP library for LuaJIT: `src/asio.lua` (light threads, API, loop)
over `src/luaAsio.cpp` (completion handlers, event queue) over the vendored
asio 1.24.0. References of the form `asio.lua:323` are to files under `src/`.

## 1. The system

| component | state | operations | correct when |
|---|---|---|---|
| light-thread table (`asio.lua:60-112`) | `th_tbl`, `th_free_id`, `th_to_id` | `_get_free_tid`, `_use_tid`, `_create_th`, `_remove_th` | a tid names one live coroutine; tids are reused and never issued twice |
| light threads (`asio.lua:100-172`, `271-315`) | the coroutines and where each is suspended | `spawn_light_thread`, the yields of `connect`, `read`, `read_some`, `write`, `sleep`, return, error | each suspended thread is woken once, with the result of its own operation |
| event queue (`luaAsio.cpp:40-65`, `471-510`) | `g_evt_queue` | `push_event`, `asio_get` | nothing is dropped or reordered |
| event loop (`asio.lua:250-269`, `317-332`) | none of its own; reads the `stopped` flag | `run`, `run_once`, `_evt_disp` | delivers every event; `run` returns only when nothing is left to do |
| server (`luaAsio.cpp:200-236`, `290-312`, `asio.lua:295-307`) | the acceptor, `port`, `handler_tbl` | `server`, the accept chain, `destory_server`, finaliser | keeps accepting while open, is silent once deleted, calls its own handler |
| connection (`luaAsio.cpp:92-196`, `asio.lua:125-182`) | socket, `_read_buff`, shared ownership, `cpoint` | `connect`, `read`, `read_some`, `write`, `close`, finaliser | data is delivered unchanged and in order; `close` aborts and wakes |
| connect and resolve (`luaAsio.cpp:322-408`, `asio.lua:271-288`) | none | endpoint choice | the documented endpoint is used, errors are returned |
| original destination (`luaAsio.cpp:179-196`, `366-445`) | one static `sockaddr_storage` | `get_original_dst`, `get_addr_ip_port` | every connection gets its own destination |
| sleep timer (`luaAsio.cpp:448-464` over `timer_queue.hpp`, `epoll_reactor.ipp`) | the timer heap, the timerfd, two clocks | `asio_sleep`, the reactor's look at the timers | wakes its thread, in order, not before its time but for the cut to milliseconds |
| io_context (vendored) | outstanding work, `op_queue_`, `stopped_` | `run_one`, `run_one_for`, `restart`, starting, finishing and cancelling operations | as asio documents |
| epoll reactor (vendored) | `descriptor_state`, edges of the kernel, the scheduler's task | `start_op`, `run`, `perform_io`, `deregister_descriptor` | no operation is missed, counted twice or left behind |
| transparent proxy (`README.md:64-128`) | two connections, three light threads | `connection_th`, `forward` | relays both streams, closes both ends |

How they interact. A light thread calls an operation, which passes the tid of
the running coroutine to C++ as `dest_id` and yields. The io_context finishes
the operation at any later time; its completion handler runs only inside
`asio_get` and pushes one event (two for a failed `read_some`). `asio_get`
returns one event; `_evt_disp` finds the coroutine by tid and resumes it, or
calls the accept handler of the port. Light threads and accept handlers may
spawn further light threads, which run at once, nested in the caller.

There is one OS thread. What is hard here is not parallelism but

- the order in which the kernel finishes operations against the steps of user
  code, including finishing before a close or a deletion takes effect;
- ids (tids, ports, raw pointers) that go through C++ and are looked up again
  later, after they may have been freed, reused or overwritten;
- a protocol of one or two events per operation that must match one or two
  yields, across returns of `run` and errors of user code;
- the `stopped` flag, set in one place and read after other code has run;
- the collector, which may delete a server or a connection between any two Lua
  instructions;
- memory that several operations share: `_read_buff` of a connection, the static
  buffer of `get_original_dst`;
- edge-triggered notification: readiness is reported once, and an operation that
  queues itself at the wrong moment would wait for good;
- two clocks: sleeps expire by the system clock, the timerfd runs on the monotonic one.

`PROJECT.json` lists the hazards at their lines with the properties aimed at
each of them.

## 2. Modules

| module | models |
|---|---|
| `IdAllocator` | abstract: every live light thread holds an id of its own |
| `ThreadTable` | the three tables of `asio.lua` and their operations; implements `IdAllocator` |
| `IoContext` | the part of `asio::io_context` that `luaAsio.cpp` relies on |
| `EventLoop` | light threads, event queue, loop, servers, composed from the two above |
| `ByteStream` | abstract: a reader gets the bytes that were sent, each once and in order |
| `Connection` | class `connection` and `conn_M`: socket, `_read_buff`, ownership, operations, bytes; implements `ByteStream` for one reader |
| `Resolve` | `get_original_dst`, `get_addr_ip_port`, the dispatch of `asio.connect`, the loop over the resolver's results |
| `Reactor` | epoll reactor and scheduler of asio under the operations of one connection |
| `TimerQueue` | `asio_sleep` over asio's timer heap, the timerfd and the clocks |
| `Proxy` | the client side of the README's proxy: two instances of `Connection` and three light threads; implements two `ByteStream`s |
| `MCThreadTable`, `MCEventLoop`, `MCResolve`, `MCTimerQueue` | TLC instances; the others are checked directly |
| `ThreadTableProofs`, `EventLoopProofs`, `ResolveProofs`, `ReactorProofs`, `TimerQueueProofs` | theorems and proofs about the module of that name |
| `ConnectionProofs`, `TransferProofs` | theorems and proofs about `Connection`, the second over the first: operations and ownership; the bytes that writes send and reads return |
| `ProxyProofs` | theorems and proofs about `Proxy`, over two instances of `TransferProofs` |

**ThreadTable.** Lua tables are partial functions. `#t` is whatever Lua
promises and no more: any border of `t`; `GetFreeTid` is therefore the *set* of
tids `_get_free_tid` may return. `_create_th` has no yield inside and is one
action; so is `_remove_th`.

**IoContext.** An operation is in `pending` until its outcome is known, then in
the FIFO `ready` until its handler runs. `RunFirst` runs the first handler and
then stops the context if no work is left, as `work_cleanup` does.
`CloseDescriptor` aborts pending operations and leaves finished ones alone,
as `deregister_descriptor` does. `RunNothing` is a wait that ends without a
handler: the time limit of `run_one_for`, or a descriptor event that finishes
no operation.

**EventLoop.** `main` is the position of the main coroutine:

| `main` | code |
|---|---|
| `chunk` | user code outside the loop |
| `get` | `asio_get` entered |
| `pop` | `asio_get` after the io_context has run (`luaAsio.cpp:493`) |
| `disp` | `_evt_disp` has an event |
| `resumed` | inside `resume` of a light thread (`asio.lua:263`) |
| `handler` | inside an accept handler (`asio.lua:255`) |
| `check` | `asio_stopped()` of `run` (`asio.lua:323`) |
| `exit`, `undefined` | the process has ended; its behaviour is undefined |

`stack` holds the light threads resumed from there, innermost last, so that
spawning from a light thread nests as in the code. `at[t]` says where coroutine
`t` is: at rest (`none`), `active`, `dead` after an error, or parked at the yield
of an operation; `read_some_err` is the second yield of a failed `read_some`.
`at` returns to `none` when a thread ends, so that a member of `Threads` stands
for a fresh coroutine each time it is spawned.

User code is arbitrary: at each point it may spawn, start any operation,
return, raise an error, create or delete a server, run the loop in any way, or
exit. Operations of connections are abstracted to their outcomes: success or
failure, after one to `MaxTransfers` transfers for the composed `read` and
`write`. `Connect`, `Read`, `ReadSome`, `Write` and `Sleep` are the API calls; all
of them are a `Call`, which starts the operation under the running thread's tid and
yields. Data is abstracted to whether it is empty, received bytes, or the text
of an error. The field `who` of operations and events is not in the code; it
records the party an operation was started for, so that properties can compare
it with the party that is reached. `loop` remembers which call of the loop
`main` is in: `run`, `once` (`run_once` without limit), `timed`, or `poll`
(`run_once(0)`, which never runs a handler because `run_one_for` compares the
clock with the deadline first).

Deleting a server is possible wherever Lua runs, because the finaliser of the
holder may run there. An accept handler that runs after its server was deleted
reads freed memory: the model then enters `undefined` and stops.

`EventLoop` has no action for `conn:close`. For a light thread that waits, a close by
another one is an operation that fails at that moment, and `Finish` lets any operation
fail at any moment; which operations a close ends is in `Connection`. `EventLoop`
assumes that no handler throws; `Connection` has the one call that can.

**Connection.** An operation is a record of the light thread it belongs to, its kind,
the size of its buffer, how much of it is transferred and its outcome. It waits in
`op_queue`, per direction, until the kernel performs it, and then in `ready` until
`run_one` runs its handler. `EventLoopProofs` shows that a handler's events resume its
light thread before another handler runs, so a handler and the return of the call it
completes are one step here. `FinishFirst` puts a finished operation behind or before
the ones queued: `perform_io` may find it for a descriptor event that was queued
earlier. `RunTransfer` is the next transfer of `async_read` or `async_write`, which
goes behind the operations other threads have started.

| variable | code |
|---|---|
| `object`, `owners` | the `connection` and its shared pointers: `cpoint` and the `self` of the handlers |
| `con`, `holders` | the Lua table, usable until `close` replaces its methods, and the light threads that can reach it |
| `read_buff`, `capacity`, `stale` | `_read_buff`; reads whose memory `resize` or `shrink_to_fit` has since moved |
| `sent`, `received`, `returned` | inbound bytes, numbered as sent: by the peer, taken by `recv`, handed to light threads |
| `out`, `wrote`, `acked` | outbound bytes the kernel took, the strings they belong to, the writes that returned true |

`received`, `returned`, `out`, `wrote` and `acked` exist for the properties. A `recv`
into memory that is freed is undefined, and no step is given for it: the model shows
nothing of what follows. `CloseErrors` says whether `close(2)` may report an error;
the throwing overload of `close` then leaves the handler before it has pushed its event.
A byte is a number: sizes and order are kept, contents are not.

**Resolve.** A `sockaddr` is what the kernel leaves in the buffer: the family, the port
in network byte order, and one field for each family's address, which lie at different
offsets; a short address leaves the tail of an earlier long one. Ports pass through the
ffi's `u_short`. `TryResult` is one round of the loop of `luaAsio.cpp:333`.
The order of the results is the resolver's: any.

**Reactor.** One `descriptor_state`, reused by the next socket after a close, and the
scheduler's queue with its three kinds of items: the task, the descriptor, finished
operations. `Connect` is a connect that is in progress, `ConnectAtOnce` one that succeeds
or fails in the call and is posted. `StartOp` is `epoll_reactor::start_op` with its
speculative attempt;
`RunTask` is `epoll_reactor::run`; `RunDescriptor`, `PerformIo`, `LeaveDirection`,
`RunFirstDone`, `NothingDone` are the parts of `perform_io`, between which the kernel may
act. The kernel's side (`avail`, `space`, `ended`, `nospace`, `listed`) is external: it
lists a descriptor when something changes and reports all that it is ready for.

**TimerQueue.** The heap is asio's, position by position, counted from 1. The loops
`up_heap` and `down_heap` are recursive functions of a queue and a place in it, and
`get_ready_timers` one of what is left and what was taken. The reactor
takes what is due (`CheckTimers`) and then arms the timerfd by a second look at the
clock (`Rearm`); time may pass, and the system clock be set, in between. `seen` is the
offset of the system clock when the timerfd was armed, `due` the end of a sleep as it
was asked for, by the monotonic clock; both are there for the properties. Durations and
clocks are in ticks, `Milli` of them to a millisecond; `WholeMillis` is the conversion of
`asio_sleep`, which truncates towards zero.

**Proxy.** `pc` is where each of the three light threads is in its function. A thread
goes on when neither connection has it in a call. The unprefixed variables are those of
the accepted connection, the ones with a 2 those of the connection to the remote host.
`had` remembers how many bytes a forward thread had read before each `read_some`, so
that bytes written can be compared with bytes read.

## 3. Runs

| run | cfg | checks |
|---|---|---|
| `thread_table` | `ThreadTable.cfg` | the tables stay inverse, the free stack is sound, issued tids have no gap, freed tids are reused first, `IdAllocator` is implemented |
| `event_loop` | `EventLoop.cfg` | types, queue bound, events fit the yield they reach, no lost wake-up, accepts stay armed, the context stops only when idle; completions reach the thread that started the operation, once, while tids are freed and reused |
| `resumption` | `EventLoopLiveness.cfg` | every suspended light thread is eventually resumed |
| `connection` | `Connection.cfg` | an operation never outlives its object, nothing waits on a closed socket, an operation's thread waits in that call, a call keeps its operation unless its own handler throws, which happens to one call at most, reads of any sizes implement `ByteStream`, each writer's strings leave in order and complete; nobody hangs on a connection that is gone, and a closed or unreachable connection is freed |
| `resolve` | `Resolve.cfg` | a redirected connection goes to its own destination; a name to a result of its own call, and to a v6 address if that is asked for and was found |
| `reactor` | `Reactor.cfg` | outstanding work is exact, no edge is lost, the queue's order survives reuse of the descriptor, an operation on a ready socket is performed |
| `timers` | `TimerQueue.cfg` | heap and indices are sound, the timerfd is armed in time, sleeps expire in order and less than a millisecond early, every sleep ends |
| `proxy` | `Proxy.cfg` | both directions are byte streams from end to end, behind a whole header; when a forward thread gives up, or a peer ends and no other stalls, all threads end and both connections are freed |
| `run_returns_early` | `RunsToCompletion.cfg` | *violation*: `run` returns with a light thread suspended |
| `handler_of_another_server` | `HandlerIsOwn.cfg` | *violation*: a connection goes to the handler of another server call |
| `accept_after_delete` | `ClosedServerIsSilent.cfg` | *violation*: the accept handler of a deleted server runs |
| `resolves_other_family` | `ResolvesAsAsked.cfg` | *violation*: a name is connected to by v6 without `resolve_v6`, though it has a v4 address |

What the violations show:

- `run_returns_early`. The last outstanding operation finishes; `run_one` runs its
  handler and sets `stopped_` as no work is left; `_evt_disp` resumes the light
  thread, which starts its next operation and yields; `asio_stopped()` is still
  true and `run` returns. Two `asio.sleep` calls in one light thread, with no
  server and no other thread, are enough. Nothing is lost: the next call of
  `run` restarts the context (`resumption` covers this).
- `handler_of_another_server`. `handler_tbl` is keyed by the port and written
  before the server is created (`asio.lua:296`), so a second call with the same
  port, on another address or a failing one, takes over the connections.
- `accept_after_delete`. An accept finishes, its server is deleted before the
  handler has run; closing the acceptor does not change the outcome, so the
  handler does not see `operation_aborted`.
- `resolves_other_family`. The loop over the resolver's results breaks only for a v6
  address with `resolve_v6` (`luaAsio.cpp:335`); without it the last result is taken,
  of either family. `README.md:174` has `resolve_v6=false`, and `test.lua:115` reaches
  a server on `127.0.0.1` by `localhost`.

What the models show besides, as consequences of their actions and not as runs:

- A close that fails loses a wake-up (`HandlerThrows`). The handlers of `read`,
  `read_some` and `write` call `_socket.close()` before they push the event
  (`luaAsio.cpp:133`, `150`, `167`); it throws when `close(2)` reports an error,
  `asio_get` logs it and the light thread stays suspended. Such an error is rare on
  sockets; pushing the event first would make it harmless. The model records the
  thread (`at` is `lost`), and `CallsReturn` says that every other thread in a call has
  an operation outstanding and that a connection loses one thread at most: the close
  that threw has closed the socket, and no later handler closes it again.
- Two readers of one connection get wrong bytes (`PrepareBuffer`, `Received`): the second
  call resizes the buffer of the first operation, and each completion hands over the
  buffer as it is then. `ImplementsStream` is for one reader.
- Two writers of one connection may cut each other's strings (`RunTransfer`):
  `async_write` queues its next transfer behind the operations of the other thread. Each
  thread's own bytes stay in order (`WritesComplete`). One reader and one writer per
  connection, as in the proxy, are safe; `README.md:55` ("you don't have to worry about
  ... race conditions") does not draw this line.
- `asio.connect` raises for a name the resolver does not know (`ConnectName`): `resolve`
  throws inside the catch block of `asio_new_connect`, where nothing catches it, and
  `README.md:180` says `nil, err_msg`.
- Without an original destination the proxy's `connection_th` raises (`HeaderFails`):
  `xor_str(nil)` at `README.md:98`, after the connect. The dead coroutine stays in
  `th_tbl` and keeps both connections.
- A server created without a handler (`test.lua:87` calls `asio.server` so) raises out of
  `run` for each connection it accepts (`DispNoHandler`).
- A peer of the proxy that stops reading holds the forward thread that writes to it
  (`Stalls`). That thread does not see its own peer end, and the proxy shuts down only
  when the write does: there is no timeout.
- A sleep ends up to a millisecond early. `asio_sleep` converts seconds by
  `(int64_t)(sec * 1000)` (`luaAsio.cpp:453`), which cuts off what is less than a
  millisecond: `sleep(0.0015)` waits for one millisecond, `sleep(0.0009)` not at all, and
  a product that floating point puts just below a whole number loses nearly a whole one.
  `README.md:192` has the thread suspended "until the duration have elapse". `NotEarly`
  says that nothing adds to this.
- A sleep ends early when the system clock is set forward, since `deadline_timer` expires
  by that clock: hence the premise of `NotEarly`.

Bounds. All are in the cfg files.

- `Threads`: four coroutines for the table alone; two in the loop, which give nesting
  and competing completions, and let one end and come back as a new coroutine with a
  freed tid while the other has an operation in flight. The theorems cover any number.
- `Servers`: one; two where the handlers of servers compete.
- `MaxTransfers = 2`: one transfer, and one that has a successor.
- `MAX_EVT_MSG = 3` for the code's 10240: above the two events the queue can hold,
  so that a drop would need a real overflow. The theorem covers every capacity of
  at least two.
- `resumption` uses `read_some` (two events) and `write` (composed),
  the two kinds with a protocol of their own; `event_loop` has all five.
- `connection`: a reader that also writes and a second writer, strings of two bytes;
  `MAX_BUFF_SIZE = 2` for the code's 10240, with reads of 0, 1 and 3, so that sizes lie
  below and above it and the buffer shrinks and moves; four inbound bytes give a whole
  long read and a rest. Each writer writes once here; the forward threads of `proxy`
  write again and again.
- `resolve`: every result list of at most three addresses, two of each family, so that a
  v6 address comes first, in the middle, last, twice or never; ports above and below
  65536; two redirected connections that overwrite the static buffer for each other.
- `reactor`: two threads that read, so that one waits behind the other at an end of
  file, one of which also writes; operations of two bytes over kernel buffers of two, so
  that transfers are whole, partial or refused; two sockets, so that the descriptor is
  reused once.
- `timers`: four timers give a heap of three levels, in which the entry that replaces
  the first must choose between two children; with two ticks to a millisecond, sleeps of
  -0.5 ms, which is cut to zero, and of 1.5 ms, which is cut to one, over a
  `MaxWait` of one tick, started at two moments; the system clock is set once, back or
  forward. `MaxTime` is the end of the latest sleep that `LastStart` admits with the
  clock set back.
- `proxy`: two bytes in each direction, by `read_some`s of at most two, behind a header
  of two bytes.

No run uses symmetry. Deadlock is checked for the table, the loop and `Resolve`: the
only final states of the loop are `exit` and `undefined`, which stutter explicitly. It is not checked for `Connection`, `Reactor`, `TimerQueue`
and `Proxy`: there all light threads may end, and bounded peers and clocks come to rest.
That no thread is left behind is what their liveness properties say.

Fairness (`resumption`). The loop keeps executing; user code returns or yields;
main enters the loop again or exits; the kernel finishes each operation of a
light thread, since timers expire and peers answer, close or time out. No
fairness is given to incoming connections, nor to deletion, spawning, or
creation of servers. Strong fairness on running a queued handler says that
descriptor events which finish nothing do not precede it forever: `op_queue_`
is a FIFO that holds each descriptor once. `poll` is left out of this run: a
program that only calls `run_once(0)` never runs a handler. The user-code
conditions are strong because control comes and goes from a piece of user code.

The other runs with fairness assume less. All of them let the loop run on, which `asio.run`
does as long as work is outstanding.

- `connection`: handlers that are queued run, the kernel hands over what has
  arrived and reports errors, the collector finds garbage. Sending is not fair: a peer
  that does not read leaves `send` without space for good. Nothing is assumed of peers
  or of light threads: `Wakes` starts where the connection is already gone, `Freed` where
  nobody holds it. A thread that the throwing close has lost is not woken; `Wakes` excepts
  it alone.
- `reactor`: only that `run_one` is called. That a read behind another one's end of file
  is served at all rests on the handler closing the socket; without that close `Served`
  fails.
- `timers`: time passes and `run_one` is called.
- `proxy`: the above, and light threads run until they yield. The peers need not send,
  read or end. `ShutsDown` has two parts. When a forward thread closes the connections,
  everything is freed, whatever the other one waits in. When a peer ends, the same
  follows, unless a forward thread stays in one write for ever, to a peer that is still
  there; without this exception the property is false.

## 4. Proofs

`ThreadTableProofs` proves, for every set of coroutines and every border Lua may
choose, `TableSpec => []TableInv`, `ReusesFirst` and `ImplementsAllocator`. The
conjuncts of `TableInv` need each other: `#th_tbl + 1` is a fresh tid only because
the free stack is empty when it is computed and issued tids have no gap, so that
`th_tbl` has no hole and one border.

`EventLoopProofs` proves the safety properties of `EventLoop` for every set of
threads and servers, every assignment of ports, every `MaxTransfers >= 1` and
every capacity of at least two events. The assumptions on the constants are
`LoopAssumption` in `EventLoop`. No property of the list is inductive alone. `IInv` adds

- `Registered`, `StackSound`: who is in the table, who is on the stack;
- `EvtSound`, `EventOwned`: when `_evt_disp` has an event, and whose;
- `OpsOwned`: the owner of an outstanding operation is parked at it and its tid is
  still the one the operation carries; `ReadyDone`: queued handlers have an outcome;

to `TypeOK`, `TableInv`, `EventFits`, `SingleWakeup`, `NoLostWakeup` and
`AcceptArmed`. The argument in short: a parked thread cannot act, so the tid its
operation carries cannot be freed; one handler runs only when the queue is empty,
so the events in flight are those of one operation; that operation was the only
one of its owner, so no second wake-up exists. Each action has its lemma; actions
that only move `main` share `MoveStep`, those of `_evt_disp` share `DispStep`.

`ConnectionProofs` proves, for any light threads, sizes and `MAX_BUFF_SIZE`, with and
without throwing closes (`ConnectionAssumption`), what keeps a connection's operations
and their light threads together. `OpKeepsObject` and `CallsReturn` cannot be shown
from one step to the next: whether a collection frees the object depends on who owns
it, and whether a close wakes a thread on where its operation is queued. `IInv` adds

- `Queues`: every operation is in one place, no light thread has two, and an operation
  has a result exactly when its handler is queued;
- `OpsSound`: the handler of an operation owns the object; that of a connect does not,
  but then its thread is the only one that has `con`, and `con` is usable;
- `Owned`, `LuaKeeps`: the object exists while it is owned, and Lua owns it while a
  thread can use `con`; `Unborn`: nothing happens before the connection exists;
- `LostByClose`, `Returning`: a thread is lost only where the socket is closed, at most
  one, and every other thread in a call has its operation.

`close` and the abort of a failed operation move whole queues; `AbortOps` and `Carried`
say what that does to them as sets, so that no proof looks into a queue twice.

`TransferProofs` proves `WritesComplete` for any number of writers. `WriteInv` says of an
outstanding write that the strings before it are complete and that of its own bytes
exactly the transferred ones are on the wire, unless it has failed; and that on an open
socket everything is written that is not being written. The latter is what lets the
next write begin without a gap: it holds because a handler that sees an error closes the
socket before the thread goes on.

It also proves that reads implement `ByteStream`, under `OneReader`: `Readers` is a
singleton. It is the condition under which the property is stated and the run checks it;
with two readers it is false. `StreamInv` ties `read_buff` to the stream: it has the size
of the outstanding read, and its first `got` bytes are those after the bytes returned.
Bytes that were received and not returned can exist without a read only on a closed
socket, so none is skipped.

`ResolveProofs` proves `Redirects` and `ConnectsToResult` for any addresses, ports, result
lists and connections (`ResolveAssumption`). The first rests on each `lua` string being a
copy that decodes to its own destination (`CopiesDecode`), the second on what the loop
has passed so far (`LoopSound`); `PortRoundTrip` is the byte order of a port.

`ReactorProofs` proves the safety properties of `Reactor` for any threads, sizes, buffers
and number of sockets (`ReactorAssumption`). `IInv` has five parts: `Shapes`; `Waiters`, an
operation waits in its direction on the open socket with bytes to transfer; `Queue`, the
task once and behind the one descriptor item; `WorkExact`; and `Edges`. `NoLostEdge` speaks
of operations that wait now, but an operation may come to wait on a socket that has been
ready for long: `start_op` tries at once only while `try_speculative_` is set. So
`Edge` claims the notice for every ready direction that is waited for *or would
not be tried at once*; `SpaceAsked` has the kernel's side of it for writers (the kernel
reports space only to those who met its lack); `Asked` says that the events are registered;
and a direction `perform_io` has yet to visit is speculative. `WorkExact` needs the number
of finished operations in the queue through every change of it: `Count` and the queue
lemmas (`RequeueFacts` among them) give it.

`ProxyProofs` proves `HeaderFirst` and `RelaysStream` for any length of the header, any
`MAX_BUFF_SIZE` and any number of bytes and writes (`ProxyAssumption` on top of
`ConnectionAssumption`: three different light threads, of which the two forward threads
read, and closes that do not throw). Nothing is proved of a connection again: `U` and `D`
are instances of `TransferProofs` for upstream and for the connection to the remote host,
each with the one reader it has. `ProxyConnections` shows that both are connections so
restricted, hence every theorem about `Connection` holds of both. `ProxyInv` adds to their
three invariants

- `Roles`, `Started`, `HeaderSent`: each light thread makes its own calls only; a forward
  thread exists only after `acked2[main]` says that the header is written, which by
  `WritesComplete` means that it is on the wire; and `main` has nothing else to write;
- `UpRelays` and `DownRelays`, for each direction: where the thread is in its loop, how
  much it has read, and how much of that has left. On an open socket everything read has
  left but for the string being written, and of that what its operation has transferred;
  byte `i` of string `m` on the wire is byte `had[m] + i` of the stream.

The condition on the socket is needed because the other thread may close the connection
under a write that is half done; it is enough because nothing is sent on it afterwards.
A direction is disturbed by its own thread (`ForwardReadsStep`, `ForwardWritesStep`,
`ForwardTurns`), by the kernel and the loop (`UpBackground`, `DownBackground`), and by
no call of another thread but its `close` (`Others`). From `ProxyInv` and `StreamInv` what
has left are the first bytes of the stream (`InvStreams`), and since the wire only grows
(`WireGrows`) each step is a step of `ByteStream` (`BothMove`, `MovesStep`).

`TimerQueueProofs` proves the safety properties of `TimerQueue` and `ExpiresInOrder` for any
light threads, durations, `MaxWait` and settings of the clock (`TimerAssumption`). What the
loops of the heap compute for every heap takes an induction, but the library's induction
theorems take an operator, which the provers cannot instantiate. The least number
principle (`Least`) needs none: it is the well-foundedness of `<` applied to a set. From it
come two lemmas about any loop, given by its domain, its body and where it stops:

- `LoopExists`: the equation of the recursive function has a solution, so the function
  satisfies it (TLA+ only chooses one that does if there is one). It holds for loops that
  do not end as well: a solution takes the result of a stopping state that is in every
  set which holds the start and is closed under the body;
- `LoopEnds`: if the body lowers a number and keeps a set of states, the loop ends in a
  stopping state of that set, with its result.

With these, `UpHeap` and `DownHeap` are loop invariants: `UpTo` (only the entry that moves
may be earlier than its parent, and its children are not earlier than its parent) and
`DownTo` (only its children may be earlier than it). Both loops only shuffle the entries,
in order or not (`Shuffled`). `Enqueue` and `Dequeue` are what enqueue_timer and remove_timer
do to the *set* of entries, which is all the rest needs; `Replaced` says that the test in
remove_timer picks the loop whose invariant holds. `FirstIsEarliest` is by the least index
that would contradict it, and `GetReady` is the loop invariant `TakenOff` of
get_ready_timers: what was taken is due, in order, each once, and not later than what is left.

`IInv` is `TypeOK`, `HeapSound`, `ArmedInTime` and `Punctual`. `ArmedInTime` depends on
`HeapSound` and not only on the step: a sleep that is not the earliest leaves the timerfd
alone, and that this is right follows from the first entry being an old one, hence not
earlier than the old first one; that there was an old one follows from the index of a
timer being its place. `NotEarly` speaks of sleeps that have expired; `Punctual` adds that
of pending ones the heap holds a time less than a millisecond before the one they should
end at (`CutShort`: the conversion cuts off no more), as long as the clock was not set.

TLC was given the inductive invariants on the bounds of the runs before they were proved.

| theorem | states |
|---|---|
| `TableCorrect` | `TableSpec => []TableInv` |
| `MapsInverse`, `FreeIdsSound`, `TidsWithoutGaps` | `TableSpec => []TwoWay`, `[]FreeStackSound`, `[]NoGaps` |
| `TableTypes` | `TableSpec => []TableType` |
| `TableReusesFirst` | `TableSpec => ReusesFirst` |
| `TableImplementsAllocator` | `TableSpec => ImplementsAllocator` |
| `LoopInvariant`, `LoopTypes` | `Spec => []IInv`, `Spec => []TypeOK` |
| `NothingDropped` | `Spec => []QueueBound` |
| `EventsReachTheirOwner` | `Spec => [](Addressed /\ EventFits)` |
| `OneWakeup` | `Spec => [](NoLostWakeup /\ SingleWakeup)` |
| `WakeupsKept`, `TidsStayValid` | `Spec => []NoLostWakeup`, `Spec => []Addressed` |
| `ServersKeepAccepting` | `Spec => []AcceptArmed` |
| `StopsOnlyWhenIdle` | `Spec => StopsWhenIdle` |
| `LoopUsesTable` | `Spec => TableSpec`: the table's theorems hold in the running program |
| `ConnectionInvariant`, `ConnectionTypes` | `Spec => []IInv`, `Spec => []TypeOK` |
| `ObjectOutlivesOps` | `Spec => []OpKeepsObject` |
| `ClosingEndsAll` | `Spec => []NothingWaitsOnClosed` |
| `OpsHaveCallers`, `NoCallIsLost` | `Spec => []OpHasCaller`, `Spec => []CallsReturn` |
| `StringsLeaveComplete` | `Spec => []WritesComplete` |
| `ReadsAreAStream` | `Spec => ImplementsStream` if there is one reader |
| `RedirectsAlways`, `ConnectsToResultAlways` | `Spec => []Redirects`, `Spec => []ConnectsToResult` |
| `ReactorInvariant`, `ReactorTypes` | `Spec => []IInv`, `Spec => []TypeOK` |
| `WorkIsExact` | `Spec => []WorkExact` |
| `EdgesAreKept` | `Spec => []NoLostEdge` |
| `TaskStaysBehind` | `Spec => []TaskBehindDescriptors` |
| `TimerInvariant`, `TimerTypes` | `Spec => []IInv`, `Spec => []TypeOK` |
| `HeapStaysSound` | `Spec => []HeapSound` |
| `AlwaysArmedInTime` | `Spec => []ArmedInTime` |
| `NeverEarly` | `Spec => []NotEarly` |
| `ExpireInOrder` | `Spec => ExpiresInOrder` |
| `ProxyInvariant` | `ProxySpec => []ProxyInv` |
| `ProxyConnections` | `ProxySpec => U!Spec /\ D!Spec`: what is proved of a connection holds of both |
| `HeaderGoesFirst` | `ProxySpec => []HeaderFirst` |
| `RelaysBothStreams` | `ProxySpec => RelaysStream` |

Only model-checked:

- liveness under fairness, which is out of the prover's reach: `Resumed`, `Wakes`,
  `Freed`, `Served`, `Awakes`, `ShutsDown`;
- the violations, which are counterexamples.

## 5. Not modelled

- `run` or `run_once` called from inside a light thread or an accept handler, and
  `coroutine.resume` of a light thread by user code (as `test/test.lua` does).
- `addr_to_str`, which formats what `get_addr_ip_port` returns; contents of messages
  and of the log; `udp` (commented out).
- Exceptions of `asio_get` other than that of a failing `close`: memory running out.
- Undefined behaviour after a read into freed memory, or after an accept handler of a
  deleted server; the models stop there.
- Of asio: more than one thread and the locks for it, the interrupter, cancellation
  slots, strands, signals, executors as such; the reactors of other platforms (IOCP
  appears only as operations that may finish while Lua runs).
- The README proxy's remote side, and `xor_str` beyond keeping the length.
- The rest of the vendored asio and boost: ssl, serial ports, files, pipes, `read_until`,
  datagrams, coroutines, generic executors. LuaAsio's own code is about 850 lines, and
  they are modelled but for the points above. The vendored headers are more than 180,000
  lines; LuaAsio reaches a small part of them, of which the scheduler, the epoll reactor,
  the socket operations, composed reads and writes and the timer queue carry logic the
  library depends on and are modelled as far as it uses them. A model of what the program
  never instantiates would show nothing about it, so by lines the project covers a small
  share of the repository.

## 6. Plan

1. That the operations of `Connection` are, for each light thread, operations of
   `IoContext` as `EventLoop` uses them.
