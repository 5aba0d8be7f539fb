----------------------------- MODULE Connection -----------------------------
(***************************************************************************)
(* One connection: the C++ object with its socket and read buffer, the     *)
(* shared pointers that keep it, the operations light threads have         *)
(* outstanding on it, and the bytes that pass through.                     *)
(*                                                                         *)
(* Every completion handler runs on its own and its event resumes the      *)
(* light thread before the next one runs (proved of EventLoop), so here a  *)
(* handler and the return of the call it completes are one step.           *)
(*                                                                         *)
(* Inbound bytes are numbered as the peer sends them, and 0 is the byte    *)
(* std::string::resize fills with.  An outbound byte is <<t, m, i>>: byte  *)
(* i of the m-th string that light thread t writes.                        *)
(***************************************************************************)
EXTENDS Naturals, SequencesExt

CONSTANTS Users,            \* light threads that may come to hold the connection
          Readers, Writers, \* those that read from it, and that write to it
          Sizes,            \* arguments of conn:read
          Lengths,          \* lengths of the strings given to conn:write
          MAX_BUFF_SIZE,    \* what conn:read_some asks for
          CloseErrors,      \* whether close(2) may report an error
          MaxIn,            \* bound: bytes the peer sends
          MaxWrites         \* bound: calls of conn:write of one thread

ASSUME ConnectionAssumption ==
    /\ Readers \subseteq Users /\ Writers \subseteq Users
    /\ "lua" \notin Users
    /\ Sizes \subseteq Nat /\ Lengths \subseteq Nat \ {0}
    /\ CloseErrors \in BOOLEAN
    /\ MAX_BUFF_SIZE \in Nat \ {0} /\ MaxIn \in Nat /\ MaxWrites \in Nat

VARIABLES
    object,       \* "none", "alive" or "freed": the connection object
    owners,       \* its shared pointers: "lua" for cpoint, t for the handler of t
    con,          \* "usable", or "closed" once conn:close has replaced the methods
    holders,      \* light threads whose stack or arguments hold con
    socket,       \* "open" or "closed"
    read_buff,    \* _read_buff
    capacity,     \* _read_buff.capacity()
    stale,        \* light threads whose read points to memory since freed
    op_queue,     \* the descriptor's operations that wait, per direction
    ready,        \* finished operations, their handlers not yet run
    at,           \* each light thread: "idle", "run", "done", its operation, or
                  \* "lost" in a call whose event was never pushed
    peer,         \* "open", "finished" (sent FIN) or "reset"
    sent,         \* how many inbound bytes the peer has sent
    received,     \* how many of them recv has returned
    returned,     \* bytes each light thread got from its reads
    out,          \* outbound bytes the kernel has taken
    wrote,        \* lengths of the strings each light thread began to write
    acked         \* how many of them it was told are written

ownVars == <<object, owners, con, holders>>
buffVars == <<read_buff, capacity, stale>>
opVars == <<socket, op_queue, ready>>
peerVars == <<peer, sent>>
inVars == <<received, returned>>
outVars == <<out, wrote, acked>>
vars == <<ownVars, buffVars, opVars, at, peerVars, inVars, outVars>>

Kinds == {"connect", "read", "read_some", "write"}

(* read_op and write_op; a connect waits for the socket to be writable.    *)
Direction(kind) == IF kind \in {"read", "read_some"} THEN "in" ELSE "out"

Waiting == ToSet(op_queue["in"]) \cup ToSet(op_queue["out"])
Outstanding == Waiting \cup ToSet(ready)

----------------------------------------------------------------------------
(* The read buffer.                                                        *)

(* std::string::resize                                                     *)
Resize(s, n) == [i \in 1..n |-> IF i <= Len(s) THEN s[i] ELSE 0]

(* recv writes bytes at an offset of the buffer; what lies behind its end  *)
(* is spare capacity and no part of the string.                            *)
Overwrite(s, offset, bytes) ==
    [i \in 1..Len(s) |->
        IF i - offset \in 1..Len(bytes) THEN bytes[i - offset] ELSE s[i]]

(* resize(n), at least doubling what it has to grow, and shrink_to_fit     *)
(* when always or when the capacity is above MAX_BUFF_SIZE.  A read that   *)
(* is outstanding keeps its pointer to the old memory.                     *)
PrepareBuffer(n, always) ==
    LET grown == IF n > capacity THEN Max({n, 2 * capacity}) ELSE capacity
        fit == IF always \/ grown > MAX_BUFF_SIZE THEN n ELSE grown
    IN  /\ read_buff' = Resize(read_buff, n)
        /\ capacity' = fit
        /\ stale' = IF fit = capacity THEN stale
                    ELSE stale \cup {op.who : op \in {o \in Outstanding : Direction(o.kind) = "in"}}

----------------------------------------------------------------------------
(* The socket and its operations.                                          *)
WithResult(op, res) == [op EXCEPT !.res = res]

NewOp(t, kind, size) == [who |-> t, kind |-> kind, size |-> size, got |-> 0, res |-> "none"]

(* Wrong variant: closing drops what waits.                                *)
CloseSocket_Drops(rest) ==
    /\ socket' = "closed"
    /\ op_queue' = [d \in {"in", "out"} |-> <<>>]
    /\ ready' = rest

(* Wrong variant: closing aborts the reads only.                           *)
CloseSocket_ReadsOnly(rest) ==
    /\ socket' = "closed"
    /\ op_queue' = [op_queue EXCEPT !["in"] = <<>>]
    /\ ready' = rest \o [i \in 1..Len(op_queue["in"]) |-> WithResult(op_queue["in"][i], "fail")]

(* _socket.close() or ~socket: deregister_descriptor aborts what waits, in *)
(* the order of the reactor's queues.  rest: the handlers queued before.   *)
CloseSocket(rest) ==
    LET aborted == op_queue["in"] \o op_queue["out"]
    IN  /\ socket' = "closed"
        /\ op_queue' = [d \in {"in", "out"} |-> <<>>]
        /\ ready' = rest \o [i \in 1..Len(aborted) |-> WithResult(aborted[i], "fail")]

(* Wrong variant: an operation on a closed socket waits like any other.    *)
StartOp_OnClosed(op, rest) ==
    /\ op_queue' = [op_queue EXCEPT ![Direction(op.kind)] = Append(@, op)]
    /\ ready' = rest
    /\ UNCHANGED socket

(* An operation without bytes to transfer is done; one on a closed socket  *)
(* has failed (bad_descriptor); any other waits its turn.                  *)
StartOp(op, rest) ==
    /\ UNCHANGED socket
    /\ IF op.kind # "connect" /\ op.size = 0
       THEN ready' = Append(rest, WithResult(op, "ok")) /\ op_queue' = op_queue
       ELSE IF socket = "closed"
       THEN ready' = Append(rest, WithResult(op, "fail")) /\ op_queue' = op_queue
       ELSE /\ ready' = rest
            /\ op_queue' = [op_queue EXCEPT ![Direction(op.kind)] = Append(@, op)]

(* Wrong variant: the last handler does not let go of its pointer.         *)
Release_Leaks(owner, closing, rest) ==
    /\ owners' = owners /\ object' = object
    /\ IF closing THEN CloseSocket(rest)
       ELSE ready' = rest /\ UNCHANGED <<socket, op_queue>>

(* A shared pointer goes; the last one destroys the object and with it the *)
(* socket.  closing: the handler closed the socket itself.                 *)
Release(owner, closing, rest) ==
    /\ owners' = owners \ {owner}
    /\ object' = IF owners' = {} THEN "freed" ELSE object
    /\ IF closing \/ owners' = {} THEN CloseSocket(rest)
       ELSE ready' = rest /\ UNCHANGED <<socket, op_queue>>

----------------------------------------------------------------------------
(* Creation.                                                               *)

(* An accepted connection: its handler gives con to light threads.         *)
Accepted ==
    /\ object = "none"
    /\ object' = "alive" /\ owners' = {"lua"} /\ con' = "usable" /\ socket' = "open"
    /\ holders' \in SUBSET Users
    /\ at' = [t \in Users |-> IF t \in holders' THEN "run" ELSE "idle"]
    /\ UNCHANGED <<op_queue, ready, buffVars, peerVars, inVars, outVars>>

(* asio.connect: its handler has no shared pointer; con waits on the stack *)
(* of the light thread.                                                    *)
Connect(t) ==
    /\ object = "none"
    /\ object' = "alive" /\ owners' = {"lua"} /\ con' = "usable" /\ socket' = "open"
    /\ holders' = {t}
    /\ at' = [at EXCEPT ![t] = "connect"]
    /\ op_queue' = [op_queue EXCEPT !["out"] = <<NewOp(t, "connect", 0)>>]
    /\ UNCHANGED <<ready, buffVars, peerVars, inVars, outVars>>

(* A light thread gives con to another one it spawns, as the proxy of      *)
(* README.md does with both its connections.                               *)
Share(t, u) ==
    /\ at[t] = "run" /\ t \in holders /\ at[u] = "idle"
    /\ holders' = holders \cup {u}
    /\ at' = [at EXCEPT ![u] = "run"]
    /\ UNCHANGED <<object, owners, con, buffVars, opVars, peerVars, inVars, outVars>>

----------------------------------------------------------------------------
(* Calls of light threads.  On a closed con they return at once.           *)
MayCall(t) == at[t] = "run" /\ t \in holders /\ con = "usable"

(* Wrong variant: the handler captures this.                               *)
Capture_This(t) == owners' = owners

(* auto self = shared_from_this(), which the handler captures.             *)
Capture(t) == owners' = owners \cup {t}

Read(t, n) ==
    /\ MayCall(t) /\ t \in Readers
    /\ Capture(t)
    /\ PrepareBuffer(n, FALSE)
    /\ StartOp(NewOp(t, "read", n), ready)
    /\ at' = [at EXCEPT ![t] = "read"]
    /\ UNCHANGED <<object, con, holders, peerVars, inVars, outVars>>

ReadSome(t) ==
    /\ MayCall(t) /\ t \in Readers
    /\ Capture(t)
    /\ PrepareBuffer(MAX_BUFF_SIZE, TRUE)
    /\ StartOp(NewOp(t, "read_some", MAX_BUFF_SIZE), ready)
    /\ at' = [at EXCEPT ![t] = "read_some"]
    /\ UNCHANGED <<object, con, holders, peerVars, inVars, outVars>>

(* The string is copied to a shared_const_buffer the operation owns.       *)
Write(t, n) ==
    /\ MayCall(t) /\ t \in Writers
    /\ Len(wrote[t]) < MaxWrites
    /\ Capture(t)
    /\ StartOp(NewOp(t, "write", n), ready)
    /\ wrote' = [wrote EXCEPT ![t] = Append(@, n)]
    /\ at' = [at EXCEPT ![t] = "write"]
    /\ UNCHANGED <<object, con, holders, buffVars, peerVars, inVars, out, acked>>

(* conn:close closes the socket, forgets cpoint and replaces the methods.  *)
Close(t) ==
    /\ MayCall(t)
    /\ CloseSocket(ready)
    /\ con' = "closed"
    /\ UNCHANGED <<object, owners, holders, buffVars, at, peerVars, inVars, outVars>>

(* The same where close reports an error: the socket is closed, the        *)
(* exception reaches the caller and con stays as it was.                   *)
CloseThrows(t) ==
    /\ CloseErrors /\ MayCall(t) /\ socket = "open"
    /\ CloseSocket(ready)
    /\ UNCHANGED <<ownVars, buffVars, at, peerVars, inVars, outVars>>

(* A light thread returns and its stack is gone.                           *)
Return(t) ==
    /\ at[t] = "run"
    /\ at' = [at EXCEPT ![t] = "done"]
    /\ holders' = holders \ {t}
    /\ UNCHANGED <<object, owners, con, buffVars, opVars, peerVars, inVars, outVars>>

(* A light thread fails: its dead coroutine stays in th_tbl with its stack.*)
Fail(t) ==
    /\ at[t] = "run"
    /\ at' = [at EXCEPT ![t] = "done"]
    /\ UNCHANGED <<ownVars, buffVars, opVars, peerVars, inVars, outVars>>

(* cpoint is collected once con, or its field, is unreachable: the         *)
(* finaliser asio_delete_connection deletes the shared pointer.            *)
Collect ==
    /\ "lua" \in owners
    /\ con = "closed" \/ holders = {}
    /\ Release("lua", FALSE, ready)
    /\ UNCHANGED <<con, holders, buffVars, at, peerVars, inVars, outVars>>

----------------------------------------------------------------------------
(* The peer and the kernel.  An operation is performed at any moment after *)
(* it was started: at once (the epoll reactor tries it speculatively),     *)
(* while Lua runs (IOCP), or when run_one polls.                           *)
PeerSends ==
    /\ object # "none" /\ peer = "open" /\ sent < MaxIn
    /\ sent' = sent + 1
    /\ UNCHANGED <<ownVars, buffVars, opVars, at, peer, inVars, outVars>>

PeerCloses ==
    /\ object # "none" /\ peer # "reset"
    /\ peer' \in {"finished", "reset"} \ {peer}
    /\ UNCHANGED <<ownVars, buffVars, opVars, at, sent, inVars, outVars>>

(* Wrong variant: the operation is not taken off its queue.                *)
FinishFirst_Keeps(d, op) ==
    /\ op_queue' = op_queue
    /\ ready' = Append(ready, op)
    /\ UNCHANGED <<ownVars, capacity, stale, socket, at, peerVars, returned, wrote, acked>>

(* The first operation of direction d has come to an outcome.  Its handler *)
(* runs after those that are queued, or before them when perform_io found  *)
(* it for a descriptor event queued earlier (see Reactor).                 *)
FinishFirst(d, op) ==
    /\ op_queue' = [op_queue EXCEPT ![d] = Tail(@)]
    /\ ready' \in {Append(ready, op), <<op>> \o ready}
    /\ UNCHANGED <<ownVars, capacity, stale, socket, at, peerVars, returned, wrote, acked>>

(* Wrong variant: later transfers ignore what the first ones have filled.  *)
Room_Whole(op) == op.size

(* buffers_.prepare: what is left of the operation's buffer.               *)
Room(op) == op.size - op.got

(* recv.  Writing to memory since freed is undefined: no step is given.    *)
PerformRead ==
    /\ op_queue["in"] # <<>>
    /\ LET op == Head(op_queue["in"])
       IN  /\ op.who \notin stale
           /\ \E k \in 1..Min({sent - received, Room(op)}) :
                 /\ read_buff' = Overwrite(read_buff, op.got, [i \in 1..k |-> received + i])
                 /\ received' = received + k
                 /\ FinishFirst("in", [op EXCEPT !.got = @ + k, !.res = "ok"])
    /\ UNCHANGED out

(* send takes as much as the kernel has space for.  While the peer does    *)
(* not read there may be none (EAGAIN), and the operation waits.           *)
PerformWrite ==
    /\ op_queue["out"] # <<>> /\ peer # "reset"
    /\ LET op == Head(op_queue["out"])
       IN  /\ op.kind = "write"
           /\ \E k \in 1..Room(op) :
                 /\ out' = out \o [i \in 1..k |-> <<op.who, Len(wrote[op.who]), op.got + i>>]
                 /\ FinishFirst("out", [op EXCEPT !.got = @ + k, !.res = "ok"])
    /\ UNCHANGED <<read_buff, received>>

PerformConnect ==
    /\ op_queue["out"] # <<>>
    /\ LET op == Head(op_queue["out"])
       IN  /\ op.kind = "connect"
           /\ \E res \in {"ok", "fail"} : FinishFirst("out", WithResult(op, res))
    /\ UNCHANGED <<read_buff, received, out>>

(* Reads meet the end of the stream once all bytes are read; reads and     *)
(* writes meet a reset.                                                    *)
PerformFail(d) ==
    /\ op_queue[d] # <<>>
    /\ \/ peer = "reset"
       \/ d = "in" /\ peer = "finished" /\ received = sent
    /\ FinishFirst(d, WithResult(Head(op_queue[d]), "fail"))
    /\ UNCHANGED <<read_buff, received, out>>

----------------------------------------------------------------------------
(* Completion handlers, run by run_one in the order of ready.              *)

(* Wrong variant: one send is taken for the whole string.                  *)
NeedsMore_Reads(op) == op.kind = "read" /\ op.res = "ok" /\ op.got < op.size

(* async_read and async_write go on until the whole buffer is transferred. *)
NeedsMore(op) ==
    op.kind \in {"read", "write"} /\ op.res = "ok" /\ op.got < op.size

(* The next transfer of a composed operation waits behind the others.      *)
RunTransfer ==
    /\ ready # <<>> /\ NeedsMore(Head(ready))
    /\ StartOp(WithResult(Head(ready), "none"), Tail(ready))
    /\ UNCHANGED <<ownVars, buffVars, at, peerVars, inVars, outVars>>

(* Wrong variant: read_some hands over the whole buffer.                   *)
Received_Whole(op) == read_buff

(* What a read hands over: its whole buffer, cut by read_some to the bytes *)
(* of this transfer.                                                       *)
Received(op) == IF op.kind = "read_some" THEN Resize(read_buff, op.got) ELSE read_buff

(* The handlers of read, read_some and write: on an error they close the   *)
(* socket.  Then the light thread returns from its call.                   *)
RunHandler ==
    /\ ready # <<>> /\ Head(ready).kind # "connect" /\ ~NeedsMore(Head(ready))
    /\ LET op == Head(ready)
           t == op.who
           ok == op.res = "ok"
           reads == op.kind \in {"read", "read_some"}
       IN  /\ Release(t, ~ok, Tail(ready))
           /\ at' = [at EXCEPT ![t] = "run"]
           /\ read_buff' = IF op.kind = "read_some" THEN Received(op) ELSE read_buff
           /\ returned' = IF ok /\ reads THEN [returned EXCEPT ![t] = @ \o Received(op)]
                          ELSE returned
           /\ acked' = IF ok /\ ~reads THEN [acked EXCEPT ![t] = @ + 1] ELSE acked
    /\ UNCHANGED <<con, holders, capacity, stale, peerVars, received, out, wrote>>

(* The same where close reports an error: _socket.close() throws, asio_get *)
(* catches, and no event is pushed: this light thread stays suspended.     *)
HandlerThrows ==
    /\ CloseErrors /\ socket = "open"
    /\ ready # <<>> /\ Head(ready).kind # "connect" /\ Head(ready).res = "fail"
    /\ Release(Head(ready).who, TRUE, Tail(ready))
    /\ at' = [at EXCEPT ![Head(ready).who] = "lost"]
    /\ UNCHANGED <<con, holders, buffVars, peerVars, inVars, outVars>>

(* The handler of connect.  After an error asio.connect returns nil and    *)
(* con is garbage.                                                         *)
RunConnect ==
    /\ ready # <<>> /\ Head(ready).kind = "connect"
    /\ LET op == Head(ready)
       IN  /\ at' = [at EXCEPT ![op.who] = "run"]
           /\ holders' = IF op.res = "ok" THEN holders ELSE holders \ {op.who}
    /\ ready' = Tail(ready)
    /\ UNCHANGED <<object, owners, con, socket, op_queue, buffVars, peerVars, inVars, outVars>>

----------------------------------------------------------------------------
Init ==
    /\ object = "none" /\ owners = {} /\ con = "usable" /\ holders = {}
    /\ socket = "closed" /\ op_queue = [d \in {"in", "out"} |-> <<>>] /\ ready = <<>>
    /\ read_buff = <<>> /\ capacity = 0 /\ stale = {}
    /\ at = [t \in Users |-> "idle"]
    /\ peer = "open" /\ sent = 0 /\ received = 0
    /\ returned = [t \in Users |-> <<>>]
    /\ out = <<>> /\ wrote = [t \in Users |-> <<>>] /\ acked = [t \in Users |-> 0]

UserStep ==
    \/ Accepted
    \/ \E t \in Users :
          \/ Connect(t) \/ \E u \in Users : Share(t, u)
          \/ \E n \in Sizes : Read(t, n)
          \/ ReadSome(t)
          \/ \E n \in Lengths : Write(t, n)
          \/ Close(t) \/ CloseThrows(t) \/ Return(t) \/ Fail(t)

KernelStep ==
    PerformRead \/ PerformWrite \/ PerformConnect \/ \E d \in {"in", "out"} : PerformFail(d)

LoopStep == RunTransfer \/ RunHandler \/ HandlerThrows \/ RunConnect

Next == UserStep \/ PeerSends \/ PeerCloses \/ KernelStep \/ LoopStep \/ Collect

Spec == Init /\ [][Next]_vars

(* The loop runs handlers that are queued, the kernel hands over what has  *)
(* arrived, reports errors and ends every connect, and the collector finds *)
(* garbage.  Nothing is assumed of light threads, nor of the peer: it may  *)
(* stop reading, so PerformWrite, which needs space, is not fair.          *)
FairSpec ==
    /\ Spec
    /\ WF_vars(LoopStep)
    /\ WF_vars(PerformRead \/ PerformFail("in"))
    /\ WF_vars(PerformConnect \/ PerformFail("out"))
    /\ WF_vars(Collect)

----------------------------------------------------------------------------
Ops == [who : Users, kind : Kinds, size : Nat, got : Nat, res : {"none", "ok", "fail"}]

(* Types of all variables, and transfers stay inside their buffers.        *)
TypeOK ==
    /\ object \in {"none", "alive", "freed"} /\ owners \subseteq Users \cup {"lua"}
    /\ con \in {"usable", "closed"} /\ holders \subseteq Users
    /\ socket \in {"open", "closed"}
    /\ read_buff \in Seq(Nat) /\ capacity \in Nat /\ stale \subseteq Users
    /\ op_queue \in [{"in", "out"} -> Seq(Ops)] /\ ready \in Seq(Ops)
    /\ \A op \in Outstanding : op.got <= op.size
    /\ at \in [Users -> Kinds \cup {"idle", "run", "done", "lost"}]
    /\ peer \in {"open", "finished", "reset"} /\ sent \in Nat /\ received \in 0..sent
    /\ returned \in [Users -> Seq(Nat)]
    /\ out \in Seq(Users \X Nat \X Nat)
    /\ wrote \in [Users -> Seq(Nat)] /\ acked \in [Users -> Nat]

(* An operation never outlives its connection: until its handler has run,  *)
(* the object it points to exists, although conn:close and the collector   *)
(* may take Lua's pointer away (test.lua: "test close crash"), and the     *)
(* handler of connect holds no pointer at all (luaAsio.cpp:99, 125).       *)
OpKeepsObject == Outstanding # {} => object = "alive"

(* Nothing waits on a closed socket: closing, by any light thread, by the  *)
(* error handler of another operation or by the destructor, ends every     *)
(* operation of both directions (luaAsio.cpp:133, 150, 167, 176).          *)
NothingWaitsOnClosed == socket = "closed" => Waiting = {}

(* Every outstanding operation has its light thread waiting in the call    *)
(* that started it: aborts, errors and repeated transfers return each call *)
(* at most once, and never into another one.                               *)
OpHasCaller == \A op \in Outstanding : at[op.who] = op.kind

(* A light thread in a call has an operation that will return it, however  *)
(* aborts, errors, empty and repeated transfers follow each other.  Only a *)
(* handler whose close of the socket throws before it pushes its event     *)
(* (luaAsio.cpp:133, 150, 167) loses a wake-up, its own: at most one light *)
(* thread of a connection is lost, and those whose operations that close   *)
(* aborted are not.                                                        *)
CallsReturn ==
    /\ \A t \in Users : at[t] \in Kinds => \E op \in Outstanding : op.who = t
    /\ \A t, u \in Users : at[t] = "lost" /\ at[u] = "lost" => t = u

(* The order in which a light thread wrote two of its bytes.               *)
Before(b, c) == b[2] < c[2] \/ (b[2] = c[2] /\ b[3] < c[3])

(* Each light thread's strings leave in order and complete: its bytes are  *)
(* on the wire in the order it wrote them, each once, with no gap before   *)
(* any of them, and every byte of a string conn:write has returned true    *)
(* for is there, however the transfers were cut (luaAsio.cpp:127).         *)
WritesComplete ==
    /\ \A p, q \in 1..Len(out) : p < q /\ out[p][1] = out[q][1] => Before(out[p], out[q])
    /\ \A b \in ToSet(out) : b[2] \in 1..Len(wrote[b[1]]) /\ b[3] \in 1..wrote[b[1]][b[2]]
    /\ \A t \in Users : \A m \in 1..Len(wrote[t]) : \A i \in 1..wrote[t][m] :
          m <= acked[t] \/ (\E c \in ToSet(out) : c[1] = t /\ Before(<<t, m, i>>, c)) =>
             <<t, m, i>> \in ToSet(out)

Reader == CHOOSE r \in Readers : TRUE
Stream == INSTANCE ByteStream WITH delivered <- returned[Reader]

(* With one reader, reads of any sizes in any mixture return the bytes     *)
(* sent, each once and in order, whatever happens to the writers, the      *)
(* socket and the object meanwhile (luaAsio.cpp:139, 158).                 *)
ImplementsStream == Stream!Spec

(* A light thread does not hang on a connection that is gone: closed by    *)
(* another light thread or after an error, or ended by the peer.  It is    *)
(* woken, unless it is the one whose handler threw (see CallsReturn).      *)
Wakes ==
    \A t \in Users :
       (/\ at[t] \in Kinds
        /\ \/ socket = "closed"
           \/ peer = "reset"
           \/ peer = "finished" /\ at[t] \in {"read", "read_some"})
          ~> at[t] \in {"run", "lost"}

(* Once con is closed, or no light thread holds it, the connection object  *)
(* is freed: no operation keeps it forever (luaAsio.cpp:125, 316).         *)
Freed == (object = "alive" /\ (con = "closed" \/ holders = {})) ~> object = "freed"
=============================================================================
