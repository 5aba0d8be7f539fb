----------------------------- MODULE ProxyProofs -----------------------------
(***************************************************************************)
(* The proxy of README.md relays both streams, behind a whole header.  Its *)
(* two connections are instances of the connection that the other modules  *)
(* prove about, each with one reader; what is proved of one connection is  *)
(* used here for both.                                                     *)
(***************************************************************************)
EXTENDS Proxy, SequenceTheorems, TLAPS

(* upstream, read by up, and the connection to the remote host, read by    *)
(* down.                                                                   *)
U == INSTANCE TransferProofs WITH Readers <- {up}, Sizes <- {}, Lengths <- Nat \ {0}
D == INSTANCE TransferProofs WITH Readers <- {down}, Sizes <- {}, Lengths <- Nat \ {0},
    object <- object2, owners <- owners2, con <- con2, holders <- holders2,
    socket <- socket2, read_buff <- read_buff2, capacity <- capacity2, stale <- stale2,
    op_queue <- op_queue2, ready <- ready2, at <- at2, peer <- peer2, sent <- sent2,
    received <- received2, returned <- returned2, out <- out2, wrote <- wrote2,
    acked <- acked2

(* What is proved of each connection.                                      *)
Connections ==
    /\ U!IInv /\ U!WriteInv /\ U!StreamInv
    /\ D!IInv /\ D!WriteInv /\ D!StreamInv

----------------------------------------------------------------------------
(* Where the light threads are.                                            *)
Labels ==
    {"accept", "connect", "write", "spawn", "read", "check", "written", "close", "end", "done"}

Resting == {"idle", "run", "done", "lost"}

(* Each light thread makes its own calls only.                             *)
Roles ==
    /\ pc \in [Users -> Labels] /\ had \in [Users -> Seq(Nat)]
    /\ at[main] \in Resting /\ at2[main] \in Resting \cup {"connect", "write"}
    /\ at[up] \in Resting \cup {"read_some"} /\ at2[up] \in Resting \cup {"write"}
    /\ at[down] \in Resting \cup {"write"} /\ at2[down] \in Resting \cup {"read_some"}

(* A forward thread exists once the header is written.                     *)
Started(f) ==
    IF pc[f] = "accept"
    THEN /\ at[f] = "idle" /\ at2[f] = "idle"
         /\ had[f] = <<>> /\ wrote[f] = <<>> /\ wrote2[f] = <<>>
    ELSE at[f] # "idle" /\ at2[f] # "idle" /\ acked2[main] = 1

(* The only string of main is the header, and its bytes are the first ones *)
(* on the wire.                                                            *)
HeaderSent ==
    /\ wrote2[main] \in {<<>>, <<Header>>}
    /\ pc[main] \in {"accept", "connect", "write"} => wrote2[main] = <<>>
    /\ \A k \in 1..Len(out2) :
          IF k <= Header THEN out2[k] = <<main, 1, k>> ELSE out2[k][1] # main

Threads == Roles /\ (\A f \in Forwards : Started(f)) /\ HeaderSent

----------------------------------------------------------------------------
(* One direction: the thread is at label, has begun the reads h and the    *)
(* writes w and is in call a of the connection it reads from, of which it  *)
(* has total bytes; n bytes have been sent on the other, where ws is its   *)
(* write and sock the socket.  Everything read is sent, but for the string *)
(* that is being written, of which what the operation has transferred is.  *)
Relays(label, h, w, ws, sock, n, total, a) ==
    /\ Len(w) <= Len(h) /\ n <= total
    /\ label \in {"accept", "read", "written"} => Len(h) = Len(w)
    /\ label # "check" => a \notin Kinds
    /\ label = "accept" => n <= 0 /\ total = 0
    /\ label = "read" /\ sock = "open" => n = total
    /\ label = "check" => /\ Len(h) = Len(w) + 1 /\ h[Len(h)] <= total
                          /\ sock = "open" => n = h[Len(h)]
    /\ label = "written" => /\ Len(w) > 0 /\ h[Len(w)] + w[Len(w)] = total
                            /\ sock = "open" /\ ws = {} => n = total
    /\ ws # {} => label = "written"
    /\ \A x \in ws : x.size = w[Len(w)] /\ (x.res # "fail" => n = h[Len(w)] + x.got)

(* The bytes on the wire behind the first skip ones are those f has read.  *)
OnWire(f, wire, skip, h, w) ==
    \A k \in 1..Len(wire) - skip :
       /\ wire[skip + k][1] = f
       /\ wire[skip + k][2] \in 1..Len(w)
       /\ h[wire[skip + k][2]] + wire[skip + k][3] = k

UpRelays ==
    /\ Relays(pc[up], had[up], wrote2[up], D!Writes(up), socket2,
              Len(out2) - Header, Len(returned[up]), at[up])
    /\ OnWire(up, out2, Header, had[up], wrote2[up])

DownRelays ==
    /\ Relays(pc[down], had[down], wrote[down], U!Writes(down), socket,
              Len(out), Len(returned2[down]), at2[down])
    /\ OnWire(down, out, 0, had[down], wrote[down])

ProxyInv == Connections /\ Threads /\ UpRelays /\ DownRelays

----------------------------------------------------------------------------
(* The connections of the proxy are connections.                           *)

(* The calls of the light threads on upstream are calls of U, where down   *)
(* never reads.                                                            *)
LEMMA UpCalls ==
    /\ Accepted => U!Accepted
    /\ \A t : Connect(t) => U!Connect(t)
    /\ \A t, u : Share(t, u) => U!Share(t, u)
    /\ ReadSome(up) => U!ReadSome(up)
    /\ \A t, n : Write(t, n) => U!Write(t, n)
    /\ \A t : Close(t) => U!Close(t)
    /\ \A t : Return(t) => U!Return(t)
    /\ \A t : Fail(t) => U!Fail(t)
<1>1. Accepted => U!Accepted
  BY DEF Accepted, U!Accepted, buffVars, U!buffVars, peerVars, U!peerVars, inVars,
         U!inVars, outVars, U!outVars
<1>2. \A t : Connect(t) => U!Connect(t)
  BY DEF Connect, U!Connect, NewOp, U!NewOp, buffVars, U!buffVars, peerVars, U!peerVars,
         inVars, U!inVars, outVars, U!outVars
<1>3. \A t, u : Share(t, u) => U!Share(t, u)
  BY DEF Share, U!Share, buffVars, U!buffVars, opVars, U!opVars, peerVars, U!peerVars,
         inVars, U!inVars, outVars, U!outVars
<1>4. ReadSome(up) => U!ReadSome(up)
  BY DEF ReadSome, U!ReadSome, MayCall, U!MayCall, Capture, U!Capture, PrepareBuffer,
         U!PrepareBuffer, Resize, U!Resize, Max, U!Max, Outstanding, U!Outstanding,
         Waiting, U!Waiting, ToSet, U!ToSet, Direction, U!Direction, StartOp, U!StartOp,
         NewOp, U!NewOp, WithResult, U!WithResult, peerVars, U!peerVars, inVars, U!inVars,
         outVars, U!outVars
<1>5. \A t, n : Write(t, n) => U!Write(t, n)
  BY DEF Write, U!Write, MayCall, U!MayCall, Capture, U!Capture, StartOp, U!StartOp,
         NewOp, U!NewOp, WithResult, U!WithResult, Direction, U!Direction, buffVars,
         U!buffVars, peerVars, U!peerVars, inVars, U!inVars
<1>6. \A t : Close(t) => U!Close(t)
  BY DEF Close, U!Close, MayCall, U!MayCall, CloseSocket, U!CloseSocket, WithResult,
         U!WithResult, buffVars, U!buffVars, peerVars, U!peerVars, inVars, U!inVars,
         outVars, U!outVars
<1>7. \A t : Return(t) => U!Return(t)
  BY DEF Return, U!Return, buffVars, U!buffVars, opVars, U!opVars, peerVars, U!peerVars,
         inVars, U!inVars, outVars, U!outVars
<1>8. \A t : Fail(t) => U!Fail(t)
  BY DEF Fail, U!Fail, ownVars, U!ownVars, buffVars, U!buffVars, opVars, U!opVars, peerVars,
         U!peerVars, inVars, U!inVars, outVars, U!outVars
<1> QED
  BY <1>1, <1>2, <1>3, <1>4, <1>5, <1>6, <1>7, <1>8

(* The other steps of upstream.                                            *)
LEMMA UpLoop ==
    /\ LoopStep => U!LoopStep
    /\ KernelStep => U!KernelStep
    /\ PeerSends => U!PeerSends
    /\ PeerCloses => U!PeerCloses
    /\ Collect => U!Collect
<1>1. RunTransfer => U!RunTransfer
  BY DEF RunTransfer, U!RunTransfer, NeedsMore, U!NeedsMore, StartOp, U!StartOp,
         Direction, U!Direction, WithResult, U!WithResult, ownVars, U!ownVars, buffVars,
         U!buffVars, peerVars, U!peerVars, inVars, U!inVars, outVars, U!outVars
<1>2. RunHandler => U!RunHandler
  BY DEF RunHandler, U!RunHandler, NeedsMore, U!NeedsMore, Received, U!Received, Resize,
         U!Resize, Release, U!Release, CloseSocket, U!CloseSocket, WithResult,
         U!WithResult, peerVars, U!peerVars
<1>3. HandlerThrows => U!HandlerThrows
  BY DEF HandlerThrows, U!HandlerThrows, Release, U!Release, CloseSocket, U!CloseSocket,
         WithResult, U!WithResult, buffVars, U!buffVars, peerVars, U!peerVars, inVars,
         U!inVars, outVars, U!outVars
<1>4. RunConnect => U!RunConnect
  BY DEF RunConnect, U!RunConnect, buffVars, U!buffVars, peerVars, U!peerVars, inVars,
         U!inVars, outVars, U!outVars
<1>5. PerformRead => U!PerformRead
  BY ZenonT(40)
     DEF PerformRead, U!PerformRead, Min, U!Min, Room, U!Room, Overwrite, U!Overwrite,
         FinishFirst, U!FinishFirst, ownVars, U!ownVars, peerVars, U!peerVars
<1>6. PerformWrite => U!PerformWrite
  BY ZenonT(40)
     DEF PerformWrite, U!PerformWrite, Room, U!Room, FinishFirst, U!FinishFirst, ownVars,
         U!ownVars, peerVars, U!peerVars
<1>7. PerformConnect => U!PerformConnect
  BY DEF PerformConnect, U!PerformConnect, WithResult, U!WithResult, FinishFirst,
         U!FinishFirst, ownVars, U!ownVars, peerVars, U!peerVars
<1>8. \A d : PerformFail(d) => U!PerformFail(d)
  BY DEF PerformFail, U!PerformFail, WithResult, U!WithResult, FinishFirst, U!FinishFirst,
         ownVars, U!ownVars, peerVars, U!peerVars
<1>9. (PeerSends => U!PeerSends) /\ (PeerCloses => U!PeerCloses)
  BY DEF PeerSends, U!PeerSends, PeerCloses, U!PeerCloses, ownVars, U!ownVars, buffVars,
         U!buffVars, opVars, U!opVars, inVars, U!inVars, outVars, U!outVars
<1>10. Collect => U!Collect
  BY DEF Collect, U!Collect, Release, U!Release, CloseSocket, U!CloseSocket, WithResult,
         U!WithResult, buffVars, U!buffVars, peerVars, U!peerVars, inVars, U!inVars,
         outVars, U!outVars
<1> QED
  BY <1>1, <1>2, <1>3, <1>4, <1>5, <1>6, <1>7, <1>8, <1>9, <1>10
     DEF LoopStep, U!LoopStep, KernelStep, U!KernelStep

(* The same for the connection to the remote host, where up never reads.   *)
LEMMA DownCalls ==
    /\ Remote!Accepted => D!Accepted
    /\ \A t : Remote!Connect(t) => D!Connect(t)
    /\ \A t, u : Remote!Share(t, u) => D!Share(t, u)
    /\ Remote!ReadSome(down) => D!ReadSome(down)
    /\ \A t, n : Remote!Write(t, n) => D!Write(t, n)
    /\ \A t : Remote!Close(t) => D!Close(t)
    /\ \A t : Remote!Return(t) => D!Return(t)
    /\ \A t : Remote!Fail(t) => D!Fail(t)
<1>1. Remote!Accepted => D!Accepted
  BY DEF Remote!Accepted, D!Accepted, Remote!buffVars, D!buffVars, Remote!peerVars,
         D!peerVars, Remote!inVars, D!inVars, Remote!outVars, D!outVars
<1>2. \A t : Remote!Connect(t) => D!Connect(t)
  BY DEF Remote!Connect, D!Connect, Remote!NewOp, D!NewOp, Remote!buffVars, D!buffVars,
         Remote!peerVars, D!peerVars, Remote!inVars, D!inVars, Remote!outVars, D!outVars
<1>3. \A t, u : Remote!Share(t, u) => D!Share(t, u)
  BY DEF Remote!Share, D!Share, Remote!buffVars, D!buffVars, Remote!opVars, D!opVars,
         Remote!peerVars, D!peerVars, Remote!inVars, D!inVars, Remote!outVars, D!outVars
<1>4. Remote!ReadSome(down) => D!ReadSome(down)
  BY DEF Remote!ReadSome, D!ReadSome, Remote!MayCall, D!MayCall, Remote!Capture,
         D!Capture, Remote!PrepareBuffer, D!PrepareBuffer, Remote!Resize, D!Resize,
         Remote!Max, D!Max, Remote!Outstanding, D!Outstanding, Remote!Waiting, D!Waiting,
         Remote!ToSet, D!ToSet, Remote!Direction, D!Direction, Remote!StartOp, D!StartOp,
         Remote!NewOp, D!NewOp, Remote!WithResult, D!WithResult, Remote!peerVars,
         D!peerVars, Remote!inVars, D!inVars, Remote!outVars, D!outVars
<1>5. \A t, n : Remote!Write(t, n) => D!Write(t, n)
  BY DEF Remote!Write, D!Write, Remote!MayCall, D!MayCall, Remote!Capture, D!Capture,
         Remote!StartOp, D!StartOp, Remote!NewOp, D!NewOp, Remote!WithResult,
         D!WithResult, Remote!Direction, D!Direction, Remote!buffVars, D!buffVars,
         Remote!peerVars, D!peerVars, Remote!inVars, D!inVars
<1>6. \A t : Remote!Close(t) => D!Close(t)
  BY DEF Remote!Close, D!Close, Remote!MayCall, D!MayCall, Remote!CloseSocket,
         D!CloseSocket, Remote!WithResult, D!WithResult, Remote!buffVars, D!buffVars,
         Remote!peerVars, D!peerVars, Remote!inVars, D!inVars, Remote!outVars, D!outVars
<1>7. \A t : Remote!Return(t) => D!Return(t)
  BY DEF Remote!Return, D!Return, Remote!buffVars, D!buffVars, Remote!opVars, D!opVars,
         Remote!peerVars, D!peerVars, Remote!inVars, D!inVars, Remote!outVars, D!outVars
<1>8. \A t : Remote!Fail(t) => D!Fail(t)
  BY DEF Remote!Fail, D!Fail, Remote!ownVars, D!ownVars, Remote!buffVars, D!buffVars,
         Remote!opVars, D!opVars, Remote!peerVars, D!peerVars, Remote!inVars, D!inVars,
         Remote!outVars, D!outVars
<1> QED
  BY <1>1, <1>2, <1>3, <1>4, <1>5, <1>6, <1>7, <1>8

(* The other steps of the connection to the remote host.                   *)
LEMMA DownLoop ==
    /\ Remote!LoopStep => D!LoopStep
    /\ Remote!KernelStep => D!KernelStep
    /\ Remote!PeerSends => D!PeerSends
    /\ Remote!PeerCloses => D!PeerCloses
    /\ Remote!Collect => D!Collect
<1>1. Remote!RunTransfer => D!RunTransfer
  BY DEF Remote!RunTransfer, D!RunTransfer, Remote!NeedsMore, D!NeedsMore, Remote!StartOp,
         D!StartOp, Remote!Direction, D!Direction, Remote!WithResult, D!WithResult,
         Remote!ownVars, D!ownVars, Remote!buffVars, D!buffVars, Remote!peerVars,
         D!peerVars, Remote!inVars, D!inVars, Remote!outVars, D!outVars
<1>2. Remote!RunHandler => D!RunHandler
  BY DEF Remote!RunHandler, D!RunHandler, Remote!NeedsMore, D!NeedsMore, Remote!Received,
         D!Received, Remote!Resize, D!Resize, Remote!Release, D!Release,
         Remote!CloseSocket, D!CloseSocket, Remote!WithResult, D!WithResult,
         Remote!peerVars, D!peerVars
<1>3. Remote!HandlerThrows => D!HandlerThrows
  BY DEF Remote!HandlerThrows, D!HandlerThrows, Remote!Release, D!Release,
         Remote!CloseSocket, D!CloseSocket, Remote!WithResult, D!WithResult,
         Remote!buffVars, D!buffVars, Remote!peerVars, D!peerVars, Remote!inVars,
         D!inVars, Remote!outVars, D!outVars
<1>4. Remote!RunConnect => D!RunConnect
  BY DEF Remote!RunConnect, D!RunConnect, Remote!buffVars, D!buffVars, Remote!peerVars,
         D!peerVars, Remote!inVars, D!inVars, Remote!outVars, D!outVars
<1>5. Remote!PerformRead => D!PerformRead
  BY ZenonT(40)
     DEF Remote!PerformRead, D!PerformRead, Remote!Min, D!Min, Remote!Room, D!Room,
         Remote!Overwrite, D!Overwrite, Remote!FinishFirst, D!FinishFirst, Remote!ownVars,
         D!ownVars, Remote!peerVars, D!peerVars
<1>6. Remote!PerformWrite => D!PerformWrite
  BY ZenonT(40)
     DEF Remote!PerformWrite, D!PerformWrite, Remote!Room, D!Room, Remote!FinishFirst,
         D!FinishFirst, Remote!ownVars, D!ownVars, Remote!peerVars, D!peerVars
<1>7. Remote!PerformConnect => D!PerformConnect
  BY DEF Remote!PerformConnect, D!PerformConnect, Remote!WithResult, D!WithResult,
         Remote!FinishFirst, D!FinishFirst, Remote!ownVars, D!ownVars, Remote!peerVars,
         D!peerVars
<1>8. \A d : Remote!PerformFail(d) => D!PerformFail(d)
  BY DEF Remote!PerformFail, D!PerformFail, Remote!WithResult, D!WithResult,
         Remote!FinishFirst, D!FinishFirst, Remote!ownVars, D!ownVars, Remote!peerVars,
         D!peerVars
<1>9. (Remote!PeerSends => D!PeerSends) /\ (Remote!PeerCloses => D!PeerCloses)
  BY DEF Remote!PeerSends, D!PeerSends, Remote!PeerCloses, D!PeerCloses, Remote!ownVars,
         D!ownVars, Remote!buffVars, D!buffVars, Remote!opVars, D!opVars, Remote!inVars,
         D!inVars, Remote!outVars, D!outVars
<1>10. Remote!Collect => D!Collect
  BY DEF Remote!Collect, D!Collect, Remote!Release, D!Release, Remote!CloseSocket,
         D!CloseSocket, Remote!WithResult, D!WithResult, Remote!buffVars, D!buffVars,
         Remote!peerVars, D!peerVars, Remote!inVars, D!inVars, Remote!outVars, D!outVars
<1> QED
  BY <1>1, <1>2, <1>3, <1>4, <1>5, <1>6, <1>7, <1>8, <1>9, <1>10
     DEF Remote!LoopStep, D!LoopStep, Remote!KernelStep, D!KernelStep

(* What ConnectionAssumption asks of the constants of the two instances.   *)
LEMMA Fits ==
    /\ {up} \subseteq Users /\ {down} \subseteq Users /\ Writers \subseteq Users
    /\ "lua" \notin Users
    /\ {} \subseteq Nat /\ Nat \ {0} \subseteq Nat \ {0}
    /\ CloseErrors \in BOOLEAN
    /\ MAX_BUFF_SIZE \in Nat \ {0} /\ MaxIn \in Nat /\ MaxWrites \in Nat
BY ProxyAssumption, ConnectionAssumption

(* Each connection has one reader.                                         *)
LEMMA OneReaderEach == U!Reader = up /\ U!OneReader /\ D!Reader = down /\ D!OneReader
BY DEF U!Reader, U!OneReader, D!Reader, D!OneReader

----------------------------------------------------------------------------
(* One direction, as values: what a step does to the relay.                *)
RelayTypes(h, w, n, total) ==
    h \in Seq(Nat) /\ w \in Seq(Nat) /\ n \in Int /\ total \in Nat

(* Lengths and entries of the two logs.                                    *)
LEMMA LogTypes ==
    ASSUME NEW h \in Seq(Nat)
    PROVE  /\ Len(h) \in Nat /\ \A k \in 1..Len(h) : h[k] \in Nat
           /\ \A x \in Nat : /\ Append(h, x) \in Seq(Nat) /\ Len(Append(h, x)) = Len(h) + 1
                            /\ Append(h, x)[Len(h) + 1] = x
                            /\ \A k \in 1..Len(h) : Append(h, x)[k] = h[k]
BY LenProperties, ElementOfSeq, AppendProperties

(* The operations that go on, or have failed.                              *)
GoOn(ws, ws1) ==
    /\ \A x \in ws1 : \E y \in ws :
          x.size = y.size /\ x.got = y.got /\ (y.res = "fail" => x.res = "fail")
    /\ ws # {} => ws1 # {}

(* Nothing is sent; the operation may have failed, the socket been closed, *)
(* and a read have returned.                                               *)
LEMMA RelayQuiet ==
    ASSUME NEW label, NEW h, NEW w, NEW ws, NEW sock, NEW n, NEW total, NEW a,
           NEW ws1, NEW sock1, NEW total1, NEW a1,
           RelayTypes(h, w, n, total), total1 \in Nat,
           Relays(label, h, w, ws, sock, n, total, a), GoOn(ws, ws1),
           sock1 = "open" => sock = "open" \/ label = "accept",
           total1 = total \/ (label = "check" /\ total1 >= total),
           a1 \in Kinds => a \in Kinds
    PROVE  Relays(label, h, w, ws1, sock1, n, total1, a1)
<1>1. \A x \in ws1 : x.size = w[Len(w)] /\ (x.res # "fail" => n = h[Len(w)] + x.got)
  <2>1. \A y \in ws : y.size = w[Len(w)] /\ (y.res # "fail" => n = h[Len(w)] + y.got)
    BY DEF Relays
  <2>2. ASSUME NEW x \in ws1
        PROVE  x.size = w[Len(w)] /\ (x.res # "fail" => n = h[Len(w)] + x.got)
    <3>1. PICK y \in ws : x.size = y.size /\ x.got = y.got /\ (y.res = "fail" => x.res = "fail")
      BY DEF GoOn
    <3> QED
      BY <2>1, <3>1
  <2> QED
    BY <2>2
<1>2. (ws1 # {} => label = "written") /\ (ws1 = {} => ws = {})
  <2>1. ws1 # {} <=> ws # {}
    BY DEF GoOn
  <2>2. ws # {} => label = "written"
    BY DEF Relays
  <2> QED
    BY <2>1, <2>2
<1>3. n <= total1 /\ total <= total1
  BY DEF Relays, RelayTypes
<1>4. label = "check" => h[Len(h)] <= total1
  <2> SUFFICES ASSUME label = "check" PROVE h[Len(h)] <= total1
    OBVIOUS
  <2>1. Len(h) = Len(w) + 1 /\ h[Len(h)] <= total
    BY DEF Relays
  <2>2. Len(h) \in Nat /\ Len(w) \in Nat
    BY LogTypes DEF RelayTypes
  <2>3. h[Len(h)] \in Nat
    BY <2>1, <2>2, LogTypes DEF RelayTypes
  <2> QED
    BY <1>3, <2>1, <2>3 DEF RelayTypes
<1> QED
  BY <1>1, <1>2, <1>3, <1>4 DEF Relays

(* k more bytes of operation y are sent, which makes n1 instead of n.      *)
Sent(y, k, n, n1, ws1) ==
    /\ k \in Nat /\ n1 = n + k
    /\ y.res # "fail" /\ y.got \in Nat /\ y.size \in Nat /\ y.got + k <= y.size
    /\ ws1 # {} /\ \A x \in ws1 : x.size = y.size /\ x.got = y.got + k

(* Of the n bytes g are those of the last string.                          *)
Place(h, w, n, g) ==
    Len(w) > 0 /\ Len(w) = Len(h) /\ h[Len(w)] \in Nat /\ n = h[Len(w)] + g

(* k bytes of the operation are sent.                                      *)
LEMMA RelaySends ==
    ASSUME NEW label, NEW h, NEW w, NEW ws, NEW sock, NEW n, NEW total, NEW a,
           NEW ws1, NEW sock1, NEW n1, NEW y \in ws, NEW k,
           RelayTypes(h, w, n, total), Relays(label, h, w, ws, sock, n, total, a),
           Sent(y, k, n, n1, ws1), sock1 = "open" => sock = "open"
    PROVE  /\ Relays(label, h, w, ws1, sock1, n1, total, a)
           /\ Place(h, w, n, y.got)
<1>1. /\ label = "written" /\ Len(w) > 0 /\ Len(h) = Len(w) /\ h[Len(w)] + w[Len(w)] = total
      /\ y.size = w[Len(w)] /\ n = h[Len(w)] + y.got /\ a \notin Kinds
  BY DEF Relays, Sent
<1>2. Len(w) \in Nat /\ Len(w) \in 1..Len(h) /\ h[Len(w)] \in Nat
  BY <1>1, LogTypes DEF RelayTypes
<1>3. n1 <= total /\ n1 = h[Len(w)] + (y.got + k)
  <2>1. PICK g, z, x : g = y.got /\ z = y.size /\ x = h[Len(w)]
    OBVIOUS
  <2>2. g + k <= z /\ g \in Nat /\ z \in Nat /\ k \in Nat /\ n1 = n + k
    BY <2>1 DEF Sent
  <2>3. x \in Nat /\ x + z = total /\ n = x + g
    BY <1>1, <1>2, <2>1
  <2>4. n1 <= total /\ n1 = x + (g + k)
    BY <2>2, <2>3
  <2> QED
    BY <2>1, <2>4
<1>4. ws1 # {} /\ \A x \in ws1 : x.size = w[Len(w)] /\ n1 = h[Len(w)] + x.got
  BY <1>1, <1>3 DEF Sent
<1> HIDE DEF RelayTypes
<1>5. Place(h, w, n, y.got)
  BY <1>1, <1>2 DEF Place
<1> QED
  BY <1>1, <1>2, <1>3, <1>4, <1>5 DEF Relays

(* The handler of the write runs: all is sent, or the socket is closed.    *)
LEMMA RelayEnds ==
    ASSUME NEW label, NEW h, NEW w, NEW ws, NEW sock, NEW n, NEW total, NEW a, NEW sock1,
           Relays(label, h, w, ws, sock, n, total, a), ws # {}, sock1 = "open" => sock = "open",
           sock1 # "open" \/ \A x \in ws : x.res = "ok" /\ x.got = x.size
    PROVE  Relays(label, h, w, {}, sock1, n, total, a)
<1>1. /\ label = "written" /\ h[Len(w)] + w[Len(w)] = total
      /\ \A x \in ws : x.size = w[Len(w)] /\ (x.res # "fail" => n = h[Len(w)] + x.got)
  BY DEF Relays
<1>2. sock1 = "open" => n = total
  BY <1>1
<1> QED
  BY <1>1, <1>2 DEF Relays

(* read_some is called.                                                    *)
LEMMA RelayReads ==
    ASSUME NEW h, NEW w, NEW ws, NEW sock, NEW n, NEW total, NEW a, NEW a1,
           RelayTypes(h, w, n, total),
           Relays("read", h, w, ws, sock, n, total, a)
    PROVE  Relays("check", Append(h, total), w, ws, sock, n, total, a1)
<1>1. /\ Len(h) = Len(w) /\ n <= total /\ (sock = "open" => n = total) /\ ws = {}
  BY DEF Relays
<1>2. PICK h1 : h1 = Append(h, total)
  OBVIOUS
<1>3. /\ Len(h) \in Nat /\ Len(h1) = Len(h) + 1 /\ h1[Len(h) + 1] = total
  BY <1>2, LogTypes DEF RelayTypes
<1>4. h1[Len(h1)] = total /\ total <= total /\ Len(w) <= Len(h1) /\ Len(h1) = Len(w) + 1
  BY <1>1, <1>3 DEF RelayTypes
<1> QED
  BY <1>1, <1>2, <1>4 DEF Relays

(* What was read is written.                                               *)
LEMMA RelayWrites ==
    ASSUME NEW h, NEW w, NEW ws, NEW sock, NEW n, NEW total, NEW a, NEW o,
           RelayTypes(h, w, n, total),
           Relays("check", h, w, ws, sock, n, total, a), a \notin Kinds,
           o.size = total - h[Len(h)], o.got = 0, o.res # "fail" => sock = "open"
    PROVE  Relays("written", h, Append(w, total - h[Len(h)]), {o}, sock, n, total, a)
<1>1. Len(h) = Len(w) + 1 /\ h[Len(h)] <= total /\ n <= total /\ (sock = "open" => n = h[Len(h)])
  BY DEF Relays
<1>2. Len(h) \in Nat /\ Len(w) \in Nat /\ Len(h) \in 1..Len(h)
  BY <1>1, LogTypes DEF RelayTypes
<1>3. h[Len(h)] \in Nat /\ total \in Nat
  BY <1>2, LogTypes DEF RelayTypes
<1>4. PICK c, w1 : c = total - h[Len(h)] /\ w1 = Append(w, c)
  OBVIOUS
<1>5. c \in Nat /\ h[Len(h)] + c = total /\ h[Len(h)] = h[Len(h)] + 0
  BY <1>1, <1>3, <1>4
<1>6. Len(w1) = Len(h) /\ w1[Len(w1)] = c
  BY <1>1, <1>2, <1>4, <1>5, LogTypes DEF RelayTypes
<1>7. /\ Len(w1) <= Len(h) /\ Len(w1) > 0 /\ h[Len(w1)] + w1[Len(w1)] = total
      /\ o.size = w1[Len(w1)] /\ (o.res # "fail" => n = h[Len(w1)] + o.got)
  BY <1>1, <1>2, <1>4, <1>5, <1>6
<1> QED
  BY <1>1, <1>4, <1>6, <1>7 DEF Relays

(* The checks of rerr and werr, closing and returning.                     *)
LEMMA RelayChecks ==
    ASSUME NEW label, NEW h, NEW w, NEW ws, NEW sock, NEW n, NEW total, NEW a,
           NEW label1, NEW ws1, NEW sock1, NEW a1,
           Relays(label, h, w, ws, sock, n, total, a), a1 \notin Kinds, ws1 = {},
           \/ label1 \in {"close", "end", "done"}
           \/ label = "written" /\ label1 = "read" /\ ws = {} /\ (sock1 = "open" => sock = "open")
    PROVE  Relays(label1, h, w, ws1, sock1, n, total, a1)
BY DEF Relays

----------------------------------------------------------------------------
(* The wire.                                                               *)

(* The logs get longer.                                                    *)
LEMMA WireKept ==
    ASSUME NEW f, NEW wire, NEW skip, NEW h \in Seq(Nat), NEW w \in Seq(Nat),
           Len(w) <= Len(h), OnWire(f, wire, skip, h, w),
           NEW h1, NEW w1,
           h1 = h \/ \E x \in Nat : h1 = Append(h, x),
           w1 = w \/ \E x \in Nat : w1 = Append(w, x)
    PROVE  OnWire(f, wire, skip, h1, w1)
<1>1. Len(h) \in Nat /\ Len(w) \in Nat
  BY LogTypes
<1>2. ASSUME NEW m \in 1..Len(w) PROVE h1[m] = h[m]
  <2>1. m \in 1..Len(h)
    BY <1>1
  <2>2. CASE h1 = h
    BY <2>2
  <2>3. ASSUME NEW x \in Nat, h1 = Append(h, x) PROVE h1[m] = h[m]
    BY <2>1, <2>3, LogTypes
  <2> QED
    BY <2>2, <2>3
<1>3. \A m \in 1..Len(w) : m \in 1..Len(w1)
  BY <1>1, LogTypes
<1> QED
  BY <1>2, <1>3 DEF OnWire

(* Bytes g + 1 to g + k of string m of f follow on the wire.               *)
Follow(wire, wire1, f, m, g, k) ==
    /\ Len(wire1) = Len(wire) + k
    /\ \A p \in 1..Len(wire) : wire1[p] = wire[p]
    /\ \A i \in 1..k : wire1[Len(wire) + i] = <<f, m, g + i>>

(* Appending them does it.                                                 *)
LEMMA Appended ==
    ASSUME NEW f \in Users, NEW m \in Nat, NEW g \in Nat, NEW k \in Nat,
           NEW wire \in Seq(Users \X Nat \X Nat), NEW wire1,
           wire1 = wire \o [i \in 1..k |-> <<f, m, g + i>>]
    PROVE  Follow(wire, wire1, f, m, g, k)
<1> DEFINE S == Users \X Nat \X Nat
           s == [i \in 1..k |-> <<f, m, g + i>>]
<1>1. s \in [1..k -> S] /\ \A i \in 1..k : s[i] = <<f, m, g + i>>
  OBVIOUS
<1>2. wire1 = wire \o s /\ wire \in Seq(S)
  OBVIOUS
<1> HIDE DEF s, S
<1>3. s \in Seq(S)
  BY <1>1, SeqDef
<1>4. Len(s) = k /\ Len(wire) \in Nat
  BY <1>1, <1>2, <1>3, LenProperties
<1>5. /\ Len(wire \o s) = Len(wire) + Len(s)
      /\ \A p \in 1..Len(wire) + Len(s) :
            (wire \o s)[p] = IF p <= Len(wire) THEN wire[p] ELSE s[p - Len(wire)]
  BY <1>2, <1>3, ConcatProperties
<1>6. \A p \in 1..Len(wire) : p \in 1..Len(wire) + Len(s) /\ p <= Len(wire)
  BY <1>4
<1>7. \A i \in 1..k : /\ Len(wire) + i \in 1..Len(wire) + Len(s) /\ ~(Len(wire) + i <= Len(wire))
                       /\ (Len(wire) + i) - Len(wire) = i
  BY <1>4
<1> QED
  BY <1>1, <1>2, <1>4, <1>5, <1>6, <1>7 DEF Follow

(* Bytes are sent.                                                         *)
LEMMA WireSends ==
    ASSUME NEW f, NEW wire, NEW skip \in Nat, NEW h \in Seq(Nat), NEW w \in Seq(Nat),
           OnWire(f, wire, skip, h, w), Len(wire) \in Nat,
           NEW k \in Nat, NEW g \in Nat, NEW wire1, Follow(wire, wire1, f, Len(w), g, k),
           Len(w) > 0, h[Len(w)] \in Nat, Len(wire) - skip = h[Len(w)] + g
    PROVE  OnWire(f, wire1, skip, h, w)
<1>1. PICK l, x : l = Len(wire) /\ x = h[Len(w)]
  OBVIOUS
<1>2. l \in Nat /\ x \in Nat /\ l - skip = x + g /\ Len(w) \in 1..Len(w)
  BY <1>1, LogTypes
<1>3. /\ Len(wire1) = l + k /\ \A p \in 1..l : wire1[p] = wire[p]
      /\ \A i \in 1..k : wire1[l + i] = <<f, Len(w), g + i>>
  BY <1>1 DEF Follow
<1>4. ASSUME NEW j \in 1..(l + k) - skip
      PROVE  /\ wire1[skip + j][1] = f
             /\ wire1[skip + j][2] \in 1..Len(w)
             /\ h[wire1[skip + j][2]] + wire1[skip + j][3] = j
  <2>1. CASE j <= l - skip
    <3>1. j \in 1..l - skip /\ skip + j \in 1..l
      BY <1>2, <2>1
    <3>2. wire1[skip + j] = wire[skip + j]
      BY <1>3, <3>1
    <3> QED
      BY <1>1, <3>1, <3>2 DEF OnWire
  <2>2. CASE ~(j <= l - skip)
    <3>1. PICK i : i = (skip + j) - l
      OBVIOUS
    <3>2. i \in 1..k /\ skip + j = l + i /\ x + (g + i) = j
      BY <1>2, <2>2, <3>1
    <3>3. wire1[skip + j] = <<f, Len(w), g + i>>
      BY <1>3, <3>2
    <3> QED
      BY <1>1, <1>2, <3>2, <3>3
  <2> QED
    BY <2>1, <2>2
<1> QED
  BY <1>3, <1>4 DEF OnWire

----------------------------------------------------------------------------
(* The light threads are three.                                            *)
LEMMA ThreeThreads ==
    /\ main \in Users /\ up \in Users /\ down \in Users
    /\ main # up /\ main # down /\ up # down
    /\ \A t \in Users : t = main \/ t = up \/ t = down
    /\ Forwards \subseteq Users /\ up \in Forwards /\ down \in Forwards
    /\ \A f \in Forwards : (f = up \/ f = down) /\ f # main
BY ProxyAssumption DEF Forwards

(* Types of what the proofs look at.                                       *)
LEMMA Typing ==
    ASSUME Connections, Roles
    PROVE  /\ at \in [Users -> Kinds \cup Resting] /\ at2 \in [Users -> Kinds \cup Resting]
           /\ wrote \in [Users -> Seq(Nat)] /\ wrote2 \in [Users -> Seq(Nat)]
           /\ acked2 \in [Users -> Nat]
           /\ out \in Seq(Users \X Nat \X Nat) /\ Len(out) \in Nat
           /\ out2 \in Seq(Users \X Nat \X Nat) /\ Len(out2) \in Nat
           /\ returned \in [Users -> Seq(Nat)] /\ returned2 \in [Users -> Seq(Nat)]
           /\ \A t \in Users : Len(returned[t]) \in Nat /\ Len(returned2[t]) \in Nat
           /\ pc \in [Users -> Labels] /\ had \in [Users -> Seq(Nat)]
           /\ Header \in Nat /\ Header >= 1
<1>1. /\ at \in [Users -> Kinds \cup Resting] /\ wrote \in [Users -> Seq(Nat)]
      /\ out \in Seq(Users \X Nat \X Nat) /\ returned \in [Users -> Seq(Nat)]
  BY DEF Connections, U!IInv, U!Types, Kinds, U!Kinds, Resting
<1>2. /\ at2 \in [Users -> Kinds \cup Resting] /\ wrote2 \in [Users -> Seq(Nat)]
      /\ acked2 \in [Users -> Nat]
      /\ out2 \in Seq(Users \X Nat \X Nat) /\ returned2 \in [Users -> Seq(Nat)]
  BY DEF Connections, D!IInv, D!Types, Kinds, D!Kinds, Resting
<1>3. Len(out) \in Nat /\ Len(out2) \in Nat
  BY <1>1, <1>2, LenProperties
<1>4. \A t \in Users : Len(returned[t]) \in Nat /\ Len(returned2[t]) \in Nat
  BY <1>1, <1>2, LenProperties
<1> QED
  BY <1>1, <1>2, <1>3, <1>4, ProxyAssumption DEF Roles

(* What both directions compare has the types of RelayTypes.               *)
LEMMA RelayTyping ==
    ASSUME Connections, Roles
    PROVE  /\ RelayTypes(had[up], wrote2[up], Len(out2) - Header, Len(returned[up]))
           /\ RelayTypes(had[down], wrote[down], Len(out), Len(returned2[down]))
BY Typing, ThreeThreads DEF RelayTypes

(* What a forward thread writes is what it has read and not empty.         *)
LEMMA ChunkFacts ==
    ASSUME Connections, Roles, UpRelays, DownRelays, NEW f \in Forwards, pc[f] = "check"
    PROVE  /\ Data(f) \in Nat /\ Data(f) = Total(f) - had[f][Len(had[f])]
           /\ Data(f) > 0 => Chunk(f) \in Nat \ {0}
<1>1. f \in Users /\ had[f] \in Seq(Nat) /\ Total(f) \in Nat
  BY Typing, ThreeThreads DEF Total
<1>2. /\ Len(had[f]) > 0 /\ had[f][Len(had[f])] <= Total(f)
  <2>1. CASE f = up
    <3>1. Len(had[up]) = Len(wrote2[up]) + 1 /\ had[up][Len(had[up])] <= Len(returned[up])
      BY <2>1 DEF UpRelays, Relays
    <3> QED
      BY <2>1, <3>1, LenProperties, RelayTyping DEF Total, RelayTypes
  <2>2. CASE f = down
    <3>1. Len(had[down]) = Len(wrote[down]) + 1 /\ had[down][Len(had[down])] <= Len(returned2[down])
      BY <2>2 DEF DownRelays, Relays
    <3> QED
      BY <2>2, <3>1, LenProperties, RelayTyping, ThreeThreads DEF Total, RelayTypes
  <2> QED
    BY <2>1, <2>2, ThreeThreads
<1>3. had[f][Len(had[f])] \in Nat
  BY <1>1, <1>2, LogTypes
<1>4. Data(f) = Total(f) - had[f][Len(had[f])]
  BY DEF Data, Last
<1>5. Data(f) \in Nat
  BY <1>1, <1>2, <1>3, <1>4
<1> QED
  BY <1>4, <1>5 DEF Chunk

(* Steps of the connections keep what is proved of them.                   *)
LEMMA ConnectionsKeep ==
    ASSUME Connections, [U!Next]_(U!vars), [D!Next]_(D!vars)
    PROVE  Connections'
<1>1. U!IInv' /\ D!IInv'
  BY Fits, U!NextIInv, D!NextIInv DEF Connections
<1>2. U!WriteInv' /\ D!WriteInv'
  BY <1>1, Fits, U!WriteNext, D!WriteNext DEF Connections
<1>3. U!StreamInv' /\ D!StreamInv'
  BY <1>1, Fits, OneReaderEach, U!StreamNext, D!StreamNext DEF Connections
<1> QED
  BY <1>1, <1>2, <1>3 DEF Connections

(* A step of the proxy is a step of upstream, or leaves it alone.          *)
LEMMA UpSteps ==
    ASSUME ProxyInv, [ProxyNext]_allVars
    PROVE  [U!Next]_(U!vars)
<1>1. CASE UNCHANGED vars
  BY <1>1 DEF vars, ownVars, buffVars, opVars, peerVars, inVars, outVars, U!vars,
              U!ownVars, U!buffVars, U!opVars, U!peerVars, U!inVars, U!outVars
<1>2. CASE U!Accepted
  BY <1>2 DEF U!Next, U!UserStep
<1>3. ASSUME NEW t \in Users, \/ U!Return(t) \/ U!Fail(t) \/ U!Close(t) \/ U!ReadSome(t)
                              \/ \E u \in Users : U!Share(t, u)
                              \/ \E n \in Nat \ {0} : U!Write(t, n)
      PROVE  U!Next
  BY <1>3 DEF U!Next, U!UserStep
<1>4. CASE U!LoopStep \/ U!KernelStep \/ U!PeerSends \/ U!PeerCloses \/ U!Collect
  BY <1>4 DEF U!Next
<1>5. CASE AcceptUpstream
  BY <1>2, <1>5, UpCalls DEF AcceptUpstream
<1>6. CASE ConnectRemote \/ WriteHeader
  BY <1>1, <1>6 DEF ConnectRemote, WriteHeader
<1>7. CASE MainEnds \/ HeaderFails
  BY <1>3, <1>7, UpCalls, ThreeThreads DEF MainEnds, Ends, HeaderFails
<1>8. ASSUME NEW f \in Forwards, SpawnForward(f) PROVE U!Next
  BY <1>3, <1>8, UpCalls, ThreeThreads DEF SpawnForward
<1>9. ASSUME NEW f \in Forwards, ForwardReads(f) PROVE [U!Next]_(U!vars)
  BY <1>1, <1>3, <1>9, UpCalls, ThreeThreads DEF ForwardReads
<1>10. ASSUME NEW f \in Forwards, ForwardWrites(f) PROVE [U!Next]_(U!vars)
  <2>1. CASE f = up
    BY <1>1, <1>10, <2>1 DEF ForwardWrites
  <2>2. CASE f # up
    <3>1. pc[f] = "check" /\ Data(f) > 0 /\ Write(f, Chunk(f)) /\ f \in Users
      BY <1>10, <2>2, ThreeThreads DEF ForwardWrites, At
    <3>2. Chunk(f) \in Nat \ {0}
      BY <3>1, ChunkFacts DEF ProxyInv, Threads
    <3> QED
      BY <1>3, <3>1, <3>2, UpCalls
  <2> QED
    BY <2>1, <2>2
<1>11. ASSUME NEW f \in Forwards, ForwardChecks(f) PROVE [U!Next]_(U!vars)
  BY <1>1, <1>11 DEF ForwardChecks
<1>12. ASSUME NEW f \in Forwards, ForwardCloses(f) PROVE [U!Next]_(U!vars)
  BY <1>1, <1>3, <1>12, UpCalls, ThreeThreads DEF ForwardCloses
<1>13. ASSUME NEW f \in Forwards, ForwardEnds(f) PROVE U!Next
  BY <1>3, <1>13, UpCalls, ThreeThreads DEF ForwardEnds, Ends
<1>14. CASE Loop \/ Kernel \/ Peers \/ Collector
  BY <1>1, <1>4, <1>14, UpLoop DEF Loop, Kernel, Peers, Collector
<1>15. CASE Loop2 \/ Kernel2 \/ Collector2
  BY <1>1, <1>15 DEF Loop2, Kernel2, Collector2
<1>16. CASE UNCHANGED allVars
  BY <1>1, <1>16 DEF allVars
<1> QED
  BY <1>5, <1>6, <1>7, <1>8, <1>9, <1>10, <1>11, <1>12, <1>13, <1>14, <1>15, <1>16
     DEF ProxyNext, ThreadStep

(* The same for the connection to the remote host.                         *)
LEMMA DownSteps ==
    ASSUME ProxyInv, [ProxyNext]_allVars
    PROVE  [D!Next]_(D!vars)
<1>1. CASE UNCHANGED vars2
  BY <1>1 DEF vars2, D!vars, D!ownVars, D!buffVars, D!opVars, D!peerVars, D!inVars, D!outVars
<1>2. ASSUME NEW t \in Users, \/ D!Connect(t) \/ D!Return(t) \/ D!Fail(t) \/ D!Close(t) \/ D!ReadSome(t)
                              \/ \E u \in Users : D!Share(t, u)
                              \/ \E n \in Nat \ {0} : D!Write(t, n)
      PROVE  D!Next
  BY <1>2 DEF D!Next, D!UserStep
<1>3. CASE D!LoopStep \/ D!KernelStep \/ D!PeerSends \/ D!PeerCloses \/ D!Collect
  BY <1>3 DEF D!Next
<1>4. CASE AcceptUpstream
  BY <1>1, <1>4 DEF AcceptUpstream
<1>5. CASE ConnectRemote
  BY <1>2, <1>5, DownCalls, ThreeThreads DEF ConnectRemote
<1>6. CASE WriteHeader
  BY <1>2, <1>6, DownCalls, ThreeThreads, ProxyAssumption DEF WriteHeader
<1>7. CASE MainEnds \/ HeaderFails
  BY <1>2, <1>7, DownCalls, ThreeThreads DEF MainEnds, Ends, HeaderFails
<1>8. ASSUME NEW f \in Forwards, SpawnForward(f) PROVE D!Next
  BY <1>2, <1>8, DownCalls, ThreeThreads DEF SpawnForward
<1>9. ASSUME NEW f \in Forwards, ForwardReads(f) PROVE [D!Next]_(D!vars)
  BY <1>1, <1>2, <1>9, DownCalls, ThreeThreads DEF ForwardReads
<1>10. ASSUME NEW f \in Forwards, ForwardWrites(f) PROVE [D!Next]_(D!vars)
  <2>1. CASE f # up
    BY <1>1, <1>10, <2>1 DEF ForwardWrites
  <2>2. CASE f = up
    <3>1. pc[f] = "check" /\ Data(f) > 0 /\ Remote!Write(f, Chunk(f)) /\ f \in Users
      BY <1>10, <2>2, ThreeThreads DEF ForwardWrites, At
    <3>2. Chunk(f) \in Nat \ {0}
      BY <3>1, ChunkFacts DEF ProxyInv, Threads
    <3> QED
      BY <1>2, <3>1, <3>2, DownCalls
  <2> QED
    BY <2>1, <2>2
<1>11. ASSUME NEW f \in Forwards, ForwardChecks(f) PROVE [D!Next]_(D!vars)
  BY <1>1, <1>11 DEF ForwardChecks
<1>12. ASSUME NEW f \in Forwards, ForwardCloses(f) PROVE [D!Next]_(D!vars)
  BY <1>1, <1>2, <1>12, DownCalls, ThreeThreads DEF ForwardCloses
<1>13. ASSUME NEW f \in Forwards, ForwardEnds(f) PROVE D!Next
  BY <1>2, <1>13, DownCalls, ThreeThreads DEF ForwardEnds, Ends
<1>14. CASE Loop2 \/ Kernel2 \/ Peers \/ Collector2
  BY <1>1, <1>3, <1>14, DownLoop DEF Loop2, Kernel2, Peers, Collector2
<1>15. CASE Loop \/ Kernel \/ Collector
  BY <1>1, <1>15 DEF Loop, Kernel, Collector
<1>16. CASE UNCHANGED allVars
  BY <1>1, <1>16 DEF allVars
<1> QED
  BY <1>4, <1>5, <1>6, <1>7, <1>8, <1>9, <1>10, <1>11, <1>12, <1>13, <1>14, <1>15, <1>16
     DEF ProxyNext, ThreadStep

----------------------------------------------------------------------------
(* Steps that are not those of the direction's own light thread.           *)
LEMMA UpFrame ==
    ASSUME Connections, Roles, UpRelays, returned' \in [Users -> Seq(Nat)],
           pc'[up] = pc[up], had'[up] = had[up], wrote2'[up] = wrote2[up], out2' = out2,
           D!Continues(up), socket2' = "open" => socket2 = "open" \/ pc[up] = "accept",
           \/ Len(returned'[up]) = Len(returned[up])
           \/ pc[up] = "check" /\ Len(returned'[up]) >= Len(returned[up]),
           at'[up] \in Kinds => at[up] \in Kinds
    PROVE  UpRelays'
<1>1. PICK ws, ws1 : ws = D!Writes(up) /\ ws1 = D!Writes(up)'
  OBVIOUS
<1>2. GoOn(ws, ws1)
  BY <1>1 DEF GoOn, D!Continues, D!Same
<1>3. Len(returned'[up]) \in Nat
  BY LenProperties, ThreeThreads
<1>4. Relays(pc[up], had[up], wrote2[up], ws, socket2,
             Len(out2) - Header, Len(returned[up]), at[up])
  BY <1>1 DEF UpRelays
<1>5. Relays(pc[up], had[up], wrote2[up], ws1, socket2',
             Len(out2) - Header, Len(returned'[up]), at'[up])
  <2>1. PICK h, w, n, total : /\ h = had[up] /\ w = wrote2[up] /\ n = Len(out2) - Header
                              /\ total = Len(returned[up])
    OBVIOUS
  <2>2. RelayTypes(h, w, n, total)
    BY <2>1, RelayTyping
  <2>3. PICK total1 : total1 = Len(returned'[up])
    OBVIOUS
  <2>4. Relays(pc[up], h, w, ws, socket2, n, total, at[up])
    BY <1>4, <2>1
  <2>5. total1 \in Nat /\ (total1 = total \/ (pc[up] = "check" /\ total1 >= total))
    BY <1>3, <2>1, <2>3
  <2>6. PICK label, a, a1, sock, sock1 : /\ label = pc[up] /\ a = at[up] /\ a1 = at'[up]
                                         /\ sock = socket2 /\ sock1 = socket2'
    OBVIOUS
  <2>7. /\ Relays(label, h, w, ws, sock, n, total, a) /\ (a1 \in Kinds => a \in Kinds)
        /\ sock1 = "open" => sock = "open" \/ label = "accept"
        /\ total1 \in Nat /\ (total1 = total \/ (label = "check" /\ total1 >= total))
    BY <2>4, <2>5, <2>6
  <2>8. Relays(label, h, w, ws1, sock1, n, total1, a1)
    BY <1>2, <2>2, <2>7, RelayQuiet
  <2> QED
    BY <2>1, <2>3, <2>6, <2>8
<1> QED
  BY <1>1, <1>5 DEF UpRelays

(* The same for the other direction.                                       *)
LEMMA DownFrame ==
    ASSUME Connections, Roles, DownRelays, returned2' \in [Users -> Seq(Nat)],
           pc'[down] = pc[down], had'[down] = had[down], wrote'[down] = wrote[down], out' = out,
           U!Continues(down), socket' = "open" => socket = "open" \/ pc[down] = "accept",
           \/ Len(returned2'[down]) = Len(returned2[down])
           \/ pc[down] = "check" /\ Len(returned2'[down]) >= Len(returned2[down]),
           at2'[down] \in Kinds => at2[down] \in Kinds
    PROVE  DownRelays'
<1>1. PICK ws, ws1 : ws = U!Writes(down) /\ ws1 = U!Writes(down)'
  OBVIOUS
<1>2. GoOn(ws, ws1)
  BY <1>1 DEF GoOn, U!Continues, U!Same
<1>3. Len(returned2'[down]) \in Nat
  BY LenProperties, ThreeThreads
<1>4. Relays(pc[down], had[down], wrote[down], ws, socket,
             Len(out), Len(returned2[down]), at2[down])
  BY <1>1 DEF DownRelays
<1>5. Relays(pc[down], had[down], wrote[down], ws1, socket',
             Len(out), Len(returned2'[down]), at2'[down])
  <2>1. PICK h, w, n, total : /\ h = had[down] /\ w = wrote[down] /\ n = Len(out)
                              /\ total = Len(returned2[down])
    OBVIOUS
  <2>2. RelayTypes(h, w, n, total)
    BY <2>1, RelayTyping
  <2>3. PICK total1 : total1 = Len(returned2'[down])
    OBVIOUS
  <2>4. Relays(pc[down], h, w, ws, socket, n, total, at2[down])
    BY <1>4, <2>1
  <2>5. total1 \in Nat /\ (total1 = total \/ (pc[down] = "check" /\ total1 >= total))
    BY <1>3, <2>1, <2>3
  <2>6. PICK label, a, a1, sock, sock1 : /\ label = pc[down] /\ a = at2[down] /\ a1 = at2'[down]
                                         /\ sock = socket /\ sock1 = socket'
    OBVIOUS
  <2>7. /\ Relays(label, h, w, ws, sock, n, total, a) /\ (a1 \in Kinds => a \in Kinds)
        /\ sock1 = "open" => sock = "open" \/ label = "accept"
        /\ total1 \in Nat /\ (total1 = total \/ (label = "check" /\ total1 >= total))
    BY <2>4, <2>5, <2>6
  <2>8. Relays(label, h, w, ws1, sock1, n, total1, a1)
    BY <1>2, <2>2, <2>7, RelayQuiet
  <2> QED
    BY <2>1, <2>3, <2>6, <2>8
<1> QED
  BY <1>1, <1>5 DEF DownRelays

(* A connection that a step leaves alone.                                  *)
LEMMA UpStill ==
    ASSUME UNCHANGED vars
    PROVE  /\ UNCHANGED <<object, con, holders, socket, at, sent, received, returned, out, wrote, acked>>
           /\ \A t : U!Writes(t)' = U!Writes(t) /\ U!Continues(t)
<1>1. UNCHANGED <<object, con, holders, socket, at, sent, received, returned, out, wrote, acked,
                  op_queue, ready>>
  BY DEF vars, ownVars, opVars, peerVars, inVars, outVars
<1>2. \A t : U!Writes(t)' = U!Writes(t)
  BY <1>1 DEF U!Writes, U!Outstanding, U!Waiting
<1> QED
  BY <1>1, <1>2 DEF U!Continues, U!Same

(* The same for the other one.                                             *)
LEMMA DownStill ==
    ASSUME UNCHANGED vars2
    PROVE  /\ UNCHANGED <<object2, con2, holders2, socket2, at2, sent2, received2, returned2, out2,
                          wrote2, acked2>>
           /\ \A t : D!Writes(t)' = D!Writes(t) /\ D!Continues(t)
<1>1. UNCHANGED <<object2, con2, holders2, socket2, at2, sent2, received2, returned2, out2, wrote2,
                  acked2, op_queue2, ready2>>
  BY DEF vars2
<1>2. \A t : D!Writes(t)' = D!Writes(t)
  BY <1>1 DEF D!Writes, D!Outstanding, D!Waiting
<1> QED
  BY <1>1, <1>2 DEF D!Continues, D!Same
----------------------------------------------------------------------------
(* At first nothing exists.                                                *)
LEMMA ProxyInitInv == ASSUME ProxyInit PROVE ProxyInv
<1>1. Init /\ Remote!Init /\ pc = [t \in Users |-> "accept"] /\ had = [t \in Users |-> <<>>]
  BY DEF ProxyInit
<1>2. U!Init /\ D!Init
  BY <1>1 DEF Init, U!Init, Remote!Init, D!Init
<1>3. Connections
  BY <1>2, Fits, OneReaderEach, U!InitIInv, U!WriteInit, U!StreamInit, D!InitIInv,
     D!WriteInit, D!StreamInit DEF Connections
<1>4. /\ \A t \in Users : /\ at[t] = "idle" /\ at2[t] = "idle" /\ wrote[t] = <<>>
                         /\ wrote2[t] = <<>> /\ returned[t] = <<>> /\ returned2[t] = <<>>
                         /\ pc[t] = "accept" /\ had[t] = <<>>
      /\ out = <<>> /\ out2 = <<>>
  BY <1>1 DEF Init, Remote!Init
<1>5. Len(<<>>) = 0 /\ \A s : s \in Seq(Nat) => Len(s) \in Nat
  BY LenProperties
<1>6. Roles
  <2>1. pc \in [Users -> Labels] /\ had \in [Users -> Seq(Nat)]
    BY <1>1 DEF Labels
  <2> QED
    BY <1>4, <2>1, ThreeThreads DEF Roles, Resting
<1>7. Threads
  BY <1>4, <1>5, <1>6, ThreeThreads DEF Threads, Started, HeaderSent
<1>8. /\ op_queue["in"] = <<>> /\ op_queue["out"] = <<>> /\ ready = <<>>
      /\ op_queue2["in"] = <<>> /\ op_queue2["out"] = <<>> /\ ready2 = <<>>
  BY <1>1 DEF Init, Remote!Init
<1>9. \A t : U!Writes(t) = {} /\ D!Writes(t) = {}
  BY <1>8, Fits, U!EmptyQueue, D!EmptyQueue
     DEF U!Writes, U!Outstanding, U!Waiting, D!Writes, D!Outstanding, D!Waiting
<1>10. Header \in Nat /\ Header >= 1
  BY ProxyAssumption
<1>11. UpRelays
  <2>1. Relays("accept", <<>>, <<>>, {}, socket2, 0 - Header, 0, "idle")
    BY <1>5, <1>10 DEF Relays, Kinds
  <2>2. OnWire(up, <<>>, Header, <<>>, <<>>)
    BY <1>5, <1>10 DEF OnWire
  <2> QED
    BY <1>4, <1>5, <1>9, <2>1, <2>2, ThreeThreads DEF UpRelays
<1>12. DownRelays
  <2>1. Relays("accept", <<>>, <<>>, {}, socket, 0, 0, "idle")
    BY <1>5 DEF Relays, Kinds
  <2>2. OnWire(down, <<>>, 0, <<>>, <<>>)
    BY <1>5 DEF OnWire
  <2> QED
    BY <1>4, <1>5, <1>9, <2>1, <2>2, ThreeThreads DEF DownRelays
<1> QED
  BY <1>3, <1>7, <1>11, <1>12 DEF ProxyInv

(* Who can be writing: down on upstream, main and up to the remote host,   *)
(* each in its call.                                                       *)
LEMMA WritersAre ==
    ASSUME Connections, Roles
    PROVE  /\ \A x \in U!Outstanding : x.kind = "write" => x.who = down /\ at[down] = "write"
           /\ \A x \in D!Outstanding :
                 x.kind = "write" => x.who \in {main, up} /\ at2[x.who] = "write"
           /\ \A t : U!Writes(t) # {} => t = down /\ at[down] = "write"
           /\ \A t : D!Writes(t) # {} => t \in {main, up} /\ at2[t] = "write"
<1>1. /\ \A x \in U!Outstanding : x.who \in Users /\ at[x.who] = x.kind
      /\ \A x \in D!Outstanding : x.who \in Users /\ at2[x.who] = x.kind
  <2>1. \A x \in U!Outstanding : x.who \in Users
    BY Fits, U!OutstandingOps DEF Connections, U!IInv, U!Ops
  <2>2. \A x \in D!Outstanding : x.who \in Users
    BY Fits, D!OutstandingOps DEF Connections, D!IInv, D!Ops
  <2> QED
    BY <2>1, <2>2 DEF Connections, U!IInv, U!OpsSound, U!OpSound, D!IInv, D!OpsSound, D!OpSound
<1>2. at[main] # "write" /\ at[up] # "write" /\ at2[down] # "write"
  BY DEF Roles, Resting
<1>3. /\ \A x \in U!Outstanding : x.kind = "write" => x.who = down /\ at[down] = "write"
      /\ \A x \in D!Outstanding :
                 x.kind = "write" => x.who \in {main, up} /\ at2[x.who] = "write"
  BY <1>1, <1>2, ThreeThreads
<1> QED
  BY <1>3 DEF U!Writes, D!Writes

(* A connection that does not exist has no light threads in it.            *)
LEMMA NobodyYet ==
    ASSUME ProxyInv, object = "none" \/ object2 = "none"
    PROVE  \A f \in Forwards : pc[f] = "accept"
<1>1. (\A t \in Users : at[t] = "idle") \/ (\A t \in Users : at2[t] = "idle")
  BY DEF ProxyInv, Connections, U!IInv, U!Unborn, D!IInv, D!Unborn
<1> QED
  BY <1>1, ThreeThreads DEF ProxyInv, Threads, Started
----------------------------------------------------------------------------
(* The header.                                                             *)

(* conn:write has returned true for it: it is on the wire, whole.          *)
LEMMA HeaderWhole ==
    ASSUME Connections, Threads, acked2[main] = 1
    PROVE  Len(out2) >= Header /\ wrote2[main] = <<Header>>
<1>1. /\ wrote2[main] = <<Header>> /\ Header \in 1..Header
  <2>1. acked2[main] <= Len(wrote2[main])
    BY ThreeThreads DEF Connections, D!WriteInv
  <2> QED
    BY <2>1, Typing DEF Threads, HeaderSent
<1>2. <<main, 1, Header>> \in D!OnWire
  <2>1. D!Gapless(main)
    BY ThreeThreads DEF Connections, D!WriteInv
  <2>2. 1 \in 1..Len(wrote2[main]) /\ wrote2[main][1] = Header
    BY <1>1
  <2>3. Header \in 1..wrote2[main][1]
    BY <1>1, <2>2
  <2> QED
    BY <2>1, <2>2, <2>3 DEF D!Gapless
<1>3. PICK p \in 1..Len(out2) : out2[p] = <<main, 1, Header>>
  <2>1. D!OnWire = {out2[p] : p \in 1..Len(out2)}
    BY Fits, D!WireTypes DEF Connections, D!IInv
  <2> QED
    BY <1>2, <2>1
<1>4. out2[p][1] = main
  BY <1>3
<1>5. p <= Header /\ out2[p] = <<main, 1, p>>
  BY <1>4 DEF Threads, HeaderSent
<1>6. p = Header
  BY <1>3, <1>5
<1> QED
  BY <1>1, <1>6, Typing DEF Threads

(* While the header is being written nothing else is on the wire, and of   *)
(* the header what was transferred.                                        *)
LEMMA HeaderGoing ==
    ASSUME ProxyInv, NEW x \in D!Outstanding, x.kind = "write", x.who = main, x.res = "none"
    PROVE  /\ pc[up] = "accept" /\ wrote2[main] = <<Header>> /\ x.size = Header
           /\ x.got = Len(out2) /\ Len(out2) <= Header
           /\ \A k \in 1..Len(out2) : out2[k] = <<main, 1, k>>
<1> USE DEF ProxyInv
<1>1. D!WriteProgress(x)
  BY DEF Connections, D!WriteInv
<1>2. acked2[main] < Len(wrote2[main]) /\ Len(wrote2[main]) > 0
  BY <1>1 DEF D!WriteProgress
<1>3. wrote2[main] = <<Header>> /\ x.size = Header
  <2>1. wrote2[main] = <<Header>>
    BY <1>2 DEF Threads, HeaderSent
  <2> QED
    BY <1>1, <2>1 DEF D!WriteProgress
<1>4. acked2[main] # 1
  BY <1>2, <1>3
<1>5. pc[up] = "accept"
  BY <1>4, ThreeThreads DEF Threads, Started
<1>6. Len(out2) \in Nat /\ Header \in Nat
  BY Typing DEF Threads
<1>7. Len(out2) <= Header
  <2>1. Len(out2) - Header <= 0
    BY <1>5 DEF UpRelays, Relays
  <2> QED
    BY <1>6, <2>1
<1>8. \A k \in 1..Len(out2) : out2[k] = <<main, 1, k>>
  BY <1>6, <1>7 DEF Threads, HeaderSent
<1>9. /\ x.got \in Nat /\ x.got <= Header
      /\ \A i \in 1..Header : <<main, 1, i>> \in D!OnWire <=> i <= x.got
  <2>1. x.got \in Nat /\ x.got <= x.size
    BY Fits, D!OutstandingOps DEF Connections, D!IInv, D!OpsSound, D!OpSound, D!Ops
  <2>2. \A i \in 1..x.size : <<main, Len(wrote2[main]), i>> \in D!OnWire <=> i <= x.got
    BY <1>1 DEF D!WriteProgress
  <2> QED
    BY <1>3, <2>1, <2>2
<1>10. \A i \in 1..Header : <<main, 1, i>> \in D!OnWire <=> i \in 1..Len(out2)
  <2>1. D!OnWire = {out2[p] : p \in 1..Len(out2)}
    BY Fits, D!WireTypes DEF Connections, D!IInv
  <2>2. ASSUME NEW i \in 1..Header, <<main, 1, i>> \in D!OnWire PROVE i \in 1..Len(out2)
    <3>1. PICK p \in 1..Len(out2) : out2[p] = <<main, 1, i>>
      BY <2>1, <2>2
    <3>2. out2[p] = <<main, 1, p>>
      BY <1>8
    <3> QED
      BY <3>1, <3>2
  <2>3. ASSUME NEW i \in 1..Header, i \in 1..Len(out2) PROVE <<main, 1, i>> \in D!OnWire
    BY <1>8, <2>1, <2>3
  <2> QED
    BY <2>2, <2>3
<1>11. ASSUME NEW i \in 1..Header PROVE i <= x.got <=> i <= Len(out2)
  <2>1. i <= x.got <=> i \in 1..Len(out2)
    BY <1>9, <1>10
  <2> QED
    BY <1>6, <2>1
<1>12. x.got = Len(out2)
  <2>1. CASE x.got < Len(out2)
    <3>1. x.got + 1 \in 1..Header /\ x.got + 1 <= Len(out2) /\ ~(x.got + 1 <= x.got)
      BY <1>6, <1>7, <1>9, <2>1
    <3> QED
      BY <1>11, <3>1
  <2>2. CASE Len(out2) < x.got
    <3>1. Len(out2) + 1 \in 1..Header /\ Len(out2) + 1 <= x.got /\ ~(Len(out2) + 1 <= Len(out2))
      BY <1>6, <1>9, <2>2
    <3> QED
      BY <1>11, <3>1
  <2> QED
    BY <1>6, <1>9, <2>1, <2>2
<1> QED
  BY <1>3, <1>5, <1>7, <1>8, <1>12

----------------------------------------------------------------------------
(* Steps, seen by the light threads.                                       *)

(* A forward thread that exists goes on to exist, and one that does not    *)
(* has done nothing.                                                       *)
LEMMA StartedKept ==
    ASSUME NEW f, Started(f),
           pc'[f] = "accept" <=> pc[f] = "accept",
           at'[f] = "idle" <=> at[f] = "idle", at2'[f] = "idle" <=> at2[f] = "idle",
           pc[f] = "accept" =>
              had'[f] = had[f] /\ wrote'[f] = wrote[f] /\ wrote2'[f] = wrote2[f],
           acked2[main] = 1 => acked2'[main] = 1
    PROVE  Started(f)'
BY DEF Started

(* Steps that send nothing to the remote host.                             *)
LEMMA HeaderKept ==
    ASSUME HeaderSent, out2' = out2, wrote2'[main] = wrote2[main],
           pc'[main] \in {"accept", "connect", "write"} => pc[main] \in {"accept", "connect", "write"}
    PROVE  HeaderSent'
BY DEF HeaderSent
(* The calls, the kernel and the loop of a connection never put a light    *)
(* thread that was not there into it, and take it nowhere but out of its   *)
(* call.                                                                   *)
Comes(a, a1) == a1 = a \/ (a \in Kinds /\ a1 = "run")

(* A thread coming out of its call stays where its role allows it.         *)
LEMMA RolesKept ==
    ASSUME Roles, pc' = pc, had' = had,
           \A t \in Users : Comes(at[t], at'[t]) /\ Comes(at2[t], at2'[t])
    PROVE  Roles'
BY ThreeThreads DEF Roles, Comes, Resting, Kinds

(* The kernel, the loop and the collector on upstream.                     *)
LEMMA UpBackground ==
    ASSUME ProxyInv, Connections', U!Background, UNCHANGED <<vars2, pc, had>>
    PROVE  Threads' /\ UpRelays' /\ DownRelays'
<1> USE DEF ProxyInv
<1>1. /\ UNCHANGED wrote /\ socket' \in {socket, "closed"}
      /\ \A t \in Users : /\ Comes(at[t], at'[t])
                          /\ at[t] \notin Kinds => returned'[t] = returned[t]
                          /\ Len(returned'[t]) >= Len(returned[t])
  <2>1. U!IInv /\ U!Kinds = Kinds
    BY DEF Connections, U!Kinds, Kinds
  <2>2. ASSUME NEW t \in Users
        PROVE  /\ UNCHANGED wrote /\ socket' \in {socket, "closed"}
               /\ Comes(at[t], at'[t])
               /\ at[t] \notin Kinds => returned'[t] = returned[t]
               /\ Len(returned'[t]) >= Len(returned[t])
    BY <2>1, Fits, ProxyAssumption, U!BackgroundFrame DEF Comes
  <2> QED
    BY <2>2, ThreeThreads
<1>2. /\ UNCHANGED <<at2, returned2, out2, wrote2, acked2, socket2>>
      /\ \A t : D!Continues(t) /\ D!Writes(t)' = D!Writes(t)
  BY DownStill
<1>3. Threads'
  <2>1. Roles'
    BY <1>1, <1>2, RolesKept DEF Threads, Comes
  <2>2. \A f \in Forwards : Started(f)'
    <3> SUFFICES ASSUME NEW f \in Forwards PROVE Started(f)'
      OBVIOUS
    <3>1. at'[f] = "idle" <=> at[f] = "idle"
      BY <1>1, ThreeThreads DEF Comes, Kinds
    <3> QED
      BY <1>1, <1>2, <3>1, StartedKept DEF Threads
  <2>3. HeaderSent'
    BY <1>2, HeaderKept DEF Threads
  <2> QED
    BY <2>1, <2>2, <2>3 DEF Threads
<1>4. UpRelays'
  <2>1. returned' \in [Users -> Seq(Nat)]
    BY DEF Connections, U!IInv, U!Types
  <2>2. at[up] \in Kinds => pc[up] = "check"
    BY DEF UpRelays, Relays
  <2>3. \/ Len(returned'[up]) = Len(returned[up])
        \/ pc[up] = "check" /\ Len(returned'[up]) >= Len(returned[up])
    BY <1>1, <2>2, ThreeThreads
  <2>4. at'[up] \in Kinds => at[up] \in Kinds
    BY <1>1, ThreeThreads DEF Comes
  <2> QED
    BY <1>2, <2>1, <2>3, <2>4, UpFrame DEF Threads
<1>5. Len(returned2'[down]) = Len(returned2[down]) /\ at2'[down] = at2[down]
  BY <1>2
<1>6. CASE out' = out /\ U!Continues(down)
  <2>1. returned2' \in [Users -> Seq(Nat)]
    BY DEF Connections, D!IInv, D!Types
  <2>2. socket' = "open" => socket = "open"
    BY <1>1
  <2> QED
    BY <1>1, <1>2, <1>3, <1>4, <1>5, <1>6, <2>1, <2>2, DownFrame DEF Threads
<1>7. ASSUME NEW h, NEW k, U!Sends(h, k) PROVE DownRelays'
  <2>1. /\ h \in U!Outstanding /\ h.kind = "write" /\ h.res = "none" /\ h.who = down
        /\ k \in Nat /\ h.got + k <= h.size /\ h.got \in Nat /\ h.size \in Nat
    <3>1. h \in U!Outstanding /\ h.kind = "write" /\ h.res = "none" /\ k \in Nat /\ h.got + k <= h.size
      BY <1>7 DEF U!Sends
    <3>2. h.got \in Nat /\ h.size \in Nat
      BY <3>1, Fits, U!OutstandingOps DEF Connections, U!IInv, U!Ops
    <3> QED
      BY <3>1, <3>2, WritersAre DEF Threads
  <2>2. PICK ws, ws1 : ws = U!Writes(down) /\ ws1 = U!Writes(down)'
    OBVIOUS
  <2>3. /\ h \in ws /\ ws1 # {} /\ \A x \in ws1 : x.size = h.size /\ x.got = h.got + k
        /\ out' = out \o [i \in 1..k |-> <<down, Len(wrote[down]), h.got + i>>]
    BY <1>7, <2>1, <2>2 DEF U!Sends, U!Writes
  <2>4. PICK ho, w, n, total, a, sock, label :
           /\ ho = had[down] /\ w = wrote[down] /\ n = Len(out) /\ total = Len(returned2[down])
           /\ a = at2[down] /\ sock = socket /\ label = pc[down]
    OBVIOUS
  <2>5. RelayTypes(ho, w, n, total) /\ Relays(label, ho, w, ws, sock, n, total, a)
    BY <2>2, <2>4, RelayTyping DEF Threads, DownRelays
  <2>6. PICK n1, sock1 : n1 = n + k /\ sock1 = socket'
    OBVIOUS
  <2>7. /\ Relays(label, ho, w, ws1, sock1, n1, total, a)
        /\ Len(w) > 0 /\ Len(w) = Len(ho) /\ ho[Len(w)] \in Nat /\ n = ho[Len(w)] + h.got
    <3>1. sock1 = "open" => sock = "open"
      BY <1>1, <2>4, <2>6
    <3>2. Sent(h, k, n, n1, ws1)
      BY <2>1, <2>3, <2>6 DEF Sent
    <3>3. Relays(label, ho, w, ws1, sock1, n1, total, a) /\ Place(ho, w, n, h.got)
      BY <2>3, <2>5, <3>1, <3>2, RelaySends
    <3> QED
      BY <3>3 DEF Place
  <2>8. out \in Seq(Users \X Nat \X Nat) /\ w \in Seq(Nat) /\ ho \in Seq(Nat) /\ down \in Users
    BY <2>4, Typing, ThreeThreads DEF Threads
  <2>9. OnWire(down, out', 0, ho, w) /\ Len(out') = n1
    <3>1. OnWire(down, out, 0, ho, w) /\ Len(out) - 0 = ho[Len(w)] + h.got
      BY <2>4, <2>7, Typing DEF Threads, DownRelays
    <3>2. PICK g, wire1 : g = h.got /\ wire1 = out'
      OBVIOUS
    <3>3. Follow(out, wire1, down, Len(w), g, k)
      <4>1. wire1 = out \o [i \in 1..k |-> <<down, Len(w), g + i>>]
        BY <2>3, <2>4, <3>2
      <4>2. Len(w) \in Nat /\ g \in Nat /\ k \in Nat
        BY <2>1, <2>8, <3>2, LogTypes
      <4> QED
        BY <2>8, <4>1, <4>2, Appended
    <3>4. OnWire(down, wire1, 0, ho, w)
      <4>1. Len(out) \in Nat /\ g \in Nat /\ k \in Nat /\ 0 \in Nat /\ Len(out) - 0 = ho[Len(w)] + g
        BY <2>1, <2>8, <3>1, <3>2, LenProperties
      <4> QED
        BY <2>7, <2>8, <3>1, <3>3, <4>1, WireSends
    <3>5. Len(wire1) = Len(out) + k
      BY <3>3 DEF Follow
    <3> QED
      BY <2>4, <2>6, <3>2, <3>4, <3>5
  <2> QED
    BY <1>1, <1>5, <2>2, <2>4, <2>6, <2>7, <2>9 DEF DownRelays
<1>8. ASSUME out' = out, U!Ends(down) PROVE DownRelays'
  <2>1. PICK ws : ws = U!Writes(down)
    OBVIOUS
  <2>2. /\ ws # {} /\ U!Writes(down)' = {}
        /\ socket' = "closed" \/ \A x \in ws : x.res = "ok" /\ x.got = x.size
    BY <1>8, <2>1 DEF U!Ends
  <2>3. Relays(pc[down], had[down], wrote[down], ws, socket, Len(out), Len(returned2[down]), at2[down])
    BY <2>1 DEF DownRelays
  <2>4. /\ socket' = "open" => socket = "open"
        /\ socket' # "open" \/ \A x \in ws : x.res = "ok" /\ x.got = x.size
    BY <1>1, <2>2
  <2>5. Relays(pc[down], had[down], wrote[down], {}, socket', Len(out), Len(returned2[down]), at2[down])
    BY <2>2, <2>3, <2>4, RelayEnds
  <2> QED
    BY <1>1, <1>5, <1>8, <2>2, <2>5 DEF DownRelays
<1>9. \/ out' = out /\ U!Continues(down)
      \/ \E h, k : U!Sends(h, k)
      \/ out' = out /\ U!Ends(down)
  <2>1. \/ out' = out /\ \A t : U!Continues(t)
        \/ \E h, k : U!Sends(h, k)
        \/ out' = out /\ \E u : U!Ends(u) /\ \A t : t # u => U!Continues(t)
    BY Fits, U!BackgroundWrites DEF Connections
  <2> QED
    BY <2>1
<1> QED
  BY <1>3, <1>4, <1>6, <1>7, <1>8, <1>9
(* The same on the connection to the remote host, where main sends the     *)
(* header.                                                                 *)
LEMMA DownBackground ==
    ASSUME ProxyInv, Connections', D!Background, UNCHANGED <<vars, pc, had>>
    PROVE  Threads' /\ UpRelays' /\ DownRelays'
<1> USE DEF ProxyInv
<1>1. /\ UNCHANGED wrote2 /\ socket2' \in {socket2, "closed"}
      /\ \A t \in Users : /\ Comes(at2[t], at2'[t])
                          /\ at2[t] \notin Kinds => returned2'[t] = returned2[t]
                          /\ Len(returned2'[t]) >= Len(returned2[t])
                          /\ acked2'[t] >= acked2[t]
  <2>1. D!IInv /\ D!Kinds = Kinds
    BY DEF Connections, D!Kinds, Kinds
  <2>2. ASSUME NEW t \in Users
        PROVE  /\ UNCHANGED wrote2 /\ socket2' \in {socket2, "closed"}
               /\ Comes(at2[t], at2'[t])
               /\ at2[t] \notin Kinds => returned2'[t] = returned2[t]
               /\ Len(returned2'[t]) >= Len(returned2[t])
               /\ acked2'[t] >= acked2[t]
    BY <2>1, Fits, ProxyAssumption, D!BackgroundFrame DEF Comes
  <2> QED
    BY <2>2, ThreeThreads
<1>2. /\ UNCHANGED <<at, returned, out, wrote, socket>>
      /\ \A t : U!Continues(t) /\ U!Writes(t)' = U!Writes(t)
  BY UpStill
<1>3. Roles'
  BY <1>1, <1>2, RolesKept DEF Threads, Comes
<1>4. \A f \in Forwards : Started(f)'
  <2>1. acked2[main] = 1 => acked2'[main] = 1
    <3>1. acked2'[main] \in Nat /\ acked2'[main] <= Len(wrote2'[main])
      BY ThreeThreads DEF Connections, D!IInv, D!Types, D!WriteInv
    <3>2. wrote2[main] \in {<<>>, <<Header>>}
      BY DEF Threads, HeaderSent
    <3>3. Len(wrote2[main]) \in {0, 1}
      <4>1. Len(<<>>) = 0 /\ Len(<<Header>>) = 1
        OBVIOUS
      <4> QED
        BY <3>2, <4>1
    <3>4. acked2'[main] >= acked2[main] /\ wrote2' = wrote2
      BY <1>1, ThreeThreads
    <3>5. PICK x, y, l : x = acked2[main] /\ y = acked2'[main] /\ l = Len(wrote2[main])
      OBVIOUS
    <3>6. y \in Nat /\ y <= l /\ l \in {0, 1} /\ y >= x
      BY <3>1, <3>3, <3>4, <3>5
    <3>7. x = 1 => y = 1
      BY <3>6
    <3> QED
      BY <3>5, <3>7
  <2> SUFFICES ASSUME NEW f \in Forwards PROVE Started(f)'
    OBVIOUS
  <2>2. at2'[f] = "idle" <=> at2[f] = "idle"
    BY <1>1, ThreeThreads DEF Comes, Kinds
  <2> QED
    BY <1>1, <1>2, <2>1, <2>2, StartedKept DEF Threads
<1>5. DownRelays'
  <2>1. returned2' \in [Users -> Seq(Nat)]
    BY DEF Connections, D!IInv, D!Types
  <2>2. at2[down] \in Kinds => pc[down] = "check"
    BY DEF DownRelays, Relays
  <2>3. \/ Len(returned2'[down]) = Len(returned2[down])
        \/ pc[down] = "check" /\ Len(returned2'[down]) >= Len(returned2[down])
    BY <1>1, <2>2, ThreeThreads
  <2>4. at2'[down] \in Kinds => at2[down] \in Kinds
    BY <1>1, ThreeThreads DEF Comes
  <2> QED
    BY <1>2, <2>1, <2>3, <2>4, DownFrame DEF Threads
<1>6. Len(returned'[up]) = Len(returned[up]) /\ at'[up] = at[up]
  BY <1>2
<1>7. ASSUME out2' = out2, D!Continues(up) PROVE HeaderSent' /\ UpRelays'
  <2>1. returned' \in [Users -> Seq(Nat)]
    BY DEF Connections, U!IInv, U!Types
  <2>2. socket2' = "open" => socket2 = "open"
    BY <1>1
  <2>3. UpRelays'
    BY <1>1, <1>2, <1>6, <1>7, <2>1, <2>2, UpFrame DEF Threads
  <2> QED
    BY <1>1, <1>7, <2>3, HeaderKept DEF Threads
<1>8. ASSUME NEW h, NEW k, D!Sends(h, k)
      PROVE  /\ h \in D!Outstanding /\ h.kind = "write" /\ h.res = "none" /\ h.who \in {main, up}
             /\ h \in D!Writes(h.who)
             /\ k \in Nat /\ h.got + k <= h.size /\ h.got \in Nat /\ h.size \in Nat
             /\ D!Writes(h.who)' # {}
             /\ \A x \in D!Writes(h.who)' : x.size = h.size /\ x.got = h.got + k
             /\ Follow(out2, out2', h.who, Len(wrote2[h.who]), h.got, k)
  <2>1. /\ h \in D!Outstanding /\ h.kind = "write" /\ h.res = "none" /\ k \in Nat
        /\ h.got + k <= h.size
        /\ out2' = out2 \o [i \in 1..k |-> <<h.who, Len(wrote2[h.who]), h.got + i>>]
    BY <1>8 DEF D!Sends
  <2>2. h.got \in Nat /\ h.size \in Nat
    BY <2>1, Fits, D!OutstandingOps DEF Connections, D!IInv, D!Ops
  <2>3. h.who \in {main, up} /\ h.who \in Users
    BY <2>1, WritersAre, ThreeThreads DEF Threads
  <2>4. /\ D!Writes(h.who)' # {} /\ h \in D!Writes(h.who)
        /\ \A x \in D!Writes(h.who)' : x.size = h.size /\ x.got = h.got + k
    BY <1>8, <2>1 DEF D!Sends, D!Writes
  <2>5. Len(wrote2[h.who]) \in Nat /\ out2 \in Seq(Users \X Nat \X Nat)
    BY <2>3, Typing, LogTypes DEF Threads
  <2>6. Follow(out2, out2', h.who, Len(wrote2[h.who]), h.got, k)
    <3>1. PICK g, m, f, wire1 : g = h.got /\ m = Len(wrote2[h.who]) /\ f = h.who /\ wire1 = out2'
      OBVIOUS
    <3>2. wire1 = out2 \o [i \in 1..k |-> <<f, m, g + i>>]
      BY <2>1, <3>1
    <3>3. g \in Nat /\ m \in Nat /\ f \in Users /\ k \in Nat
      BY <2>1, <2>2, <2>3, <2>5, <3>1
    <3>4. Follow(out2, wire1, f, m, g, k)
      BY <2>5, <3>2, <3>3, Appended
    <3> QED
      BY <3>1, <3>4
  <2> QED
    BY <2>1, <2>2, <2>3, <2>4, <2>6
<1>9. ASSUME NEW h, NEW k, D!Sends(h, k), h.who = main PROVE HeaderSent' /\ UpRelays'
  <2>1. /\ pc[up] = "accept" /\ wrote2[main] = <<Header>> /\ h.size = Header
        /\ h.got = Len(out2) /\ Len(out2) <= Header
        /\ \A j \in 1..Len(out2) : out2[j] = <<main, 1, j>>
    BY <1>8, <1>9, HeaderGoing
  <2>2. /\ Len(out2') = Len(out2) + k
        /\ \A p \in 1..Len(out2) : out2'[p] = out2[p]
        /\ \A i \in 1..k : out2'[Len(out2) + i] = <<main, 1, Len(out2) + i>>
    <3>1. Len(wrote2[main]) = 1
      BY <2>1
    <3>2. Follow(out2, out2', main, 1, Len(out2), k)
      BY <1>8, <1>9, <2>1, <3>1
    <3> QED
      BY <3>2 DEF Follow
  <2>3. PICK l, l1 : l = Len(out2) /\ l1 = Len(out2')
    OBVIOUS
  <2>4. l \in Nat /\ Header \in Nat /\ k \in Nat /\ l1 = l + k /\ l1 <= Header
    BY <1>8, <1>9, <2>1, <2>2, <2>3, Typing DEF Threads
  <2>5. ASSUME NEW j \in 1..l1 PROVE out2'[j] = <<main, 1, j>> /\ j <= Header
    <3>1. CASE j <= l
      BY <2>1, <2>2, <2>3, <2>4, <3>1
    <3>2. CASE ~(j <= l)
      <4>1. PICK i : i = j - l
        OBVIOUS
      <4>2. i \in 1..k /\ l + i = j /\ j <= Header
        BY <2>4, <3>2, <4>1
      <4> QED
        BY <2>2, <2>3, <4>2
    <3> QED
      BY <3>1, <3>2
  <2>6. HeaderSent'
    BY <1>1, <2>3, <2>5 DEF Threads, HeaderSent
  <2>7. D!Writes(up)' = {}
    <3>1. D!Continues(up)
      BY <1>9, ThreeThreads DEF D!Sends
    <3>2. D!Writes(up) = {}
      BY <2>1 DEF UpRelays, Relays
    <3> QED
      BY <3>1, <3>2 DEF D!Continues
  <2>8. l1 - Header <= 0 /\ l1 - Header \in Int
    BY <2>4
  <2>9. OnWire(up, out2', Header, had[up], wrote2[up])
    BY <2>3, <2>4 DEF OnWire
  <2>10. Relays("accept", had[up], wrote2[up], {}, socket2', l1 - Header, Len(returned[up]), at[up])
    <3>1. Relays("accept", had[up], wrote2[up], D!Writes(up), socket2, Len(out2) - Header,
                 Len(returned[up]), at[up])
      BY <2>1 DEF UpRelays
    <3>2. Len(returned[up]) = 0
      BY <3>1 DEF Relays
    <3> QED
      BY <2>8, <3>1, <3>2 DEF Relays
  <2> QED
    BY <1>1, <1>2, <2>1, <2>3, <2>6, <2>7, <2>9, <2>10 DEF UpRelays
<1>10. ASSUME NEW h, NEW k, D!Sends(h, k), h.who = up PROVE HeaderSent' /\ UpRelays'
  <2>1. PICK ws, ws1 : ws = D!Writes(up) /\ ws1 = D!Writes(up)'
    OBVIOUS
  <2>2. PICK ho, w, n, total, a, sock, label :
           /\ ho = had[up] /\ w = wrote2[up] /\ n = Len(out2) - Header
           /\ total = Len(returned[up]) /\ a = at[up] /\ sock = socket2 /\ label = pc[up]
    OBVIOUS
  <2>3. /\ h \in ws /\ ws1 # {} /\ \A x \in ws1 : x.size = h.size /\ x.got = h.got + k
        /\ k \in Nat /\ h.got \in Nat /\ h.size \in Nat /\ h.got + k <= h.size /\ h.res = "none"
        /\ Follow(out2, out2', up, Len(w), h.got, k)
    BY <1>8, <1>10, <2>1, <2>2
  <2>4. RelayTypes(ho, w, n, total) /\ Relays(label, ho, w, ws, sock, n, total, a)
    BY <2>1, <2>2, RelayTyping DEF Threads, UpRelays
  <2>5. PICK n1, sock1 : n1 = n + k /\ sock1 = socket2'
    OBVIOUS
  <2>6. /\ Relays(label, ho, w, ws1, sock1, n1, total, a)
        /\ Len(w) > 0 /\ Len(w) = Len(ho) /\ ho[Len(w)] \in Nat /\ n = ho[Len(w)] + h.got
    <3>1. sock1 = "open" => sock = "open"
      BY <1>1, <2>2, <2>5
    <3>2. Sent(h, k, n, n1, ws1)
      BY <2>3, <2>5 DEF Sent
    <3>3. Relays(label, ho, w, ws1, sock1, n1, total, a) /\ Place(ho, w, n, h.got)
      BY <2>3, <2>4, <3>1, <3>2, RelaySends
    <3> QED
      BY <3>3 DEF Place
  <2>7. w \in Seq(Nat) /\ ho \in Seq(Nat) /\ Header \in Nat /\ Len(out2) \in Nat
    BY <2>2, Typing, ThreeThreads DEF Threads
  <2>8. OnWire(up, out2', Header, ho, w)
    <3>1. PICK g, wire1 : g = h.got /\ wire1 = out2'
      OBVIOUS
    <3>2. OnWire(up, out2, Header, ho, w) /\ Len(out2) - Header = ho[Len(w)] + g
      BY <2>2, <2>6, <3>1 DEF UpRelays
    <3>3. Follow(out2, wire1, up, Len(w), g, k) /\ g \in Nat
      BY <2>3, <3>1
    <3>4. OnWire(up, wire1, Header, ho, w)
      BY <2>3, <2>6, <2>7, <3>2, <3>3, WireSends
    <3> QED
      BY <3>1, <3>4
  <2>9. Len(out2') = Len(out2) + k /\ Len(out2') - Header = n1
    <3>1. Len(out2') = Len(out2) + k
      BY <2>3 DEF Follow
    <3> QED
      BY <2>2, <2>3, <2>5, <2>7, <3>1
  <2>10. UpRelays'
    BY <1>1, <1>6, <2>1, <2>2, <2>5, <2>6, <2>8, <2>9 DEF UpRelays
  <2>11. Len(out2) >= Header
    <3>1. label # "accept"
      BY <2>4, <2>3 DEF Relays
    <3>2. acked2[main] = 1
      BY <2>2, <3>1, ThreeThreads DEF Threads, Started
    <3> QED
      BY <3>2, HeaderWhole
  <2>12. PICK l, l1 : l = Len(out2) /\ l1 = Len(out2')
    OBVIOUS
  <2>13. l \in Nat /\ l1 = l + k /\ Header <= l
    BY <2>7, <2>9, <2>11, <2>12
  <2>14. ASSUME NEW j \in 1..l1
         PROVE  IF j <= Header THEN out2'[j] = <<main, 1, j>> ELSE out2'[j][1] # main
    <3>1. CASE j <= l
      <4>1. j \in 1..l /\ out2'[j] = out2[j]
        BY <2>3, <2>12, <2>13, <3>1 DEF Follow
      <4> QED
        BY <2>12, <4>1 DEF Threads, HeaderSent
    <3>2. CASE ~(j <= l)
      <4>1. PICK i : i = j - l
        OBVIOUS
      <4>2. i \in 1..k /\ l + i = j /\ ~(j <= Header)
        BY <2>3, <2>7, <2>13, <3>2, <4>1
      <4>3. out2'[j] = <<up, Len(w), h.got + i>>
        BY <2>3, <2>12, <4>2 DEF Follow
      <4> QED
        BY <4>2, <4>3, ThreeThreads
    <3> QED
      BY <3>1, <3>2
  <2>15. HeaderSent'
    BY <1>1, <2>12, <2>14 DEF Threads, HeaderSent
  <2> QED
    BY <2>10, <2>15
<1>11. ASSUME out2' = out2, D!Ends(up) PROVE HeaderSent' /\ UpRelays'
  <2>1. PICK ws : ws = D!Writes(up)
    OBVIOUS
  <2>2. /\ ws # {} /\ D!Writes(up)' = {}
        /\ socket2' = "closed" \/ \A x \in ws : x.res = "ok" /\ x.got = x.size
    BY <1>11, <2>1 DEF D!Ends
  <2>3. Relays(pc[up], had[up], wrote2[up], ws, socket2, Len(out2) - Header, Len(returned[up]), at[up])
    BY <2>1 DEF UpRelays
  <2>4. /\ socket2' = "open" => socket2 = "open"
        /\ socket2' # "open" \/ \A x \in ws : x.res = "ok" /\ x.got = x.size
    BY <1>1, <2>2
  <2>5. Relays(pc[up], had[up], wrote2[up], {}, socket2', Len(out2) - Header, Len(returned[up]), at[up])
    BY <2>2, <2>3, <2>4, RelayEnds
  <2>6. UpRelays'
    BY <1>1, <1>6, <1>11, <2>2, <2>5 DEF UpRelays
  <2> QED
    BY <1>1, <1>11, <2>6, HeaderKept DEF Threads
<1>12. HeaderSent' /\ UpRelays'
  <2>1. \/ out2' = out2 /\ \A t : D!Continues(t)
        \/ \E h, k : D!Sends(h, k)
        \/ out2' = out2 /\ \E u : D!Ends(u) /\ \A t : t # u => D!Continues(t)
    BY Fits, D!BackgroundWrites DEF Connections
  <2>2. CASE \E h, k : D!Sends(h, k)
    BY <1>8, <1>9, <1>10, <2>2
  <2>3. CASE out2' = out2 /\ (D!Continues(up) \/ D!Ends(up))
    BY <1>7, <1>11, <2>3
  <2> QED
    BY <2>1, <2>2, <2>3
<1> QED
  BY <1>3, <1>4, <1>5, <1>12 DEF Threads
----------------------------------------------------------------------------
(* Steps of the light threads.                                             *)

(* What a call of t leaves alone on upstream, and on the other connection. *)
UpAside(t) ==
    /\ UNCHANGED <<returned, out, acked>>
    /\ socket' = "open" => socket = "open" \/ object = "none"
    /\ \A u \in Users \ {t} : at'[u] = at[u] /\ wrote'[u] = wrote[u] /\ U!Continues(u)

DownAside(t) ==
    /\ UNCHANGED <<returned2, out2, acked2>>
    /\ socket2' = "open" => socket2 = "open" \/ object2 = "none"
    /\ \A u \in Users \ {t} : at2'[u] = at2[u] /\ wrote2'[u] = wrote2[u] /\ D!Continues(u)

(* The calls on upstream that write nothing, and their results for t.      *)
LEMMA UpCall ==
    ASSUME ProxyInv, NEW t \in Users,
           \/ UNCHANGED vars
           \/ U!Accepted /\ holders' = {t}
           \/ \E u \in Users : U!Share(u, t)
           \/ U!ReadSome(t) \/ U!Close(t) \/ U!Return(t) \/ U!Fail(t)
    PROVE  /\ UpAside(t) /\ wrote' = wrote /\ U!Continues(t)
           /\ at'[t] \in {at[t], "run", "done", "read_some"}
           /\ at'[t] = "read_some" => at[t] = "read_some" \/ U!ReadSome(t)
           /\ at'[t] = at[t] \/ at'[t] # "idle"
<1>1. U!IInv /\ at \in [Users -> Kinds \cup Resting]
  BY Typing DEF ProxyInv, Connections, Threads
<1>2. CASE UNCHANGED vars
  BY <1>2, UpStill DEF UpAside
<1>3. CASE U!Accepted /\ holders' = {t}
  <2>1. object = "none" /\ \A u \in Users : at[u] = "idle"
    BY <1>1, <1>3 DEF U!Accepted, U!IInv, U!Unborn
  <2>2. at' = [u \in Users |-> IF u \in holders' THEN "run" ELSE "idle"]
    BY <1>3 DEF U!Accepted
  <2>3. UNCHANGED <<returned, out, wrote, acked>> /\ \A u : U!Continues(u)
    BY <1>1, <1>3, Fits, U!CallWrites DEF U!outVars, U!inVars
  <2> QED
    BY <1>3, <2>1, <2>2, <2>3 DEF UpAside
<1>4. ASSUME \/ \E u \in Users : U!Share(u, t)
             \/ U!ReadSome(t) \/ U!Close(t) \/ U!Return(t) \/ U!Fail(t)
      PROVE  UNCHANGED <<returned, out, wrote, acked>> /\ \A u : U!Continues(u)
  BY <1>1, <1>4, Fits, U!CallWrites DEF U!outVars, U!inVars
<1>5. CASE \E u \in Users : U!Share(u, t)
  <2>1. at' = [at EXCEPT ![t] = "run"] /\ socket' = socket
    BY <1>5 DEF U!Share, U!opVars
  <2> QED
    BY <1>1, <1>4, <1>5, <2>1 DEF UpAside
<1>6. CASE U!ReadSome(t)
  <2>1. at' = [at EXCEPT ![t] = "read_some"] /\ socket' = socket
    BY <1>6 DEF U!ReadSome, U!StartOp
  <2> QED
    BY <1>1, <1>4, <1>6, <2>1 DEF UpAside
<1>7. CASE U!Close(t)
  <2>1. at' = at /\ socket' = "closed"
    BY <1>7 DEF U!Close, U!CloseSocket
  <2> QED
    BY <1>1, <1>4, <1>7, <2>1 DEF UpAside
<1>8. CASE U!Return(t) \/ U!Fail(t)
  <2>1. at' = [at EXCEPT ![t] = "done"] /\ socket' = socket
    BY <1>8 DEF U!Return, U!Fail, U!opVars
  <2> QED
    BY <1>1, <1>4, <1>8, <2>1 DEF UpAside
<1> QED
  BY <1>2, <1>3, <1>5, <1>6, <1>7, <1>8

(* The same for the connection to the remote host.                         *)
LEMMA DownCall ==
    ASSUME ProxyInv, NEW t \in Users,
           \/ UNCHANGED vars2
           \/ D!Connect(t)
           \/ \E u \in Users : D!Share(u, t)
           \/ D!ReadSome(t) \/ D!Close(t) \/ D!Return(t) \/ D!Fail(t)
    PROVE  /\ DownAside(t) /\ wrote2' = wrote2 /\ D!Continues(t)
           /\ at2'[t] \in {at2[t], "run", "done", "read_some", "connect"}
           /\ at2'[t] = "read_some" => at2[t] = "read_some" \/ D!ReadSome(t)
           /\ at2'[t] = "connect" => at2[t] = "connect" \/ D!Connect(t)
           /\ at2'[t] = at2[t] \/ at2'[t] # "idle"
<1>1. D!IInv /\ at2 \in [Users -> Kinds \cup Resting]
  BY Typing DEF ProxyInv, Connections, Threads
<1>2. CASE UNCHANGED vars2
  BY <1>2, DownStill DEF DownAside
<1>3. ASSUME \/ D!Connect(t)
             \/ \E u \in Users : D!Share(u, t)
             \/ D!ReadSome(t) \/ D!Close(t) \/ D!Return(t) \/ D!Fail(t)
      PROVE  UNCHANGED <<returned2, out2, wrote2, acked2>> /\ \A u : D!Continues(u)
  BY <1>1, <1>3, Fits, D!CallWrites DEF D!outVars, D!inVars
<1>4. CASE D!Connect(t)
  <2>1. at2' = [at2 EXCEPT ![t] = "connect"] /\ object2 = "none"
    BY <1>4 DEF D!Connect
  <2> QED
    BY <1>1, <1>3, <1>4, <2>1 DEF DownAside
<1>5. CASE \E u \in Users : D!Share(u, t)
  <2>1. at2' = [at2 EXCEPT ![t] = "run"] /\ socket2' = socket2
    BY <1>5 DEF D!Share, D!opVars
  <2> QED
    BY <1>1, <1>3, <1>5, <2>1 DEF DownAside
<1>6. CASE D!ReadSome(t)
  <2>1. at2' = [at2 EXCEPT ![t] = "read_some"] /\ socket2' = socket2
    BY <1>6 DEF D!ReadSome, D!StartOp
  <2> QED
    BY <1>1, <1>3, <1>6, <2>1 DEF DownAside
<1>7. CASE D!Close(t)
  <2>1. at2' = at2 /\ socket2' = "closed"
    BY <1>7 DEF D!Close, D!CloseSocket
  <2> QED
    BY <1>1, <1>3, <1>7, <2>1 DEF DownAside
<1>8. CASE D!Return(t) \/ D!Fail(t)
  <2>1. at2' = [at2 EXCEPT ![t] = "done"] /\ socket2' = socket2
    BY <1>8 DEF D!Return, D!Fail, D!opVars
  <2> QED
    BY <1>1, <1>3, <1>8, <2>1 DEF DownAside
<1> QED
  BY <1>2, <1>4, <1>5, <1>6, <1>7, <1>8

(* A step of light thread t, seen by the others.                           *)
LEMMA Others ==
    ASSUME ProxyInv, Connections', NEW t \in Users, UpAside(t), DownAside(t),
           \A u \in Users \ {t} : pc'[u] = pc[u] /\ had'[u] = had[u]
    PROVE  /\ \A f \in Forwards \ {t} : Started(f)'
           /\ t # up => UpRelays'
           /\ t # down => DownRelays'
<1> USE DEF ProxyInv
<1>1. ASSUME NEW f \in Forwards \ {t} PROVE Started(f)'
  <2>1. /\ f \in Users \ {t} /\ Started(f) /\ acked2' = acked2
        /\ pc'[f] = pc[f] /\ had'[f] = had[f] /\ at'[f] = at[f] /\ at2'[f] = at2[f]
        /\ wrote'[f] = wrote[f] /\ wrote2'[f] = wrote2[f]
    BY ThreeThreads DEF Threads, UpAside, DownAside
  <2> QED
    BY <2>1, StartedKept
<1>2. returned' \in [Users -> Seq(Nat)] /\ returned2' \in [Users -> Seq(Nat)]
  BY DEF Connections, U!IInv, U!Types, D!IInv, D!Types
<1>3. /\ socket2' = "open" => socket2 = "open" \/ pc[up] = "accept"
      /\ socket' = "open" => socket = "open" \/ pc[down] = "accept"
  BY NobodyYet, ThreeThreads DEF UpAside, DownAside
<1>4. ASSUME t # up PROVE UpRelays'
  <2>1. /\ pc'[up] = pc[up] /\ had'[up] = had[up] /\ wrote2'[up] = wrote2[up] /\ out2' = out2
        /\ D!Continues(up) /\ returned' = returned /\ at'[up] = at[up]
    BY <1>4, ThreeThreads DEF UpAside, DownAside
  <2> QED
    BY <1>2, <1>3, <2>1, UpFrame DEF Threads
<1>5. ASSUME t # down PROVE DownRelays'
  <2>1. /\ pc'[down] = pc[down] /\ had'[down] = had[down] /\ wrote'[down] = wrote[down]
        /\ out' = out /\ U!Continues(down) /\ returned2' = returned2 /\ at2'[down] = at2[down]
    BY <1>5, ThreeThreads DEF UpAside, DownAside
  <2> QED
    BY <1>2, <1>3, <2>1, DownFrame DEF Threads
<1> QED
  BY <1>1, <1>4, <1>5
(* Roles after a step of t.                                                *)
LEMMA RolesMoved ==
    ASSUME Roles, NEW t \in Users, UpAside(t), DownAside(t),
           pc' \in [Users -> Labels], had' \in [Users -> Seq(Nat)],
           t = main => at'[t] \in Resting /\ at2'[t] \in Resting \cup {"connect", "write"},
           t = up => at'[t] \in Resting \cup {"read_some"} /\ at2'[t] \in Resting \cup {"write"},
           t = down => at'[t] \in Resting \cup {"write"} /\ at2'[t] \in Resting \cup {"read_some"}
    PROVE  Roles'
<1>1. /\ t # main => at'[main] = at[main] /\ at2'[main] = at2[main]
      /\ t # up => at'[up] = at[up] /\ at2'[up] = at2[up]
      /\ t # down => at'[down] = at[down] /\ at2'[down] = at2[down]
  BY ThreeThreads DEF UpAside, DownAside
<1>2. CASE t = main
  BY <1>1, <1>2, ThreeThreads DEF Roles
<1>3. CASE t = up
  BY <1>1, <1>3, ThreeThreads DEF Roles
<1>4. CASE t = down
  BY <1>1, <1>4, ThreeThreads DEF Roles
<1> QED
  BY <1>2, <1>3, <1>4, ThreeThreads

(* A step of main.                                                         *)
LEMMA MainMoves ==
    ASSUME ProxyInv, Connections', UpAside(main), DownAside(main),
           NEW label \in Labels, Goto(main, label),
           at'[main] \in Resting, at2'[main] \in Resting \cup {"connect", "write"}, HeaderSent'
    PROVE  Threads' /\ UpRelays' /\ DownRelays'
<1>1. /\ pc' \in [Users -> Labels] /\ had' = had /\ had \in [Users -> Seq(Nat)]
      /\ \A u \in Users \ {main} : pc'[u] = pc[u]
  BY ThreeThreads DEF ProxyInv, Threads, Roles, Goto
<1>2. Roles'
  BY <1>1, RolesMoved, ThreeThreads DEF ProxyInv, Threads
<1>3. (\A f \in Forwards \ {main} : Started(f)') /\ UpRelays' /\ DownRelays'
  BY <1>1, Others, ThreeThreads
<1> QED
  BY <1>2, <1>3, ThreeThreads DEF Threads

(* The steps of main.                                                      *)
LEMMA MainSteps ==
    ASSUME ProxyInv, Connections',
           AcceptUpstream \/ ConnectRemote \/ WriteHeader \/ HeaderFails \/ MainEnds
    PROVE  Threads' /\ UpRelays' /\ DownRelays'
<1>1. /\ Connections /\ Roles /\ HeaderSent
      /\ at[main] \in Resting /\ at2[main] \in Resting \cup {"connect", "write"}
      /\ at \in [Users -> Kinds \cup Resting] /\ at2 \in [Users -> Kinds \cup Resting]
      /\ pc \in [Users -> Labels] /\ main \in Users
  BY Typing, ThreeThreads DEF ProxyInv, Threads, Roles
<1>2. CASE AcceptUpstream
  <2>1. U!Accepted /\ holders' = {main} /\ UNCHANGED vars2 /\ Goto(main, "connect") /\ pc[main] = "accept"
    BY <1>2, UpCalls DEF AcceptUpstream
  <2>2. UpAside(main) /\ DownAside(main) /\ at2' = at2 /\ wrote2' = wrote2 /\ out2' = out2
    BY <1>1, <2>1, UpCall, DownCall, DownStill
  <2>3. at'[main] \in Resting
    BY <1>1, <2>1 DEF U!Accepted, Resting
  <2>4. HeaderSent'
    BY <1>1, <2>1, <2>2, HeaderKept
  <2> QED
    BY <1>1, <2>1, <2>2, <2>3, <2>4, MainMoves DEF Labels
<1>3. CASE ConnectRemote
  <2>1. D!Connect(main) /\ UNCHANGED vars /\ Goto(main, "write") /\ pc[main] = "connect"
    BY <1>3, DownCalls DEF ConnectRemote
  <2>2. UpAside(main) /\ DownAside(main) /\ at' = at /\ wrote2' = wrote2
    BY <1>1, <2>1, UpCall, DownCall, UpStill
  <2>3. at2'[main] = "connect"
    BY <1>1, <2>1 DEF D!Connect
  <2>4. HeaderSent'
    BY <1>1, <2>1, <2>2, HeaderKept DEF DownAside
  <2> QED
    BY <1>1, <2>1, <2>2, <2>3, <2>4, MainMoves DEF Labels
<1>4. CASE WriteHeader
  <2>1. D!Write(main, Header) /\ UNCHANGED vars /\ Goto(main, "spawn") /\ pc[main] = "write"
    BY <1>4, DownCalls DEF WriteHeader, At
  <2>2. Header \in Nat \ {0}
    BY ProxyAssumption
  <2>3. /\ UNCHANGED <<out2, acked2, returned2, socket2>>
        /\ wrote2' = [wrote2 EXCEPT ![main] = Append(@, Header)]
        /\ at2' = [at2 EXCEPT ![main] = "write"]
        /\ \A u : u # main => D!Continues(u)
    <3>1. D!Begins(main, Header)
      BY <1>1, <2>1, <2>2, Fits, D!WriteBegins DEF Connections
    <3> QED
      BY <3>1 DEF D!Begins, D!inVars
  <2>4. wrote2 \in [Users -> Seq(Nat)]
    BY <1>1, Typing
  <2>5. DownAside(main) /\ at2'[main] = "write"
    BY <1>1, <2>3, <2>4 DEF DownAside
  <2>6. UpAside(main) /\ at' = at
    BY <1>1, <2>1, UpCall, UpStill
  <2>7. HeaderSent'
    <3>1. wrote2[main] = <<>>
      BY <1>1, <2>1 DEF HeaderSent
    <3>2. wrote2'[main] = <<Header>>
      BY <1>1, <2>3, <2>4, <3>1
    <3>3. pc'[main] = "spawn"
      BY <1>1, <2>1 DEF Goto
    <3> QED
      BY <1>1, <2>3, <3>2, <3>3 DEF HeaderSent
  <2> QED
    BY <1>1, <2>1, <2>5, <2>6, <2>7, MainMoves DEF Labels
<1>5. CASE MainEnds \/ HeaderFails
  <2>1. /\ U!Return(main) \/ U!Fail(main)
        /\ D!Return(main) \/ D!Fail(main)
        /\ Goto(main, "done")
    BY <1>5, UpCalls, DownCalls DEF MainEnds, Ends, HeaderFails
  <2>2. UpAside(main) /\ DownAside(main) /\ wrote2' = wrote2
    BY <1>1, <2>1, UpCall, DownCall
  <2>3. at'[main] = "done" /\ at2'[main] = "done"
    BY <1>1, <2>1 DEF U!Return, D!Return, U!Fail, D!Fail
  <2>4. HeaderSent'
    <3>1. pc'[main] = "done"
      BY <1>1, <2>1 DEF Goto
    <3> QED
      BY <1>1, <2>2, <3>1, HeaderKept DEF DownAside
  <2> QED
    BY <1>1, <2>1, <2>2, <2>3, <2>4, MainMoves DEF Labels, Resting
<1> QED
  BY <1>2, <1>3, <1>4, <1>5

(* A step of a forward thread, but for its own direction.                  *)
LEMMA ForwardMoves ==
    ASSUME ProxyInv, Connections', NEW f \in Forwards, UpAside(f), DownAside(f),
           NEW label \in Labels, pc' = [pc EXCEPT ![f] = label],
           had' \in [Users -> Seq(Nat)], \A u \in Users \ {f} : had'[u] = had[u],
           f = up => at'[f] \in Resting \cup {"read_some"} /\ at2'[f] \in Resting \cup {"write"},
           f = down => at'[f] \in Resting \cup {"write"} /\ at2'[f] \in Resting \cup {"read_some"},
           Started(f)'
    PROVE  Threads' /\ (f # up => UpRelays') /\ (f # down => DownRelays')
<1>1. /\ pc' \in [Users -> Labels] /\ f \in Users /\ f # main
      /\ \A u \in Users \ {f} : pc'[u] = pc[u]
  BY ThreeThreads DEF ProxyInv, Threads, Roles
<1>2. Roles'
  BY <1>1, RolesMoved DEF ProxyInv, Threads
<1>3. (\A g \in Forwards \ {f} : Started(g)') /\ (f # up => UpRelays') /\ (f # down => DownRelays')
  BY <1>1, Others
<1>4. HeaderSent'
  <2>1. out2' = out2 /\ wrote2'[main] = wrote2[main] /\ pc'[main] = pc[main]
    BY <1>1, ThreeThreads DEF DownAside
  <2> QED
    BY <2>1, HeaderKept DEF ProxyInv, Threads
<1> QED
  BY <1>2, <1>3, <1>4 DEF Threads
(* An operation that is not there does not come back.                      *)
LEMMA NoWrite ==
    ASSUME ProxyInv, NEW t, at[t] # "write" \/ U!Writes(t) = {}, at2[t] # "write" \/ D!Writes(t) = {},
           U!Continues(t), D!Continues(t)
    PROVE  /\ U!Writes(t) = {} /\ U!Writes(t)' = {}
           /\ D!Writes(t) = {} /\ D!Writes(t)' = {}
<1>1. U!Writes(t) = {} /\ D!Writes(t) = {}
  BY WritersAre DEF ProxyInv, Threads
<1> QED
  BY <1>1 DEF U!Continues, D!Continues

(* A forward thread checks, closes or returns: its own direction.          *)
LEMMA OwnTurn ==
    ASSUME ProxyInv, NEW f \in Forwards, UpAside(f), DownAside(f), wrote' = wrote, wrote2' = wrote2,
           U!Continues(f), D!Continues(f), had' = had,
           at[f] \notin Kinds, at2[f] \notin Kinds, at'[f] \notin Kinds, at2'[f] \notin Kinds,
           pc[f] # "accept",
           pc'[f] \in {"close", "end", "done"} \/ (pc[f] = "written" /\ pc'[f] = "read")
    PROVE  (f = up => UpRelays') /\ (f = down => DownRelays')
<1>1. U!Writes(f) = {} /\ U!Writes(f)' = {} /\ D!Writes(f) = {} /\ D!Writes(f)' = {}
  BY NoWrite DEF Kinds
<1>2. /\ UNCHANGED <<returned, out, returned2, out2>>
      /\ socket' = "open" => socket = "open"
      /\ socket2' = "open" => socket2 = "open"
  BY NobodyYet DEF UpAside, DownAside
<1>3. ASSUME f = up PROVE UpRelays'
  <2>1. PICK label1, sock1, a1 : label1 = pc'[up] /\ sock1 = socket2' /\ a1 = at'[up]
    OBVIOUS
  <2>2. Relays(pc[up], had[up], wrote2[up], {}, socket2, Len(out2) - Header, Len(returned[up]), at[up])
    BY <1>1, <1>3 DEF ProxyInv, UpRelays
  <2>3. Relays(label1, had[up], wrote2[up], {}, sock1, Len(out2) - Header, Len(returned[up]), a1)
    <3>1. \/ label1 \in {"close", "end", "done"}
          \/ pc[up] = "written" /\ label1 = "read" /\ {} = {} /\ (sock1 = "open" => socket2 = "open")
      BY <1>2, <1>3, <2>1
    <3>2. a1 \notin Kinds
      BY <1>3, <2>1
    <3> QED
      BY <2>2, <3>1, <3>2, RelayChecks
  <2>4. OnWire(up, out2, Header, had[up], wrote2[up])
    BY DEF ProxyInv, UpRelays
  <2> QED
    BY <1>1, <1>2, <1>3, <2>1, <2>3, <2>4 DEF UpRelays
<1>4. ASSUME f = down PROVE DownRelays'
  <2>1. PICK label1, sock1, a1 : label1 = pc'[down] /\ sock1 = socket' /\ a1 = at2'[down]
    OBVIOUS
  <2>2. Relays(pc[down], had[down], wrote[down], {}, socket, Len(out), Len(returned2[down]), at2[down])
    BY <1>1, <1>4 DEF ProxyInv, DownRelays
  <2>3. Relays(label1, had[down], wrote[down], {}, sock1, Len(out), Len(returned2[down]), a1)
    <3>1. \/ label1 \in {"close", "end", "done"}
          \/ pc[down] = "written" /\ label1 = "read" /\ {} = {} /\ (sock1 = "open" => socket = "open")
      BY <1>2, <1>4, <2>1
    <3>2. a1 \notin Kinds
      BY <1>4, <2>1
    <3> QED
      BY <2>2, <3>1, <3>2, RelayChecks
  <2>4. OnWire(down, out, 0, had[down], wrote[down])
    BY DEF ProxyInv, DownRelays
  <2> QED
    BY <1>1, <1>2, <1>4, <2>1, <2>3, <2>4 DEF DownRelays
<1> QED
  BY <1>3, <1>4

(* A forward thread that exists moves: it goes on to exist.                *)
LEMMA StillStarted ==
    ASSUME ProxyInv, NEW f \in Forwards, pc[f] # "accept", DownAside(f),
           NEW label \in Labels, label # "accept", pc' = [pc EXCEPT ![f] = label],
           at'[f] = at[f] \/ at'[f] # "idle", at2'[f] = at2[f] \/ at2'[f] # "idle"
    PROVE  Started(f)'
<1>1. at[f] # "idle" /\ at2[f] # "idle" /\ acked2[main] = 1 /\ f \in Users
  BY ThreeThreads DEF ProxyInv, Threads, Started
<1>2. pc'[f] = label
  BY <1>1 DEF ProxyInv, Threads, Roles
<1> QED
  BY <1>1, <1>2 DEF Started, DownAside

(* The steps of a forward thread behind its calls.                         *)
LEMMA ForwardTurns ==
    ASSUME ProxyInv, Connections', NEW f \in Forwards,
           ForwardChecks(f) \/ ForwardCloses(f) \/ ForwardEnds(f)
    PROVE  Threads' /\ UpRelays' /\ DownRelays'
<1>1. /\ f \in Users /\ f # main /\ (f = up \/ f = down)
      /\ at \in [Users -> Kinds \cup Resting] /\ at2 \in [Users -> Kinds \cup Resting]
      /\ pc \in [Users -> Labels] /\ had \in [Users -> Seq(Nat)]
  BY Typing, ThreeThreads DEF ProxyInv, Threads
<1>2. /\ at[f] \notin Kinds /\ at2[f] \notin Kinds /\ pc[f] # "accept" /\ had' = had
      /\ UNCHANGED vars \/ U!Close(f) \/ U!Return(f)
      /\ UNCHANGED vars2 \/ D!Close(f) \/ D!Return(f)
      /\ \E label \in {"read", "close", "end", "done"} :
            /\ pc' = [pc EXCEPT ![f] = label]
            /\ label = "read" => pc[f] = "written"
  <2>1. CASE ForwardChecks(f)
    BY <2>1 DEF ForwardChecks, At, Goto
  <2>2. CASE ForwardCloses(f)
    BY <2>2, UpCalls, DownCalls DEF ForwardCloses, At, Goto
  <2>3. CASE ForwardEnds(f)
    BY <2>3, UpCalls, DownCalls DEF ForwardEnds, Ends, At, Goto
  <2> QED
    BY <2>1, <2>2, <2>3
<1>3. PICK label \in {"read", "close", "end", "done"} :
         pc' = [pc EXCEPT ![f] = label] /\ (label = "read" => pc[f] = "written")
  BY <1>2
<1>4. /\ UpAside(f) /\ wrote' = wrote /\ U!Continues(f)
      /\ at'[f] = at[f] \/ at'[f] \in {"run", "done"}
  <2>1. UpAside(f) /\ wrote' = wrote /\ U!Continues(f)
    BY <1>1, <1>2, UpCall
  <2>2. at' = at \/ at' = [at EXCEPT ![f] = "done"]
    BY <1>2, UpStill DEF U!Close, U!Return
  <2> QED
    BY <1>1, <2>1, <2>2
<1>5. /\ DownAside(f) /\ wrote2' = wrote2 /\ D!Continues(f)
      /\ at2'[f] = at2[f] \/ at2'[f] \in {"run", "done"}
  <2>1. DownAside(f) /\ wrote2' = wrote2 /\ D!Continues(f)
    BY <1>1, <1>2, DownCall
  <2>2. at2' = at2 \/ at2' = [at2 EXCEPT ![f] = "done"]
    BY <1>2, DownStill DEF D!Close, D!Return
  <2> QED
    BY <1>1, <2>1, <2>2
<1>6. at[f] \in Resting /\ at2[f] \in Resting /\ at'[f] \in Resting /\ at2'[f] \in Resting
  BY <1>1, <1>2, <1>4, <1>5 DEF Resting
<1>7. pc'[f] = label /\ label \in Labels
  BY <1>1, <1>3 DEF Labels
<1>8. Started(f)'
  BY <1>2, <1>3, <1>4, <1>5, <1>7, StillStarted
<1>9. Threads' /\ (f # up => UpRelays') /\ (f # down => DownRelays')
  BY <1>1, <1>2, <1>3, <1>4, <1>5, <1>6, <1>7, <1>8, ForwardMoves
<1>10. (f = up => UpRelays') /\ (f = down => DownRelays')
  <2>1. at'[f] \notin Kinds /\ at2'[f] \notin Kinds
    BY <1>6 DEF Resting, Kinds
  <2> QED
    BY <1>2, <1>3, <1>4, <1>5, <1>7, <2>1, OwnTurn
<1> QED
  BY <1>1, <1>9, <1>10
(* A forward thread calls read_some.                                       *)
LEMMA ForwardReadsStep ==
    ASSUME ProxyInv, Connections', NEW f \in Forwards, ForwardReads(f)
    PROVE  Threads' /\ UpRelays' /\ DownRelays'
<1>1. /\ f \in Users /\ f # main /\ (f = up \/ f = down) /\ up # down
      /\ at \in [Users -> Kinds \cup Resting] /\ at2 \in [Users -> Kinds \cup Resting]
      /\ pc \in [Users -> Labels] /\ had \in [Users -> Seq(Nat)]
      /\ wrote \in [Users -> Seq(Nat)] /\ wrote2 \in [Users -> Seq(Nat)]
      /\ Len(returned[up]) \in Nat /\ Len(returned2[down]) \in Nat
  BY Typing, ThreeThreads DEF ProxyInv, Threads
<1>2. /\ pc[f] = "read" /\ at[f] \in Resting /\ at2[f] \in Resting
      /\ pc' = [pc EXCEPT ![f] = "check"]
      /\ had' = [had EXCEPT ![f] = Append(@, Total(f))]
      /\ f = up => U!ReadSome(up) /\ UNCHANGED vars2
      /\ f # up => D!ReadSome(f) /\ UNCHANGED vars
  BY <1>1, UpCalls, DownCalls DEF ForwardReads, At
<1>3. Total(f) \in Nat
  BY <1>1 DEF Total
<1>4. /\ had' \in [Users -> Seq(Nat)] /\ had'[f] = Append(had[f], Total(f))
      /\ \A u \in Users \ {f} : had'[u] = had[u]
  <2>1. had[f] \in Seq(Nat) /\ Append(had[f], Total(f)) \in Seq(Nat)
    BY <1>1, <1>3, AppendProperties
  <2> QED
    BY <1>1, <1>2, <2>1
<1>5. /\ UpAside(f) /\ DownAside(f) /\ wrote' = wrote /\ wrote2' = wrote2
      /\ U!Continues(f) /\ D!Continues(f)
  BY <1>1, <1>2, UpCall, DownCall
<1>6. /\ f = up => at'[up] = "read_some" /\ at2' = at2 /\ socket2' = socket2
      /\ f = down => at2'[down] = "read_some" /\ at' = at /\ socket' = socket
  BY <1>1, <1>2, UpStill, DownStill DEF U!ReadSome, D!ReadSome
<1>7. Started(f)'
  <2>1. at'[f] = at[f] \/ at'[f] # "idle"
    BY <1>1, <1>6
  <2>2. at2'[f] = at2[f] \/ at2'[f] # "idle"
    BY <1>1, <1>6
  <2> QED
    BY <1>2, <1>5, <2>1, <2>2, StillStarted DEF Labels
<1>8. Threads' /\ (f # up => UpRelays') /\ (f # down => DownRelays')
  BY <1>1, <1>2, <1>4, <1>5, <1>6, <1>7, ForwardMoves DEF Labels
<1>9. U!Writes(f) = {} /\ U!Writes(f)' = {} /\ D!Writes(f) = {} /\ D!Writes(f)' = {}
  BY <1>2, <1>5, NoWrite DEF Resting
<1>10. UNCHANGED <<returned, out, returned2, out2>> /\ pc'[f] = "check"
  BY <1>1, <1>2, <1>5 DEF UpAside, DownAside
<1>11. ASSUME f = up PROVE UpRelays'
  <2>1. PICK h, w, n, total, a1 : /\ h = had[up] /\ w = wrote2[up] /\ n = Len(out2) - Header
                                  /\ total = Len(returned[up]) /\ a1 = at'[up]
    OBVIOUS
  <2>2. RelayTypes(h, w, n, total) /\ Relays("read", h, w, {}, socket2, n, total, at[up])
    BY <1>2, <1>9, <1>11, <2>1, RelayTyping DEF ProxyInv, Threads, UpRelays
  <2>3. Relays("check", Append(h, total), w, {}, socket2, n, total, a1)
    BY <2>2, RelayReads
  <2>4. OnWire(up, out2, Header, Append(h, total), w)
    <3>1. OnWire(up, out2, Header, h, w) /\ h \in Seq(Nat) /\ w \in Seq(Nat) /\ Len(w) <= Len(h)
      BY <1>1, <1>11, <2>1, <2>2 DEF ProxyInv, UpRelays, Relays
    <3> QED
      BY <1>1, <2>1, <3>1, WireKept
  <2>5. had'[up] = Append(h, total)
    BY <1>4, <1>11, <2>1 DEF Total
  <2> QED
    BY <1>5, <1>6, <1>9, <1>10, <1>11, <2>1, <2>3, <2>4, <2>5 DEF UpRelays
<1>12. ASSUME f = down PROVE DownRelays'
  <2>1. PICK h, w, n, total, a1 : /\ h = had[down] /\ w = wrote[down] /\ n = Len(out)
                                  /\ total = Len(returned2[down]) /\ a1 = at2'[down]
    OBVIOUS
  <2>2. RelayTypes(h, w, n, total) /\ Relays("read", h, w, {}, socket, n, total, at2[down])
    BY <1>2, <1>9, <1>12, <2>1, RelayTyping DEF ProxyInv, Threads, DownRelays
  <2>3. Relays("check", Append(h, total), w, {}, socket, n, total, a1)
    BY <2>2, RelayReads
  <2>4. OnWire(down, out, 0, Append(h, total), w)
    <3>1. OnWire(down, out, 0, h, w) /\ h \in Seq(Nat) /\ w \in Seq(Nat) /\ Len(w) <= Len(h)
      BY <1>1, <1>12, <2>1, <2>2 DEF ProxyInv, DownRelays, Relays
    <3> QED
      BY <1>1, <2>1, <3>1, WireKept
  <2>5. had'[down] = Append(h, total)
    BY <1>1, <1>4, <1>12, <2>1 DEF Total
  <2> QED
    BY <1>5, <1>6, <1>9, <1>10, <1>12, <2>1, <2>3, <2>4, <2>5 DEF DownRelays
<1> QED
  BY <1>1, <1>8, <1>11, <1>12

(* A forward thread calls write with what it has read.                     *)
LEMMA ForwardWritesStep ==
    ASSUME ProxyInv, Connections', NEW f \in Forwards, ForwardWrites(f)
    PROVE  Threads' /\ UpRelays' /\ DownRelays'
<1>1. /\ f \in Users /\ f # main /\ (f = up \/ f = down) /\ up # down
      /\ at \in [Users -> Kinds \cup Resting] /\ at2 \in [Users -> Kinds \cup Resting]
      /\ pc \in [Users -> Labels] /\ had \in [Users -> Seq(Nat)]
      /\ wrote \in [Users -> Seq(Nat)] /\ wrote2 \in [Users -> Seq(Nat)]
      /\ U!IInv /\ D!IInv
  BY Typing, ThreeThreads DEF ProxyInv, Threads, Connections
<1>2. /\ pc[f] = "check" /\ at[f] \in Resting /\ at2[f] \in Resting
      /\ at[f] \notin Kinds /\ at2[f] \notin Kinds
      /\ pc' = [pc EXCEPT ![f] = "written"] /\ had' = had /\ Data(f) > 0
      /\ f = up => D!Write(up, Chunk(up)) /\ UNCHANGED vars
      /\ f # up => U!Write(f, Chunk(f)) /\ UNCHANGED vars2
  BY <1>1, UpCalls, DownCalls DEF ForwardWrites, At, Goto
<1>3. /\ Chunk(f) \in Nat \ {0} /\ Chunk(f) = Total(f) - had[f][Len(had[f])]
  BY <1>2, ChunkFacts DEF ProxyInv, Threads, Chunk
<1>4. ASSUME f = up
      PROVE  /\ UpAside(f) /\ DownAside(f) /\ at' = at /\ at2'[f] = "write" /\ socket2' = socket2
             /\ UNCHANGED <<returned, out2>>
             /\ wrote2'[f] = Append(wrote2[f], Chunk(f))
             /\ \E o : /\ D!Writes(f)' = {o} /\ o.size = Chunk(f) /\ o.got = 0
                       /\ o.res # "fail" => socket2 = "open"
  <2>1. PICK c \in Nat \ {0} : c = Chunk(f) /\ D!Write(f, c)
    BY <1>1, <1>2, <1>3, <1>4
  <2>2. /\ UNCHANGED <<out2, acked2, returned2, socket2>>
        /\ wrote2' = [wrote2 EXCEPT ![f] = Append(@, c)]
        /\ at2' = [at2 EXCEPT ![f] = "write"]
        /\ \A u : u # f => D!Continues(u)
        /\ \E o : /\ D!Writes(f)' = {o} /\ o.size = c /\ o.got = 0
                  /\ o.res # "fail" => socket2 = "open"
    <3>1. D!Begins(f, c)
      BY <1>1, <2>1, Fits, D!WriteBegins
    <3> QED
      BY <3>1 DEF D!Begins, D!inVars
  <2>3. DownAside(f) /\ at2'[f] = "write" /\ wrote2'[f] = Append(wrote2[f], Chunk(f))
    BY <1>1, <2>1, <2>2 DEF DownAside
  <2>4. UpAside(f) /\ at' = at /\ returned' = returned
    BY <1>1, <1>2, <1>4, UpCall, UpStill
  <2> QED
    BY <2>1, <2>2, <2>3, <2>4
<1>5. ASSUME f = down
      PROVE  /\ UpAside(f) /\ DownAside(f) /\ at2' = at2 /\ at'[f] = "write" /\ socket' = socket
             /\ UNCHANGED <<returned2, out>>
             /\ wrote'[f] = Append(wrote[f], Chunk(f))
             /\ \E o : /\ U!Writes(f)' = {o} /\ o.size = Chunk(f) /\ o.got = 0
                       /\ o.res # "fail" => socket = "open"
  <2>1. PICK c \in Nat \ {0} : c = Chunk(f) /\ U!Write(f, c)
    BY <1>1, <1>2, <1>3, <1>5
  <2>2. /\ UNCHANGED <<out, acked, returned, socket>>
        /\ wrote' = [wrote EXCEPT ![f] = Append(@, c)]
        /\ at' = [at EXCEPT ![f] = "write"]
        /\ \A u : u # f => U!Continues(u)
        /\ \E o : /\ U!Writes(f)' = {o} /\ o.size = c /\ o.got = 0
                  /\ o.res # "fail" => socket = "open"
    <3>1. U!Begins(f, c)
      BY <1>1, <2>1, Fits, U!WriteBegins
    <3> QED
      BY <3>1 DEF U!Begins, U!inVars
  <2>3. UpAside(f) /\ at'[f] = "write" /\ wrote'[f] = Append(wrote[f], Chunk(f))
    BY <1>1, <2>1, <2>2 DEF UpAside
  <2>4. DownAside(f) /\ at2' = at2 /\ returned2' = returned2
    BY <1>1, <1>2, <1>5, DownCall, DownStill
  <2> QED
    BY <2>1, <2>2, <2>3, <2>4
<1>6. Started(f)'
  <2>1. DownAside(f) /\ (at'[f] = at[f] \/ at'[f] # "idle") /\ (at2'[f] = at2[f] \/ at2'[f] # "idle")
    BY <1>1, <1>4, <1>5
  <2> QED
    BY <1>2, <2>1, StillStarted DEF Labels
<1>7. Threads' /\ (f # up => UpRelays') /\ (f # down => DownRelays')
  <2>1. UpAside(f) /\ DownAside(f)
    BY <1>1, <1>4, <1>5
  <2> QED
    BY <1>1, <1>2, <1>4, <1>5, <1>6, <2>1, ForwardMoves DEF Labels
<1>8. pc'[f] = "written"
  BY <1>1, <1>2
<1>9. ASSUME f = up PROVE UpRelays'
  <2>1. PICK h, w, n, total, a : /\ h = had[up] /\ w = wrote2[up] /\ n = Len(out2) - Header
                                 /\ total = Len(returned[up]) /\ a = at[up]
    OBVIOUS
  <2>2. /\ RelayTypes(h, w, n, total) /\ Relays("check", h, w, D!Writes(up), socket2, n, total, a)
        /\ a \notin Kinds
    BY <1>2, <1>9, <2>1, RelayTyping DEF ProxyInv, Threads, UpRelays
  <2>3. PICK c, o : /\ c = Chunk(f) /\ D!Writes(f)' = {o} /\ o.size = c /\ o.got = 0
                    /\ o.res # "fail" => socket2 = "open"
    BY <1>4, <1>9
  <2>4. c = total - h[Len(h)] /\ c \in Nat
    BY <1>3, <1>9, <2>1, <2>3 DEF Total
  <2>5. Relays("written", h, Append(w, c), {o}, socket2, n, total, a)
    BY <2>2, <2>3, <2>4, RelayWrites
  <2>6. OnWire(up, out2, Header, h, Append(w, c))
    <3>1. OnWire(up, out2, Header, h, w) /\ h \in Seq(Nat) /\ w \in Seq(Nat) /\ Len(w) <= Len(h)
      BY <1>1, <1>9, <2>1, <2>2 DEF ProxyInv, UpRelays, Relays
    <3> QED
      BY <2>4, <3>1, WireKept
  <2>7. wrote2'[up] = Append(w, c) /\ at'[up] = a /\ UNCHANGED <<returned, out2, socket2, had>>
    BY <1>2, <1>4, <1>9, <2>1, <2>3
  <2> QED
    BY <1>8, <1>9, <2>1, <2>3, <2>5, <2>6, <2>7 DEF UpRelays
<1>10. ASSUME f = down PROVE DownRelays'
  <2>1. PICK h, w, n, total, a : /\ h = had[down] /\ w = wrote[down] /\ n = Len(out)
                                 /\ total = Len(returned2[down]) /\ a = at2[down]
    OBVIOUS
  <2>2. /\ RelayTypes(h, w, n, total) /\ Relays("check", h, w, U!Writes(down), socket, n, total, a)
        /\ a \notin Kinds
    BY <1>2, <1>10, <2>1, RelayTyping DEF ProxyInv, Threads, DownRelays
  <2>3. PICK c, o : /\ c = Chunk(f) /\ U!Writes(f)' = {o} /\ o.size = c /\ o.got = 0
                    /\ o.res # "fail" => socket = "open"
    BY <1>5, <1>10
  <2>4. c = total - h[Len(h)] /\ c \in Nat
    BY <1>1, <1>3, <1>10, <2>1, <2>3 DEF Total
  <2>5. Relays("written", h, Append(w, c), {o}, socket, n, total, a)
    BY <2>2, <2>3, <2>4, RelayWrites
  <2>6. OnWire(down, out, 0, h, Append(w, c))
    <3>1. OnWire(down, out, 0, h, w) /\ h \in Seq(Nat) /\ w \in Seq(Nat) /\ Len(w) <= Len(h)
      BY <1>1, <1>10, <2>1, <2>2 DEF ProxyInv, DownRelays, Relays
    <3> QED
      BY <2>4, <3>1, WireKept
  <2>7. wrote'[down] = Append(w, c) /\ at2'[down] = a /\ UNCHANGED <<returned2, out, socket, had>>
    BY <1>2, <1>5, <1>10, <2>1, <2>3
  <2> QED
    BY <1>8, <1>10, <2>1, <2>3, <2>5, <2>6, <2>7 DEF DownRelays
<1> QED
  BY <1>1, <1>7, <1>9, <1>10

(* A forward thread begins with nothing read and nothing sent.             *)
LEMMA RelayBegins ==
    ASSUME NEW h, NEW w, NEW ws, NEW sock, NEW n, NEW total, NEW a, NEW sock1, NEW a1,
           RelayTypes(h, w, n, total), Relays("accept", h, w, ws, sock, n, total, a),
           n >= 0, a1 \notin Kinds
    PROVE  Relays("read", h, w, {}, sock1, n, total, a1)
<1>1. Len(w) <= Len(h) /\ Len(h) = Len(w) /\ n <= 0 /\ total = 0
  BY DEF Relays
<1>2. n = total /\ n <= total
  BY <1>1 DEF RelayTypes
<1> QED
  BY <1>1, <1>2 DEF Relays

(* A forward thread is started, once the header is written.                *)
LEMMA SpawnStep ==
    ASSUME ProxyInv, Connections', NEW f \in Forwards, SpawnForward(f)
    PROVE  Threads' /\ UpRelays' /\ DownRelays'
<1>1. /\ f \in Users /\ main \in Users /\ f # main /\ (f = up \/ f = down)
      /\ at \in [Users -> Kinds \cup Resting] /\ at2 \in [Users -> Kinds \cup Resting]
      /\ pc \in [Users -> Labels] /\ had \in [Users -> Seq(Nat)]
      /\ Len(out) \in Nat /\ Len(out2) \in Nat /\ Header \in Nat
  BY Typing, ThreeThreads DEF ProxyInv, Threads
<1>2. /\ acked2[main] = 1 /\ pc[f] = "accept" /\ pc' = [pc EXCEPT ![f] = "read"] /\ had' = had
      /\ U!Share(main, f) /\ D!Share(main, f)
  BY UpCalls, DownCalls DEF SpawnForward, Goto
<1>3. at'[f] = "run" /\ at2'[f] = "run" /\ at[f] = "idle" /\ at2[f] = "idle" /\ pc'[f] = "read"
  BY <1>1, <1>2 DEF U!Share, D!Share
<1>4. /\ UpAside(f) /\ wrote' = wrote /\ U!Continues(f)
      /\ DownAside(f) /\ wrote2' = wrote2 /\ D!Continues(f)
  BY <1>1, <1>2, UpCall, DownCall
<1>5. UNCHANGED <<returned, out, returned2, out2, acked2>>
  BY <1>4 DEF UpAside, DownAside
<1>6. Started(f)'
  BY <1>2, <1>3, <1>5 DEF Started
<1>7. Threads' /\ (f # up => UpRelays') /\ (f # down => DownRelays')
  BY <1>1, <1>2, <1>3, <1>4, <1>6, ForwardMoves DEF Labels, Resting
<1>8. U!Writes(f) = {} /\ U!Writes(f)' = {} /\ D!Writes(f) = {} /\ D!Writes(f)' = {}
  BY <1>3, <1>4, NoWrite
<1>9. ASSUME f = up PROVE UpRelays'
  <2>1. Len(out2) >= Header
    BY <1>2, HeaderWhole DEF ProxyInv
  <2>2. PICK h, w, n, total, sock1, a1 :
           /\ h = had[up] /\ w = wrote2[up] /\ n = Len(out2) - Header /\ total = Len(returned[up])
           /\ sock1 = socket2' /\ a1 = at'[up]
    OBVIOUS
  <2>3. RelayTypes(h, w, n, total) /\ Relays("accept", h, w, {}, socket2, n, total, at[up])
    BY <1>2, <1>8, <1>9, <2>2, RelayTyping DEF ProxyInv, Threads, UpRelays
  <2>4. n >= 0 /\ a1 \notin Kinds
    BY <1>1, <1>3, <1>9, <2>1, <2>2 DEF Kinds
  <2>5. Relays("read", h, w, {}, sock1, n, total, a1)
    BY <2>3, <2>4, RelayBegins
  <2> QED
    BY <1>2, <1>3, <1>4, <1>5, <1>8, <1>9, <2>2, <2>5 DEF ProxyInv, UpRelays
<1>10. ASSUME f = down PROVE DownRelays'
  <2>1. PICK h, w, n, total, sock1, a1 :
           /\ h = had[down] /\ w = wrote[down] /\ n = Len(out) /\ total = Len(returned2[down])
           /\ sock1 = socket' /\ a1 = at2'[down]
    OBVIOUS
  <2>2. RelayTypes(h, w, n, total) /\ Relays("accept", h, w, {}, socket, n, total, at2[down])
    BY <1>2, <1>8, <1>10, <2>1, RelayTyping DEF ProxyInv, Threads, DownRelays
  <2>3. n >= 0 /\ a1 \notin Kinds
    BY <1>1, <1>3, <1>10, <2>1 DEF Kinds
  <2>4. Relays("read", h, w, {}, sock1, n, total, a1)
    BY <2>2, <2>3, RelayBegins
  <2> QED
    BY <1>2, <1>3, <1>4, <1>5, <1>8, <1>10, <2>1, <2>4 DEF ProxyInv, DownRelays
<1> QED
  BY <1>1, <1>7, <1>9, <1>10

(* Every step of the proxy keeps the invariant.                            *)
LEMMA ProxyNextInv == ASSUME ProxyInv, [ProxyNext]_allVars PROVE ProxyInv'
<1>1. Connections'
  BY ConnectionsKeep, UpSteps, DownSteps DEF ProxyInv
<1>2. CASE UNCHANGED allVars
  <2>1. UNCHANGED <<vars, vars2, pc, had>>
    BY <1>2 DEF allVars
  <2>2. UpAside(main) /\ DownAside(main) /\ wrote' = wrote /\ wrote2' = wrote2 /\ at' = at /\ at2' = at2
    BY <2>1, UpCall, DownCall, UpStill, DownStill, ThreeThreads
  <2>3. HeaderSent'
    BY <2>1, <2>2, HeaderKept DEF ProxyInv, Threads, DownAside
  <2>4. Roles'
    BY <2>1, <2>2, RolesKept DEF ProxyInv, Threads, Comes
  <2>5. (\A f \in Forwards \ {main} : Started(f)') /\ UpRelays' /\ DownRelays'
    BY <1>1, <2>1, <2>2, Others, ThreeThreads
  <2> QED
    BY <1>1, <2>3, <2>4, <2>5, ThreeThreads DEF ProxyInv, Threads
<1>3. CASE AcceptUpstream \/ ConnectRemote \/ WriteHeader \/ HeaderFails \/ MainEnds
  BY <1>1, <1>3, MainSteps DEF ProxyInv
<1>4. ASSUME NEW f \in Forwards,
             \/ SpawnForward(f) \/ ForwardReads(f) \/ ForwardWrites(f) \/ ForwardChecks(f)
             \/ ForwardCloses(f) \/ ForwardEnds(f)
      PROVE  ProxyInv'
  BY <1>1, <1>4, SpawnStep, ForwardReadsStep, ForwardWritesStep, ForwardTurns DEF ProxyInv
<1>5. ASSUME U!Background, UNCHANGED <<vars2, pc, had>> PROVE ProxyInv'
  BY <1>1, <1>5, UpBackground DEF ProxyInv
<1>6. ASSUME D!Background, UNCHANGED <<vars, pc, had>> PROVE ProxyInv'
  BY <1>1, <1>6, DownBackground DEF ProxyInv
<1>7. CASE Loop \/ Kernel \/ Collector
  BY <1>5, <1>7, UpLoop DEF Loop, Kernel, Collector, U!Background
<1>8. CASE Loop2 \/ Kernel2 \/ Collector2
  BY <1>6, <1>8, DownLoop DEF Loop2, Kernel2, Collector2, D!Background
<1>9. CASE Peers
  BY <1>5, <1>6, <1>9, UpLoop, DownLoop DEF Peers, U!Background, D!Background
<1> QED
  BY <1>2, <1>3, <1>4, <1>7, <1>8, <1>9 DEF ProxyNext, ThreadStep

----------------------------------------------------------------------------
(* The inductive invariant of the proxy: what is proved of each of its     *)
(* connections, where the light threads are, and what each direction has   *)
(* relayed.                                                                *)
THEOREM ProxyInvariant == ProxySpec => []ProxyInv
<1>1. ProxyInit => ProxyInv
  BY ProxyInitInv
<1>2. ProxyInv /\ [ProxyNext]_allVars => ProxyInv'
  BY ProxyNextInv
<1> QED
  BY <1>1, <1>2, PTL DEF ProxySpec

(* Both connections of the proxy are connections as Connection specifies   *)
(* them, each with one reader: all that is proved of a connection holds of *)
(* upstream and of the connection to the remote host.                      *)
THEOREM ProxyConnections == ProxySpec => U!Spec /\ D!Spec
<1>1. ProxyInit => U!Init /\ D!Init
  BY DEF ProxyInit, Init, U!Init, Remote!Init, D!Init
<1>2. ProxyInv /\ [ProxyNext]_allVars => [U!Next]_(U!vars) /\ [D!Next]_(D!vars)
  BY UpSteps, DownSteps
<1> QED
  BY <1>1, <1>2, ProxyInvariant, PTL DEF ProxySpec, U!Spec, D!Spec

(* The remote host gets the whole destination before any forwarded byte,   *)
(* for every length of it and however its transfer is cut: the forward     *)
(* threads are started after conn:write has returned, and then all of it   *)
(* is on the wire (README.md:98).                                          *)
THEOREM HeaderGoesFirst == ProxySpec => []HeaderFirst
<1>1. ProxyInv => HeaderFirst
  BY DEF ProxyInv, Threads, HeaderSent, HeaderFirst
<1> QED
  BY <1>1, ProxyInvariant, PTL

----------------------------------------------------------------------------
(* The streams from end to end.                                            *)

(* The first n bytes of a stream; none if n is negative.                   *)
FirstBytes(n) == [k \in 1..n |-> k]

(* What left on one connection are the first bytes that came in on the     *)
(* other.                                                                  *)
Streams ==
    /\ Relayed(up, out2, Header, returned[up]) = FirstBytes(Len(out2) - Header)
    /\ Len(out2) \in Nat /\ sent \in Nat /\ Len(out2) - Header <= sent
    /\ Relayed(down, out, 0, returned2[down]) = FirstBytes(Len(out))
    /\ Len(out) \in Nat /\ sent2 \in Nat /\ Len(out) <= sent2

(* The bytes f has read are those of the stream, and those on the wire are *)
(* the ones it has read.                                                   *)
LEMMA InvStreams == ProxyInv => Streams
<1> SUFFICES ASSUME ProxyInv PROVE Streams
  OBVIOUS
<1>1. /\ Len(out) \in Nat /\ Len(out2) \in Nat /\ Header \in Nat
      /\ Len(returned[up]) \in Nat /\ Len(returned2[down]) \in Nat
  BY Typing, ThreeThreads DEF ProxyInv, Threads
<1>2. /\ \A k \in 1..Len(returned[up]) : returned[up][k] = k
      /\ sent \in Nat /\ Len(returned[up]) <= sent
  <2>1. /\ \A k \in 1..Len(returned[up]) : returned[up][k] = k
        /\ Len(returned[up]) <= received
    BY OneReaderEach DEF ProxyInv, Connections, U!StreamInv, U!Count
  <2>2. sent \in Nat /\ received \in 0..sent
    BY DEF ProxyInv, Connections, U!IInv, U!Types
  <2> QED
    BY <1>1, <2>1, <2>2
<1>3. /\ \A k \in 1..Len(returned2[down]) : returned2[down][k] = k
      /\ sent2 \in Nat /\ Len(returned2[down]) <= sent2
  <2>1. /\ \A k \in 1..Len(returned2[down]) : returned2[down][k] = k
        /\ Len(returned2[down]) <= received2
    BY OneReaderEach DEF ProxyInv, Connections, D!StreamInv, D!Count
  <2>2. sent2 \in Nat /\ received2 \in 0..sent2
    BY DEF ProxyInv, Connections, D!IInv, D!Types
  <2> QED
    BY <1>1, <2>1, <2>2
<1>4. Len(out2) - Header <= Len(returned[up]) /\ Len(out) <= Len(returned2[down])
  BY DEF ProxyInv, UpRelays, DownRelays, Relays
<1>5. ASSUME NEW k \in 1..Len(out2) - Header
      PROVE  out2[Header + k][1] = up /\
             returned[up][had[up][out2[Header + k][2]] + out2[Header + k][3]] = k
  <2>1. /\ out2[Header + k][1] = up
        /\ had[up][out2[Header + k][2]] + out2[Header + k][3] = k
    BY DEF ProxyInv, UpRelays, OnWire
  <2>2. k \in 1..Len(returned[up])
    BY <1>1, <1>4
  <2> QED
    BY <1>2, <2>1, <2>2
<1>6. ASSUME NEW k \in 1..Len(out) - 0
      PROVE  out[0 + k][1] = down /\
             returned2[down][had[down][out[0 + k][2]] + out[0 + k][3]] = k
  <2>1. /\ out[0 + k][1] = down
        /\ had[down][out[0 + k][2]] + out[0 + k][3] = k
    BY DEF ProxyInv, DownRelays, OnWire
  <2>2. k \in 1..Len(returned2[down])
    BY <1>1, <1>4
  <2> QED
    BY <1>3, <2>1, <2>2
<1>7. Relayed(up, out2, Header, returned[up]) = FirstBytes(Len(out2) - Header)
  BY <1>5 DEF Relayed, FirstBytes
<1>8. Relayed(down, out, 0, returned2[down]) = FirstBytes(Len(out))
  <2>1. Relayed(down, out, 0, returned2[down]) = FirstBytes(Len(out) - 0)
    BY <1>6 DEF Relayed, FirstBytes
  <2>2. Len(out) - 0 = Len(out)
    BY <1>1
  <2> QED
    BY <2>1, <2>2
<1>9. Len(out2) - Header <= sent /\ Len(out) <= sent2
  BY <1>1, <1>2, <1>3, <1>4
<1> QED
  BY <1>1, <1>2, <1>3, <1>7, <1>8, <1>9 DEF Streams

(* More bytes of a stream, as ByteStream delivers them, or none.           *)
Delivers(s, d, d1) ==
    \/ d1 = d
    \/ \E k \in 1..(s - Len(d)) : d1 = d \o [i \in 1..k |-> Len(d) + i]

(* The first n bytes grow so.                                              *)
LEMMA FirstBytesGrow ==
    ASSUME NEW n \in Int, NEW n1 \in Int, NEW s \in Nat, n <= n1, n1 <= s,
           NEW d, NEW d1, d = FirstBytes(n), d1 = FirstBytes(n1)
    PROVE  Delivers(s, d, d1)
<1>1. PICK N \in Nat, N1 \in Nat :
         /\ N = IF n <= 0 THEN 0 ELSE n
         /\ N1 = IF n1 <= 0 THEN 0 ELSE n1
  OBVIOUS
<1>2. 1..n = 1..N /\ 1..n1 = 1..N1 /\ N <= N1 /\ N1 <= s
  BY <1>1
<1>3. d = [k \in 1..N |-> k] /\ d1 = [k \in 1..N1 |-> k]
  BY <1>2 DEF FirstBytes
<1>4. d \in [1..N -> Nat] /\ d1 \in [1..N1 -> Nat]
  BY <1>3
<1>5. d \in Seq(Nat) /\ d1 \in Seq(Nat)
  BY <1>4, SeqDef
<1>6. Len(d) = N /\ Len(d1) = N1
  BY <1>4, <1>5, LenProperties
<1>7. CASE N1 = N
  BY <1>3, <1>7 DEF Delivers
<1>8. CASE N1 # N
  <2>1. PICK k : k = N1 - N
    OBVIOUS
  <2>2. k \in 1..(s - N) /\ k \in Nat /\ N + k = N1
    BY <1>2, <1>8, <2>1
  <2>3. PICK e : e = [i \in 1..k |-> N + i]
    OBVIOUS
  <2>4. e \in [1..k -> Nat] /\ \A i \in 1..k : e[i] = N + i
    BY <2>2, <2>3
  <2>5. e \in Seq(Nat)
    BY <2>2, <2>4, SeqDef
  <2>6. Len(e) = k
    BY <2>2, <2>4, <2>5, LenProperties
  <2>7. PICK c : c = d \o e
    OBVIOUS
  <2>8. /\ c \in Seq(Nat) /\ Len(c) = N + k
        /\ \A p \in 1..N + k : c[p] = IF p <= N THEN d[p] ELSE e[p - N]
    <3>1. /\ c \in Seq(Nat) /\ Len(c) = Len(d) + Len(e)
          /\ \A p \in 1..Len(d) + Len(e) :
                c[p] = IF p <= Len(d) THEN d[p] ELSE e[p - Len(d)]
      BY <1>5, <2>5, <2>7, ConcatProperties
    <3> QED
      BY <1>6, <2>6, <3>1
  <2>9. ASSUME NEW p \in 1..N1 PROVE c[p] = p
    <3>1. CASE p <= N
      <4>1. p \in 1..N /\ p \in 1..N + k
        BY <2>2, <3>1
      <4>2. c[p] = d[p]
        BY <2>8, <3>1, <4>1
      <4> QED
        BY <1>3, <4>1, <4>2
    <3>2. CASE ~(p <= N)
      <4>1. p - N \in 1..k /\ N + (p - N) = p /\ p \in 1..N + k
        BY <2>2, <3>2
      <4>2. c[p] = e[p - N]
        BY <2>8, <3>2, <4>1
      <4> QED
        BY <2>4, <4>1, <4>2
    <3> QED
      BY <3>1, <3>2
  <2>10. c \in [1..N1 -> Nat]
    BY <2>2, <2>8, LenProperties
  <2>11. c = d1
    BY <1>3, <2>9, <2>10
  <2>12. k \in 1..(s - Len(d)) /\ d1 = d \o [i \in 1..k |-> Len(d) + i]
    BY <1>6, <2>2, <2>3, <2>7, <2>11
  <2> QED
    BY <2>12 DEF Delivers
<1> QED
  BY <1>7, <1>8
(* A byte arrives in a step of a peer only, that leaves the other          *)
(* connection alone.                                                       *)
LEMMA PeersAlone ==
    ASSUME [ProxyNext]_allVars
    PROVE  /\ sent' = sent \/ UNCHANGED vars2
           /\ sent2' = sent2 \/ UNCHANGED vars
<1>1. UNCHANGED vars => sent' = sent
  BY DEF vars, peerVars
<1>2. UNCHANGED vars2 => sent2' = sent2
  BY DEF vars2
<1>3. CASE Loop \/ Kernel \/ Collector \/ Loop2 \/ Kernel2 \/ Collector2 \/ UNCHANGED allVars
  <2>1. CASE Loop
    BY <1>2, <2>1 DEF Loop
  <2>2. CASE Kernel
    BY <1>2, <2>2 DEF Kernel
  <2>3. CASE Collector
    BY <1>2, <2>3 DEF Collector
  <2>4. CASE Loop2
    BY <1>1, <2>4 DEF Loop2
  <2>5. CASE Kernel2
    BY <1>1, <2>5 DEF Kernel2
  <2>6. CASE Collector2
    BY <1>1, <2>6 DEF Collector2
  <2>7. CASE UNCHANGED allVars
    BY <2>7 DEF allVars
  <2> QED
    BY <1>3, <2>1, <2>2, <2>3, <2>4, <2>5, <2>6, <2>7
<1>4. CASE Peers
  BY <1>1, <1>2, <1>4 DEF Peers
<1>5. \A t : \/ Return(t) \/ Fail(t) \/ Close(t) \/ ReadSome(t)
             \/ (\E u : Share(t, u)) \/ (\E n : Write(t, n))
             => sent' = sent
  BY DEF Return, Fail, Close, ReadSome, Share, Write, peerVars
<1>6. \A t : \/ Remote!Return(t) \/ Remote!Fail(t) \/ Remote!Close(t) \/ Remote!ReadSome(t) \/ Remote!Connect(t)
             \/ (\E u : Remote!Share(t, u)) \/ (\E n : Remote!Write(t, n))
             => sent2' = sent2
  BY DEF Remote!Return, Remote!Fail, Remote!Close, Remote!ReadSome, Remote!Connect, Remote!Share,
         Remote!Write, Remote!peerVars
<1>7. CASE AcceptUpstream
  BY <1>2, <1>7 DEF AcceptUpstream, Accepted, peerVars
<1>8. CASE ConnectRemote \/ WriteHeader
  BY <1>1, <1>6, <1>8 DEF ConnectRemote, WriteHeader
<1>9. CASE MainEnds \/ HeaderFails
  BY <1>5, <1>6, <1>9 DEF MainEnds, Ends, HeaderFails
<1>10. ASSUME NEW f \in Forwards, SpawnForward(f) \/ ForwardEnds(f)
       PROVE  sent' = sent /\ sent2' = sent2
  BY <1>5, <1>6, <1>10 DEF SpawnForward, ForwardEnds, Ends
<1>11. ASSUME NEW f \in Forwards, ForwardReads(f) PROVE sent' = sent /\ sent2' = sent2
  BY <1>1, <1>2, <1>5, <1>6, <1>11 DEF ForwardReads
<1>12. ASSUME NEW f \in Forwards, ForwardWrites(f) PROVE sent' = sent /\ sent2' = sent2
  BY <1>1, <1>2, <1>5, <1>6, <1>12 DEF ForwardWrites
<1>13. ASSUME NEW f \in Forwards, ForwardChecks(f) \/ ForwardCloses(f)
       PROVE  sent' = sent /\ sent2' = sent2
  BY <1>1, <1>2, <1>5, <1>6, <1>13 DEF ForwardChecks, ForwardCloses
<1> QED
  BY <1>3, <1>4, <1>7, <1>8, <1>9, <1>10, <1>11, <1>12, <1>13 DEF ProxyNext, ThreadStep

(* One direction: bytes arrive and nothing leaves, or more of the bytes    *)
(* that have arrived leave.                                                *)
StreamMoves(s, s1, n, n1) ==
    /\ s \in Nat /\ s1 \in Nat /\ n \in Int /\ n1 \in Int /\ n <= n1 /\ n1 <= s1
    /\ s1 = s \/ (s1 > s /\ n1 = n)

(* Every step moves both directions so.                                    *)
LEMMA BothMove ==
    ASSUME ProxyInv, Streams, Streams', [ProxyNext]_allVars
    PROVE  /\ StreamMoves(sent, sent', Len(out2) - Header, Len(out2') - Header)
           /\ StreamMoves(sent2, sent2', Len(out), Len(out'))
<1>1. /\ Len(out') >= Len(out) /\ (sent' = sent \/ sent' > sent)
      /\ Len(out2') >= Len(out2) /\ (sent2' = sent2 \/ sent2' > sent2)
  BY Fits, UpSteps, DownSteps, U!WireGrows, D!WireGrows DEF ProxyInv, Connections
<1>2. (sent' = sent \/ out2' = out2) /\ (sent2' = sent2 \/ out' = out)
  BY PeersAlone DEF vars, vars2, outVars
<1>3. PICK n, n1, m, m1 : n = Len(out2) /\ n1 = Len(out2') /\ m = Len(out) /\ m1 = Len(out')
  OBVIOUS
<1>4. /\ n \in Nat /\ n1 \in Nat /\ m \in Nat /\ m1 \in Nat /\ Header \in Nat
      /\ sent \in Nat /\ sent' \in Nat /\ sent2 \in Nat /\ sent2' \in Nat
      /\ n1 - Header <= sent' /\ m1 <= sent2'
  BY <1>3, ProxyAssumption DEF Streams
<1>5. n1 >= n /\ m1 >= m /\ (sent' = sent \/ n1 = n) /\ (sent2' = sent2 \/ m1 = m)
  BY <1>1, <1>2, <1>3
<1>6. StreamMoves(sent, sent', n - Header, n1 - Header)
  BY <1>1, <1>4, <1>5 DEF StreamMoves
<1>7. StreamMoves(sent2, sent2', m, m1)
  BY <1>1, <1>4, <1>5 DEF StreamMoves
<1> QED
  BY <1>3, <1>6, <1>7

(* A step of ByteStream, or none.                                          *)
StreamStep(s, s1, d, d1) ==
    \/ s1 \in Nat /\ s1 > s /\ d1 = d
    \/ s1 = s /\ Delivers(s, d, d1)

(* Such a move is one.                                                     *)
LEMMA MovesStep ==
    ASSUME NEW s, NEW s1, NEW n, NEW n1, StreamMoves(s, s1, n, n1),
           NEW d, NEW d1, d = FirstBytes(n), d1 = FirstBytes(n1)
    PROVE  StreamStep(s, s1, d, d1)
<1>1. CASE s1 = s
  <2>1. n \in Int /\ n1 \in Int /\ s \in Nat /\ n <= n1 /\ n1 <= s
    BY <1>1 DEF StreamMoves
  <2>2. Delivers(s, d, d1)
    BY <2>1, FirstBytesGrow
  <2> QED
    BY <1>1, <2>2 DEF StreamStep
<1>2. CASE s1 # s
  BY <1>2 DEF StreamMoves, StreamStep
<1> QED
  BY <1>1, <1>2

(* The proxy is a byte stream from end to end in both directions, for any  *)
(* length of the header and of the read buffer and however reads, writes   *)
(* and transfers are cut: what it sends to one peer are the bytes the      *)
(* other one sent, each once and in order (README.md:79).                  *)
THEOREM RelaysBothStreams == ProxySpec => RelaysStream
<1>1. ProxyInit => UpStream!Init /\ DownStream!Init
  <2> SUFFICES ASSUME ProxyInit PROVE UpStream!Init /\ DownStream!Init
    OBVIOUS
  <2>1. sent = 0 /\ sent2 = 0 /\ out = <<>> /\ out2 = <<>>
    BY DEF ProxyInit, Init, Remote!Init
  <2>2. Streams
    BY ProxyInitInv, InvStreams
  <2>3. Len(out2) - Header <= 0 /\ Len(out) = 0
    BY <2>1, ProxyAssumption
  <2>4. \A n \in Int : n <= 0 => FirstBytes(n) = <<>>
    <3>1. \A n \in Int : n <= 0 => 1..n = {}
      OBVIOUS
    <3> QED
      BY <3>1 DEF FirstBytes
  <2>5. Len(out2) - Header \in Int /\ Len(out) \in Int
    BY <2>2, ProxyAssumption DEF Streams
  <2>6. /\ Relayed(up, out2, Header, returned[up]) = <<>>
        /\ Relayed(down, out, 0, returned2[down]) = <<>>
    BY <2>2, <2>3, <2>4, <2>5 DEF Streams
  <2> QED
    BY <2>1, <2>6 DEF UpStream!Init, DownStream!Init
<1>2. ProxyInv /\ Streams /\ Streams' /\ [ProxyNext]_allVars =>
        /\ [UpStream!Send \/ UpStream!Deliver]_<<sent, Relayed(up, out2, Header, returned[up])>>
        /\ [DownStream!Send \/ DownStream!Deliver]_<<sent2, Relayed(down, out, 0, returned2[down])>>
  <2> SUFFICES ASSUME ProxyInv, Streams, Streams', [ProxyNext]_allVars
               PROVE  /\ \/ UpStream!Send \/ UpStream!Deliver
                         \/ UNCHANGED <<sent, Relayed(up, out2, Header, returned[up])>>
                      /\ \/ DownStream!Send \/ DownStream!Deliver
                         \/ UNCHANGED <<sent2, Relayed(down, out, 0, returned2[down])>>
    OBVIOUS
  <2>1. /\ StreamMoves(sent, sent', Len(out2) - Header, Len(out2') - Header)
        /\ StreamMoves(sent2, sent2', Len(out), Len(out'))
    BY BothMove
  <2>2. PICK d, d1, e, e1 : /\ d = Relayed(up, out2, Header, returned[up])
                            /\ d1 = Relayed(up, out2, Header, returned[up])'
                            /\ e = Relayed(down, out, 0, returned2[down])
                            /\ e1 = Relayed(down, out, 0, returned2[down])'
    OBVIOUS
  <2>3. /\ d = FirstBytes(Len(out2) - Header) /\ d1 = FirstBytes(Len(out2') - Header)
        /\ e = FirstBytes(Len(out)) /\ e1 = FirstBytes(Len(out'))
    BY <2>2 DEF Streams
  <2>4. StreamStep(sent, sent', d, d1)
    BY <2>1, <2>3, MovesStep
  <2>5. StreamStep(sent2, sent2', e, e1)
    BY <2>1, <2>3, MovesStep
  <2>6. \/ UpStream!Send \/ UpStream!Deliver
        \/ UNCHANGED <<sent, Relayed(up, out2, Header, returned[up])>>
    BY <2>2, <2>4 DEF StreamStep, Delivers, UpStream!Send, UpStream!Deliver
  <2>7. \/ DownStream!Send \/ DownStream!Deliver
        \/ UNCHANGED <<sent2, Relayed(down, out, 0, returned2[down])>>
    BY <2>2, <2>5 DEF StreamStep, Delivers, DownStream!Send, DownStream!Deliver
  <2> QED
    BY <2>6, <2>7
<1> QED
  BY <1>1, <1>2, ProxyInvariant, InvStreams, PTL
     DEF ProxySpec, RelaysStream, UpStream!Spec, DownStream!Spec
==============================================================================
