------------------------------- MODULE Proxy -------------------------------
(***************************************************************************)
(* The transparent proxy of README.md: two connections composed by three   *)
(* light threads.  The thread of connection_th connects to the remote host,*)
(* writes the original destination and starts one forward thread for each  *)
(* direction; the first of them to meet an error closes both connections.  *)
(*                                                                         *)
(* The variables of Connection are upstream, the accepted connection; the  *)
(* ones with a 2 are proxy, the connection to the remote host.             *)
(***************************************************************************)
EXTENDS Connection

CONSTANTS main,     \* the light thread of connection_th
          down, up, \* those of forward(proxy, upstream), forward(upstream, proxy)
          Header    \* length of the original destination

ASSUME ProxyAssumption ==
    /\ Users = {main, down, up} /\ main # down /\ main # up /\ down # up
    /\ Readers = {down, up} /\ Writers = Users
    /\ ~CloseErrors
    /\ Header \in Nat \ {0}

VARIABLES
    object2, owners2, con2, holders2, socket2, read_buff2, capacity2, stale2, op_queue2,
    ready2, at2, peer2, sent2, received2, returned2, out2, wrote2, acked2,
    pc,       \* where each light thread is in its function
    had       \* bytes a forward thread had read before each of its read_somes

Remote == INSTANCE Connection WITH
    object <- object2, owners <- owners2, con <- con2, holders <- holders2,
    socket <- socket2, read_buff <- read_buff2, capacity <- capacity2, stale <- stale2,
    op_queue <- op_queue2, ready <- ready2, at <- at2, peer <- peer2, sent <- sent2,
    received <- received2, returned <- returned2, out <- out2, wrote <- wrote2,
    acked <- acked2

vars2 == <<object2, owners2, con2, holders2, socket2, read_buff2, capacity2, stale2,
           op_queue2, ready2, at2, peer2, sent2, received2, returned2, out2, wrote2, acked2>>
allVars == <<vars, vars2, pc, had>>

Forwards == {down, up}

Goto(t, label) == pc' = [pc EXCEPT ![t] = label] /\ had' = had

(* A light thread goes on when neither connection has it in a call.        *)
At(t, label) == pc[t] = label /\ at[t] \notin Kinds /\ at2[t] \notin Kinds

Ends(t) == Return(t) /\ Remote!Return(t) /\ Goto(t, "done")

----------------------------------------------------------------------------
(* connection_th.                                                          *)
AcceptUpstream ==
    /\ pc[main] = "accept"
    /\ Accepted /\ holders' = {main}
    /\ Goto(main, "connect")
    /\ UNCHANGED vars2

ConnectRemote ==
    /\ pc[main] = "connect"
    /\ Remote!Connect(main)
    /\ Goto(main, "write")
    /\ UNCHANGED vars

WriteHeader ==
    /\ At(main, "write") /\ main \in holders2
    /\ Remote!Write(main, Header)
    /\ Goto(main, "spawn")
    /\ UNCHANGED vars

(* A connection that was not redirected has no original destination:       *)
(* xor_str(nil) raises, and the dead coroutine keeps both connections.     *)
HeaderFails ==
    /\ At(main, "write") /\ main \in holders2
    /\ Fail(main) /\ Remote!Fail(main)
    /\ Goto(main, "done")

(* Wrong variant: the forward threads are started before the header.       *)
SpawnForward_First(f) ==
    /\ At(main, "write") /\ main \in holders2
    /\ pc[f] = "accept" /\ (f = up => pc[down] # "accept")
    /\ Share(main, f) /\ Remote!Share(main, f)
    /\ Goto(f, "read")

SpawnForward(f) ==
    /\ At(main, "spawn") /\ acked2[main] = 1
    /\ pc[f] = "accept" /\ (f = up => pc[down] # "accept")
    /\ Share(main, f) /\ Remote!Share(main, f)
    /\ Goto(f, "read")

(* No connection, or an error, or both threads are started.                *)
MainEnds ==
    /\ \/ At(main, "write") /\ main \notin holders2
       \/ At(main, "spawn") /\ (acked2[main] = 0 \/ pc[up] # "accept")
    /\ Ends(main)

----------------------------------------------------------------------------
(* forward.  The methods of a closed connection return an error at once.   *)
FromUsable(f) == IF f = up THEN con = "usable" ELSE con2 = "usable"
ToUsable(f) == IF f = up THEN con2 = "usable" ELSE con = "usable"
Total(f) == Len(IF f = up THEN returned[f] ELSE returned2[f])
Data(f) == Total(f) - Last(had[f])
Written(f) == IF f = up THEN acked2[f] = Len(wrote2[f]) ELSE acked[f] = Len(wrote[f])

ForwardReads(f) ==
    /\ At(f, "read") /\ FromUsable(f)
    /\ IF f = up THEN ReadSome(f) /\ UNCHANGED vars2
       ELSE Remote!ReadSome(f) /\ UNCHANGED vars
    /\ pc' = [pc EXCEPT ![f] = "check"]
    /\ had' = [had EXCEPT ![f] = Append(@, Total(f))]

(* xor_str keeps the length.                                               *)
Chunk(f) == Data(f)

ForwardWrites(f) ==
    /\ At(f, "check") /\ Data(f) > 0 /\ ToUsable(f)
    /\ IF f = up THEN Remote!Write(f, Chunk(f)) /\ UNCHANGED vars
       ELSE Write(f, Chunk(f)) /\ UNCHANGED vars2
    /\ Goto(f, "written")

(* rerr or werr: leave the loop; or go round again.                        *)
ForwardChecks(f) ==
    /\ \/ At(f, "read") /\ ~FromUsable(f) /\ Goto(f, "close")
       \/ At(f, "check") /\ (Data(f) = 0 \/ ~ToUsable(f)) /\ Goto(f, "close")
       \/ At(f, "written") /\ Goto(f, IF Written(f) THEN "read" ELSE "close")
    /\ UNCHANGED <<vars, vars2>>

(* Wrong variant: forward closes the connection it reads from only.        *)
ForwardCloses_From(f) ==
    /\ At(f, "close")
    /\ IF f = up /\ con = "usable" THEN Close(f) ELSE UNCHANGED vars
    /\ IF f = down /\ con2 = "usable" THEN Remote!Close(f) ELSE UNCHANGED vars2
    /\ Goto(f, "end")

(* from_con:close(), to_con:close().                                       *)
ForwardCloses(f) ==
    /\ At(f, "close")
    /\ IF con = "usable" THEN Close(f) ELSE UNCHANGED vars
    /\ IF con2 = "usable" THEN Remote!Close(f) ELSE UNCHANGED vars2
    /\ Goto(f, "end")

ForwardEnds(f) == At(f, "end") /\ Ends(f)

----------------------------------------------------------------------------
ProxyInit ==
    /\ Init /\ Remote!Init
    /\ pc = [t \in Users |-> "accept"] /\ had = [t \in Users |-> <<>>]

ThreadStep ==
    \/ AcceptUpstream \/ ConnectRemote \/ WriteHeader \/ HeaderFails \/ MainEnds
    \/ \E f \in Forwards :
          \/ SpawnForward(f) \/ ForwardReads(f) \/ ForwardWrites(f) \/ ForwardChecks(f)
          \/ ForwardCloses(f) \/ ForwardEnds(f)

Loop == LoopStep /\ UNCHANGED <<vars2, pc, had>>
Loop2 == Remote!LoopStep /\ UNCHANGED <<vars, pc, had>>
Kernel == KernelStep /\ UNCHANGED <<vars2, pc, had>>
Kernel2 == Remote!KernelStep /\ UNCHANGED <<vars, pc, had>>
Peers ==
    \/ (PeerSends \/ PeerCloses) /\ UNCHANGED <<vars2, pc, had>>
    \/ (Remote!PeerSends \/ Remote!PeerCloses) /\ UNCHANGED <<vars, pc, had>>
Collector == Collect /\ UNCHANGED <<vars2, pc, had>>
Collector2 == Remote!Collect /\ UNCHANGED <<vars, pc, had>>

ProxyNext ==
    ThreadStep \/ Loop \/ Loop2 \/ Kernel \/ Kernel2 \/ Peers \/ Collector \/ Collector2

ProxySpec == ProxyInit /\ [][ProxyNext]_allVars

(* Receives, connects and failures; nothing here needs a peer that reads.  *)
Receives == (PerformRead \/ PerformFail("in")) /\ UNCHANGED <<vars2, pc, had>>
Receives2 == (Remote!PerformRead \/ Remote!PerformFail("in")) /\ UNCHANGED <<vars, pc, had>>
Refuses == PerformFail("out") /\ UNCHANGED <<vars2, pc, had>>
Refuses2 ==
    (Remote!PerformConnect \/ Remote!PerformFail("out")) /\ UNCHANGED <<vars, pc, had>>

(* Light threads run until they yield, the loop runs handlers, the kernel  *)
(* hands over what has arrived and reports errors, and garbage is          *)
(* collected.  The peers need not send, read or end: a write may wait for  *)
(* ever.                                                                   *)
ProxyFairSpec ==
    /\ ProxySpec
    /\ WF_allVars(ThreadStep) /\ WF_allVars(Loop) /\ WF_allVars(Loop2)
    /\ WF_allVars(Receives) /\ WF_allVars(Receives2)
    /\ WF_allVars(Refuses) /\ WF_allVars(Refuses2)
    /\ WF_allVars(Collector) /\ WF_allVars(Collector2)

----------------------------------------------------------------------------
(* The bytes on the wire behind the first skip ones, as bytes f read: byte *)
(* i of f's string m is byte i of what its m-th read_some returned.  The   *)
(* bytes of a stream are numbered from 1, so that a byte of another light  *)
(* thread, 0 here, is none of it.                                          *)
Relayed(f, wire, skip, data) ==
    [k \in 1..Len(wire) - skip |->
        LET b == wire[skip + k]
        IN  IF b[1] = f THEN data[had[f][b[2]] + b[3]] ELSE 0]

UpStream == INSTANCE ByteStream WITH delivered <- Relayed(up, out2, Header, returned[up])
DownStream == INSTANCE ByteStream WITH
    sent <- sent2, delivered <- Relayed(down, out, 0, returned2[down])

(* The proxy is a byte stream from end to end, in both directions at once: *)
(* what leaves on one connection are the bytes that came in on the other,  *)
(* each once and in order, however reads and writes are cut and whichever  *)
(* thread closes the connections under the other.                          *)
RelaysStream == UpStream!Spec /\ DownStream!Spec

(* The remote host gets the whole destination before any forwarded byte,   *)
(* as its read(128) expects (README.md:116).                               *)
HeaderFirst ==
    \A k \in 1..Len(out2) : k <= Header <=> out2[k][1] = main

Gone == object = "freed" /\ object2 = "freed" /\ \A t \in Users : pc[t] = "done"

(* Forward thread f waits in a write, to a peer that is still there.       *)
Stalls(f) ==
    /\ pc[f] = "written"
    /\ IF f = up THEN peer2 # "reset" /\ \E op \in Remote!Waiting : op.who = f
       ELSE peer # "reset" /\ \E op \in Waiting : op.who = f

(* When one forward thread gives up, both connections are closed and freed *)
(* and all light threads end, although the other may wait in a read or in  *)
(* a write to a peer that does not read (README.md:87).  When a peer ends  *)
(* its connection the same follows, or a forward thread waits for ever in  *)
(* one write: only the peer it writes to can hold that up, and then the    *)
(* proxy does not learn of the other's end.                                *)
ShutsDown ==
    /\ (\E f \in Forwards : pc[f] = "close") ~> Gone
    /\ (pc[up] # "accept" /\ (peer # "open" \/ peer2 # "open"))
          ~> (Gone \/ \E f \in Forwards : []Stalls(f))
=============================================================================
