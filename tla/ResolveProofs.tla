--------------------------- MODULE ResolveProofs ---------------------------
(***************************************************************************)
(* Where asio.connect goes, for every set of connections, addresses and    *)
(* ports and every list the resolver may return.                           *)
(***************************************************************************)
EXTENDS Resolve, TLAPS

Sockaddrs ==
    [family : {"unset", "v4", "v6"}, port : Nat \X Nat, addr4 : Nat, addr6 : Nat]

(* Types of the variables the proofs need.                                 *)
ResolveType ==
    /\ original \in [Conns -> Endpoints \cup {None}]
    /\ rtn \in Sockaddrs
    /\ DOMAIN lua = Conns
    /\ r \in Seq(Addresses) /\ i \in Nat
    /\ outcome \in {"none", "connects", "raises"}

(* The string a light thread holds is its own copy of the static buffer    *)
(* and decodes to the destination of its connection, whatever the buffer   *)
(* has been used for since.                                                *)
CopiesDecode ==
    \A c \in Conns : lua[c] # <<>> => get_addr_ip_port(lua[c][1]) = original[c]

(* A sockaddr that is connected to has been decoded to the destination it  *)
(* came from.                                                              *)
SockaddrDecoded ==
    call # <<>> /\ call[1].host = "sockaddr" => ep = original[call[1].of]

(* While the loop runs it has passed results that do not end it, and ep is *)
(* the last one it has looked at, with the port of this call.              *)
LoopSound ==
    Resolving =>
       /\ r # <<>>
       /\ i \in 1..Len(r) + 1
       /\ \A j \in 1..i - 1 : ~Stops(r[j], call[1].v6)
       /\ i > 1 => ep = [addr |-> r[i - 1], port |-> call[1].port % 65536]

ResolveInv ==
    /\ ResolveType /\ CopiesDecode /\ SockaddrDecoded /\ LoopSound /\ ConnectsToResult
    /\ outcome # "none" => call # <<>>

----------------------------------------------------------------------------
(* A 16-bit port survives the network byte order.                          *)
LEMMA PortRoundTrip ==
    ASSUME NEW p \in Nat, p < 65536
    PROVE  Htons(p) \in Nat \X Nat /\ Ntohs(Htons(p)) = p
BY DEF Ntohs, Htons

(* Decoding what the kernel left in the buffer gives the endpoint back,    *)
(* whichever address the buffer held before.                               *)
LEMMA FillDecodes ==
    ASSUME NEW buffer \in Sockaddrs, NEW e \in Endpoints
    PROVE  /\ Fill(buffer, e) \in Sockaddrs
           /\ get_addr_ip_port(Fill(buffer, e)) = e
<1>1. /\ e.addr \in Addresses
      /\ \E q \in Ports : e.port = q % 65536
  BY DEF Endpoints
<1>2. e.port \in Nat /\ e.port < 65536
  BY <1>1, ResolveAssumption
<1>3. /\ e.addr \in {"v4", "v6"} \X Nat
      /\ e.addr = <<e.addr[1], e.addr[2]>>
      /\ e.addr[1] \in {"v4", "v6"} /\ e.addr[2] \in Nat
  BY <1>1, ResolveAssumption
<1>4. Htons(e.port) \in Nat \X Nat /\ Ntohs(Htons(e.port)) = e.port
  BY <1>2, PortRoundTrip
<1>5. e = [addr |-> e.addr, port |-> e.port]
  BY DEF Endpoints
<1>6. CASE IsV6(e.addr)
  <2>1. Fill(buffer, e)
           = [family |-> "v6", port |-> Htons(e.port), addr4 |-> 0, addr6 |-> e.addr[2]]
    BY <1>6 DEF Fill
  <2>2. e.addr = <<"v6", e.addr[2]>>
    BY <1>3, <1>6 DEF IsV6
  <2> QED
    BY <1>3, <1>4, <1>5, <2>1, <2>2 DEF get_addr_ip_port, Sockaddrs
<1>7. CASE ~IsV6(e.addr)
  <2>1. Fill(buffer, e)
           = [family |-> "v4", port |-> Htons(e.port), addr4 |-> e.addr[2],
              addr6 |-> buffer.addr6]
    BY <1>7 DEF Fill, Sockaddrs
  <2>2. e.addr = <<"v4", e.addr[2]>>
    BY <1>3, <1>7 DEF IsV6
  <2> QED
    BY <1>3, <1>4, <1>5, <2>1, <2>2 DEF get_addr_ip_port, Sockaddrs
<1> QED
  BY <1>6, <1>7

----------------------------------------------------------------------------
(* At first no call is in progress and nothing is copied.                  *)
LEMMA ResolveInit == Init => ResolveInv
BY DEF Init, ResolveInv, ResolveType, CopiesDecode, SockaddrDecoded, LoopSound,
       ConnectsToResult, Resolving, Sockaddrs, ZeroAddr

(* Every step keeps the invariant: the copies are strings of their own,    *)
(* and the loop over the results only moves on past one that does not end  *)
(* it.                                                                     *)
LEMMA ResolveStep == ResolveInv /\ [Next]_vars => ResolveInv'
<1> SUFFICES ASSUME ResolveInv, [Next]_vars PROVE ResolveInv'
  OBVIOUS
<1> USE DEF ResolveInv
<1>1. ASSUME NEW c \in Conns, GetOriginalDst(c) PROVE ResolveInv'
  <2>1. CASE original[c] = None
    BY <1>1, <2>1 DEF GetOriginalDst, ResolveType, CopiesDecode, SockaddrDecoded,
       LoopSound, ConnectsToResult, Resolving
  <2>2. CASE original[c] # None
    <3>1. original[c] \in Endpoints
      BY <2>2 DEF ResolveType
    <3>2. rtn' \in Sockaddrs /\ get_addr_ip_port(rtn') = original[c]
      BY <1>1, <2>2, <3>1, FillDecodes DEF GetOriginalDst, ResolveType
    <3>3. lua' = [lua EXCEPT ![c] = <<rtn'>>]
      BY <1>1, <2>2 DEF GetOriginalDst
    <3>4. ResolveType' /\ CopiesDecode'
      BY <1>1, <3>2, <3>3 DEF GetOriginalDst, ResolveType, CopiesDecode
    <3> QED
      BY <1>1, <3>4 DEF GetOriginalDst, SockaddrDecoded, LoopSound, ConnectsToResult,
         Resolving
  <2> QED
    BY <2>1, <2>2
<1>2. ASSUME NEW c \in Conns, ConnectSockaddr(c) PROVE ResolveInv'
  <2>1. ResolveType' /\ CopiesDecode' /\ (outcome # "none" => call # <<>>)'
    BY <1>2 DEF ConnectSockaddr, ResolveType, CopiesDecode
  <2>2. SockaddrDecoded'
    BY <1>2 DEF ConnectSockaddr, SockaddrDecoded, CopiesDecode
  <2>3. LoopSound' /\ ConnectsToResult'
    BY <1>2 DEF ConnectSockaddr, LoopSound, ConnectsToResult, Resolving
  <2> QED
    BY <2>1, <2>2, <2>3
<1>3. ASSUME NEW p \in Ports, NEW a \in Addresses, ConnectLiteral(a, p)
      PROVE  ResolveInv'
  <2>1. ResolveType' /\ CopiesDecode' /\ (outcome # "none" => call # <<>>)'
    BY <1>3 DEF ConnectLiteral, ResolveType, CopiesDecode
  <2>2. SockaddrDecoded'
    BY <1>3 DEF ConnectLiteral, SockaddrDecoded, CopiesDecode
  <2>3. LoopSound' /\ ConnectsToResult'
    BY <1>3 DEF ConnectLiteral, LoopSound, ConnectsToResult, Resolving
  <2> QED
    BY <2>1, <2>2, <2>3
<1>4. ASSUME NEW p \in Ports, NEW v6 \in BOOLEAN, NEW results \in Results,
             ConnectName(p, v6, results)
      PROVE  ResolveInv'
  <2>0. results \in Seq(Addresses)
    BY ResolveAssumption
  <2>1. ResolveType' /\ CopiesDecode' /\ (outcome # "none" => call # <<>>)'
    BY <1>4, <2>0 DEF ConnectName, ResolveType, CopiesDecode
  <2>2. SockaddrDecoded'
    BY <1>4 DEF ConnectName, SockaddrDecoded, CopiesDecode
  <2>3. LoopSound' /\ ConnectsToResult'
    BY <1>4, <2>0 DEF ConnectName, LoopSound, ConnectsToResult, Resolving
  <2> QED
    BY <2>1, <2>2, <2>3
<1>5. CASE ConnectNoPort
  <2>1. ResolveType' /\ CopiesDecode' /\ (outcome # "none" => call # <<>>)'
    BY <1>5 DEF ConnectNoPort, ResolveType, CopiesDecode
  <2>2. SockaddrDecoded'
    BY <1>5 DEF ConnectNoPort, SockaddrDecoded, CopiesDecode
  <2>3. LoopSound' /\ ConnectsToResult'
    <3>1. outcome' = "raises"
      BY <1>5 DEF ConnectNoPort
    <3> QED
      BY <3>1 DEF LoopSound, ConnectsToResult, Resolving
  <2> QED
    BY <2>1, <2>2, <2>3
<1>6. CASE TryResult
  <2>1. ResolveType' /\ CopiesDecode' /\ SockaddrDecoded' /\ (outcome # "none" => call # <<>>)'
    BY <1>6 DEF TryResult, ResolveType, CopiesDecode, SockaddrDecoded, Resolving
  <2>2. CASE Stops(r[i], call[1].v6)
    <3>1. /\ outcome' = "connects" /\ r' = r /\ call' = call
          /\ ep' = [addr |-> r[i], port |-> call[1].port % 65536]
      BY <1>6, <2>2 DEF TryResult
    <3>2. i \in 1..Len(r)
      BY <1>6 DEF TryResult, LoopSound, ResolveType
    <3>3. IsV6(ep'.addr)
      BY <2>2, <3>1 DEF Stops
    <3>4. ConnectsToResult'
      BY <3>1, <3>2, <3>3 DEF ConnectsToResult
    <3> QED
      BY <2>1, <3>1, <3>4 DEF LoopSound, Resolving
  <2>3. CASE ~Stops(r[i], call[1].v6)
    BY <1>6, <2>1, <2>3 DEF TryResult, LoopSound, Resolving, ConnectsToResult, ResolveType
  <2> QED
    BY <2>2, <2>3
<1>7. CASE ResultsEnd
  <2>1. /\ Len(r) \in 1..Len(r) /\ i = Len(r) + 1
        /\ ep = [addr |-> r[Len(r)], port |-> call[1].port % 65536]
    BY <1>7 DEF ResultsEnd, LoopSound, ResolveType
  <2>2. call[1].v6 => ~\E j \in 1..Len(r) : IsV6(r[j])
    BY <1>7, <2>1 DEF ResultsEnd, LoopSound, Stops, ResolveType
  <2>3. ConnectsToResult'
    BY <1>7, <2>1, <2>2 DEF ResultsEnd, ConnectsToResult
  <2> QED
    BY <1>7, <2>3 DEF ResultsEnd, ResolveType, CopiesDecode, SockaddrDecoded,
       LoopSound, Resolving
<1>8. CASE CallEnds
  <2>1. ResolveType' /\ CopiesDecode' /\ (outcome # "none" => call # <<>>)'
    BY <1>8 DEF CallEnds, ResolveType, CopiesDecode
  <2>2. SockaddrDecoded'
    BY <1>8 DEF CallEnds, SockaddrDecoded, CopiesDecode
  <2>3. LoopSound' /\ ConnectsToResult'
    BY <1>8 DEF CallEnds, LoopSound, ConnectsToResult, Resolving
  <2> QED
    BY <2>1, <2>2, <2>3
<1>9. CASE UNCHANGED vars
  <2>1. ResolveType' /\ CopiesDecode' /\ (outcome # "none" => call # <<>>)'
    BY <1>9 DEF vars, ResolveType, CopiesDecode
  <2>2. SockaddrDecoded'
    BY <1>9 DEF vars, SockaddrDecoded, CopiesDecode
  <2>3. LoopSound' /\ ConnectsToResult'
    BY <1>9 DEF vars, LoopSound, ConnectsToResult, Resolving
  <2> QED
    BY <2>1, <2>2, <2>3
<1> QED
  BY <1>1, <1>2, <1>3, <1>4, <1>5, <1>6, <1>7, <1>8, <1>9 DEF Next

(* The inductive invariant.                                                *)
LEMMA ResolveInvariant == Spec => []ResolveInv
BY ResolveInit, ResolveStep, PTL DEF Spec

(* A connection that is redirected to its original destination goes there, *)
(* also when the static buffer of get_original_dst has been filled for     *)
(* another one since (luaAsio.cpp: get_original_dst, asio_new_connect).    *)
THEOREM RedirectsAlways == Spec => []Redirects
<1>1. ResolveInv => Redirects
  BY DEF ResolveInv, SockaddrDecoded, Redirects
<1> QED
  BY <1>1, ResolveInvariant, PTL

(* A connect by name goes to a result of this very call with its port, and *)
(* with resolve_v6 to a v6 address if there is one, for every list the     *)
(* resolver returns (luaAsio.cpp:333-337).                                 *)
THEOREM ConnectsToResultAlways == Spec => []ConnectsToResult
<1>1. ResolveInv => ConnectsToResult
  BY DEF ResolveInv
<1> QED
  BY <1>1, ResolveInvariant, PTL
=============================================================================
