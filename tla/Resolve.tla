------------------------------ MODULE Resolve ------------------------------
(***************************************************************************)
(* Where asio.connect goes: the destination netfilter redirected from      *)
(* (conn:get_original_dst), the decoding of that address, the dispatch of  *)
(* asio.connect on its arguments, and the choice among the addresses the   *)
(* resolver returns.                                                       *)
(*                                                                         *)
(* An address is <<family, id>>, an endpoint [addr, port].  A sockaddr is  *)
(* the memory the kernel fills: the port in network byte order, and one    *)
(* field for an address of each family, at different offsets.              *)
(***************************************************************************)
EXTENDS Naturals, Sequences

CONSTANTS Conns,       \* accepted connections, redirected ones among them
          Addresses,   \* pairs <<"v4" or "v6", id>>
          Ports,       \* numbers given for ports
          Results      \* bound: what the resolver may return, <<>> for an error

ASSUME ResolveAssumption ==
    /\ Addresses \subseteq {"v4", "v6"} \X Nat
    /\ Ports \subseteq Nat
    /\ Results \subseteq Seq(Addresses)

VARIABLES original,  \* the endpoint each connection was redirected from, or None
          rtn,       \* static sockaddr_storage rtn of asio_get_original_dst
          lua,       \* the string each connection's get_original_dst returned
          call,      \* arguments of the asio.connect being executed, <<>> if none
          r,         \* what the resolver returned
          i,         \* the loop's iterator into r
          ep,        \* ep of asio_new_connect
          outcome    \* "none", "connects" or "raises": how the call left C++

vars == <<original, rtn, lua, call, r, i, ep, outcome>>

None == [addr |-> <<"none", 0>>, port |-> 0]
Endpoints == [addr : Addresses, port : {p % 65536 : p \in Ports}]
IsV6(addr) == addr[1] = "v6"

----------------------------------------------------------------------------
(* sockaddr_storage.                                                       *)
ZeroAddr == [family |-> "unset", port |-> <<0, 0>>, addr4 |-> 0, addr6 |-> 0]

Htons(p) == <<p \div 256, p % 256>>
Ntohs(b) == b[1] * 256 + b[2]

(* What getsockopt leaves in the buffer: a sockaddr_in is shorter than a   *)
(* sockaddr_in6, and what lies behind it stays.  sin6_flowinfo, 0 here, is *)
(* where sin_addr is.                                                      *)
Fill(buffer, e) ==
    IF IsV6(e.addr)
    THEN [family |-> "v6", port |-> Htons(e.port), addr4 |-> 0, addr6 |-> e.addr[2]]
    ELSE [buffer EXCEPT !.family = "v4", !.port = Htons(e.port), !.addr4 = e.addr[2]]

(* Wrong variant: the family is told from the bytes of the longer form.    *)
get_addr_ip_port_ByContent(s) ==
    [addr |-> IF s.addr6 # 0 THEN <<"v6", s.addr6>> ELSE <<"v4", s.addr4>>,
     port |-> Ntohs(s.port)]

(* Anything that is not AF_INET6 is taken for AF_INET.                     *)
get_addr_ip_port(s) ==
    [addr |-> IF s.family = "v6" THEN <<"v6", s.addr6>> ELSE <<"v4", s.addr4>>,
     port |-> Ntohs(s.port)]

(* conn:get_original_dst: the option of IPv6 first, then that of IPv4; nil *)
(* if both fail.  ffi.string copies the static buffer.                     *)
GetOriginalDst(c) ==
    /\ call = <<>>
    /\ IF original[c] = None
       THEN lua' = [lua EXCEPT ![c] = <<>>] /\ rtn' = rtn
       ELSE /\ rtn' = Fill(rtn, original[c])
            /\ lua' = [lua EXCEPT ![c] = <<rtn'>>]
    /\ UNCHANGED <<original, call, r, i, ep, outcome>>

----------------------------------------------------------------------------
(* asio.connect.                                                           *)

(* asio.connect(sockaddr): no port and a string of 64 bytes or more.       *)
ConnectSockaddr(c) ==
    /\ call = <<>> /\ lua[c] # <<>>
    /\ call' = <<[host |-> "sockaddr", of |-> c]>>
    /\ ep' = get_addr_ip_port(lua[c][1])
    /\ outcome' = "connects"
    /\ UNCHANGED <<original, rtn, lua, r, i>>

(* asio.connect(host, port): a literal address is taken as it is.  The ffi *)
(* converts the port to u_short.                                           *)
ConnectLiteral(addr, port) ==
    /\ call = <<>>
    /\ call' = <<[host |-> "literal", of |-> addr, port |-> port]>>
    /\ ep' = [addr |-> addr, port |-> port % 65536]
    /\ outcome' = "connects"
    /\ UNCHANGED <<original, rtn, lua, r, i>>

(* Any other host goes to the resolver, which throws when it finds nothing;*)
(* no catch is around it.                                                  *)
ConnectName(port, v6, results) ==
    /\ call = <<>>
    /\ call' = <<[host |-> "name", port |-> port, v6 |-> v6]>>
    /\ r' = results
    /\ i' = 1
    /\ outcome' = IF results = <<>> THEN "raises" ELSE "none"
    /\ UNCHANGED <<original, rtn, lua, ep>>

(* Without a port, or one that is no number, no conversion exists.         *)
ConnectNoPort ==
    /\ call = <<>>
    /\ call' = <<[host |-> "no port"]>>
    /\ outcome' = "raises"
    /\ UNCHANGED <<original, rtn, lua, r, i, ep>>

Resolving == call # <<>> /\ call[1].host = "name" /\ outcome = "none"

(* Wrong variant: the break is for v4 addresses where they are asked for.  *)
Stops_AtV4(addr, v6) == ~IsV6(addr) /\ ~v6

(* The condition of the break.                                             *)
Stops(addr, v6) == IsV6(addr) /\ v6

(* One round of the loop over the results: assign ep, maybe break.         *)
TryResult ==
    /\ Resolving /\ i <= Len(r)
    /\ ep' = [addr |-> r[i], port |-> call[1].port % 65536]
    /\ IF Stops(r[i], call[1].v6) THEN outcome' = "connects" /\ i' = i
       ELSE outcome' = outcome /\ i' = i + 1
    /\ UNCHANGED <<original, rtn, lua, call, r>>

(* i == r.end()                                                            *)
ResultsEnd ==
    /\ Resolving /\ i > Len(r)
    /\ outcome' = "connects"
    /\ UNCHANGED <<original, rtn, lua, call, r, i, ep>>

(* The call has returned, or raised; the next one has a fresh ep.          *)
CallEnds ==
    /\ outcome # "none"
    /\ call' = <<>> /\ outcome' = "none" /\ ep' = None /\ r' = <<>> /\ i' = 0
    /\ UNCHANGED <<original, rtn, lua>>

----------------------------------------------------------------------------
Init ==
    /\ original \in [Conns -> Endpoints \cup {None}]
    /\ rtn = ZeroAddr
    /\ lua = [c \in Conns |-> <<>>]
    /\ call = <<>> /\ r = <<>> /\ i = 0 /\ ep = None /\ outcome = "none"

Next ==
    \/ \E c \in Conns : GetOriginalDst(c) \/ ConnectSockaddr(c)
    \/ \E p \in Ports :
          \/ \E a \in Addresses : ConnectLiteral(a, p)
          \/ \E v6 \in BOOLEAN, results \in Results : ConnectName(p, v6, results)
    \/ ConnectNoPort
    \/ TryResult \/ ResultsEnd \/ CallEnds

Spec == Init /\ [][Next]_vars

----------------------------------------------------------------------------
(* asio.connect(conn:get_original_dst()) goes to where that connection was *)
(* redirected from, whatever other connections have asked for since: the   *)
(* static buffer of luaAsio.cpp:439 is shared and filled by addresses of   *)
(* both lengths.                                                           *)
Redirects ==
    outcome = "connects" /\ call[1].host = "sockaddr" => ep = original[call[1].of]

(* A connect by name goes to an address the resolver returned for this very*)
(* call, with this call's port, and with resolve_v6 to a v6 address if one *)
(* was returned, wherever it stands in the list (luaAsio.cpp:333-337).     *)
ConnectsToResult ==
    outcome = "connects" /\ call[1].host = "name" =>
       /\ \E j \in 1..Len(r) : ep = [addr |-> r[j], port |-> call[1].port % 65536]
       /\ call[1].v6 /\ (\E j \in 1..Len(r) : IsV6(r[j])) => IsV6(ep.addr)

(* What README.md:174 has a caller expect of resolve_v6=false, and what    *)
(* test.lua:115 relies on when it connects to a server on 127.0.0.1 by     *)
(* 'localhost': the name is not resolved to a v6 address when a v4 address *)
(* was returned.  The loop at luaAsio.cpp:333-337 only breaks for v6, so   *)
(* without it the last result is taken, of either family.                  *)
ResolvesAsAsked ==
    /\ outcome = "connects" /\ call[1].host = "name"
    /\ ~call[1].v6
    /\ \E j \in 1..Len(r) : ~IsV6(r[j])
    => ~IsV6(ep.addr)
=============================================================================
