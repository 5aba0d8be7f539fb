----------------------------- MODULE ByteStream -----------------------------
(***************************************************************************)
(* What a light thread may expect of the connection it reads from: the     *)
(* bytes the peer sent, each once and in order.  The bytes are numbered in *)
(* the order they are sent.  Connection, with one reader, implements this. *)
(***************************************************************************)
EXTENDS Naturals, Sequences

VARIABLES sent,         \* how many bytes the peer has sent
          delivered     \* the bytes reads have returned

Init == sent = 0 /\ delivered = <<>>

Send == sent' \in Nat /\ sent' > sent /\ UNCHANGED delivered

(* A read returns the next k bytes.                                        *)
Deliver ==
    /\ \E k \in 1..(sent - Len(delivered)) :
          delivered' = delivered \o [i \in 1..k |-> Len(delivered) + i]
    /\ UNCHANGED sent

Spec == Init /\ [][Send \/ Deliver]_<<sent, delivered>>
=============================================================================
