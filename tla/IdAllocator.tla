---------------------------- MODULE IdAllocator ----------------------------
(***************************************************************************)
(* What the light-thread table of asio.lua promises its callers: every     *)
(* live light thread holds an id of its own.  Nothing is said of which id  *)
(* a new thread gets, nor of how freed ids are kept: ThreadTable, which    *)
(* follows the code, implements this specification.                        *)
(***************************************************************************)
EXTENDS Naturals

CONSTANT Threads    \* coroutine objects

VARIABLE ids        \* partial function: live light thread -> its id

TakenIds == {ids[th] : th \in DOMAIN ids}

Init == ids = [th \in {} |-> 0]

(* A new light thread gets an id that no live thread holds.                *)
Allocate(th) ==
    /\ th \notin DOMAIN ids
    /\ DOMAIN ids' = DOMAIN ids \cup {th}
    /\ ids'[th] \in (Nat \ {0}) \ TakenIds
    /\ \A x \in DOMAIN ids : ids'[x] = ids[x]

(* A finished light thread gives its id back; the others keep theirs.      *)
Release(th) ==
    /\ th \in DOMAIN ids
    /\ ids' = [x \in DOMAIN ids \ {th} |-> ids[x]]

Next == \E th \in Threads : Allocate(th) \/ Release(th)

Spec == Init /\ [][Next]_ids
=============================================================================
