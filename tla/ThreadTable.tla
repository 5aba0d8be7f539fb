---------------------------- MODULE ThreadTable ----------------------------
(***************************************************************************)
(* The light-thread table of asio.lua: th_tbl maps a tid to its coroutine, *)
(* th_to_id is the reverse map, th_free_id is a stack of tids given back.  *)
(* A tid travels through the C++ side as the dest_id of an operation and   *)
(* comes back in an event, so a tid must name one live coroutine.          *)
(*                                                                         *)
(* Lua tables are partial functions here.  `#t` is what the Lua 5.1        *)
(* manual promises and no more: ANY border of t, so a table with holes has *)
(* several possible lengths.                                               *)
(***************************************************************************)
EXTENDS Naturals, Sequences, FiniteSets

CONSTANT Threads    \* coroutine objects (the values co_create returns)

VARIABLES th_tbl,       \* tid -> coroutine
          th_free_id,   \* stack of freed tids, top at the end
          th_to_id      \* coroutine -> tid

tableVars == <<th_tbl, th_free_id, th_to_id>>

Tids == Nat \ {0}

----------------------------------------------------------------------------
(* The possible values of #t.                                              *)
Borders(t) == {n \in DOMAIN t \cup {0} : n + 1 \notin DOMAIN t}

(* Wrong variant: never reuses a tid.                                      *)
GetFreeTid_NeverReuses == {n + 1 : n \in Borders(th_tbl)}

(* Wrong variant: the length of the free stack in place of its top.        *)
GetFreeTid_StackLength ==
    IF Len(th_free_id) = 0 THEN {n + 1 : n \in Borders(th_tbl)}
                           ELSE {Len(th_free_id)}

(* Wrong variant: tids counted from 0.                                     *)
GetFreeTid_FromZero ==
    IF Len(th_free_id) = 0 THEN Borders(th_tbl) ELSE {th_free_id[Len(th_free_id)]}

(* _get_free_tid: the tids it may return.                                  *)
GetFreeTid ==
    LET last_free == Len(th_free_id)
    IN  IF last_free = 0 THEN {n + 1 : n \in Borders(th_tbl)}
                         ELSE {th_free_id[last_free]}

(* Wrong variant: the reused tid stays on the free stack.                  *)
PopFreeId_Forgotten == th_free_id' = th_free_id

(* th_free_id[last_free] = nil, when last_free > 0                         *)
PopFreeId ==
    th_free_id' = IF th_free_id = <<>> THEN th_free_id
                  ELSE SubSeq(th_free_id, 1, Len(th_free_id) - 1)

(* _use_tid                                                                *)
UseTid(tid, th) ==
    /\ PopFreeId
    /\ th_tbl' = [i \in DOMAIN th_tbl \cup {tid} |->
                     IF i = tid THEN th ELSE th_tbl[i]]
    /\ th_to_id' = [x \in DOMAIN th_to_id \cup {th} |->
                     IF x = th THEN tid ELSE th_to_id[x]]

(* _create_th: co_create returns a coroutine the table does not hold; the  *)
(* three calls run without a yield between them.                           *)
CreateTh(th) ==
    /\ th \notin DOMAIN th_to_id
    /\ \E tid \in GetFreeTid : UseTid(tid, th)

(* Wrong variant: the reverse map keeps the finished coroutine.            *)
RemoveTh_KeepsReverse(tid) ==
    /\ tid \in DOMAIN th_tbl
    /\ th_to_id' = th_to_id
    /\ th_tbl' = [i \in DOMAIN th_tbl \ {tid} |-> th_tbl[i]]
    /\ th_free_id' = Append(th_free_id, tid)

(* Wrong variant: the tid is dropped, not pushed on the free stack.        *)
RemoveTh_DropsTid(tid) ==
    /\ tid \in DOMAIN th_tbl
    /\ th_to_id' = [x \in DOMAIN th_to_id \ {th_tbl[tid]} |-> th_to_id[x]]
    /\ th_tbl' = [i \in DOMAIN th_tbl \ {tid} |-> th_tbl[i]]
    /\ th_free_id' = th_free_id

(* _remove_th(tid), which returns at once unless th_tbl[tid] is set.       *)
RemoveTh(tid) ==
    /\ tid \in DOMAIN th_tbl
    /\ th_to_id' = [x \in DOMAIN th_to_id \ {th_tbl[tid]} |-> th_to_id[x]]
    /\ th_tbl' = [i \in DOMAIN th_tbl \ {tid} |-> th_tbl[i]]
    /\ th_free_id' = Append(th_free_id, tid)

TableInit ==
    /\ th_tbl = [i \in {} |-> 0]
    /\ th_free_id = <<>>
    /\ th_to_id = [x \in {} |-> 0]

TableNext ==
    \/ \E th \in Threads : CreateTh(th)
    \/ \E tid \in DOMAIN th_tbl : RemoveTh(tid)

TableSpec == TableInit /\ [][TableNext]_tableVars

----------------------------------------------------------------------------
FreeIds == {th_free_id[i] : i \in 1..Len(th_free_id)}

(* Every tid that was ever handed out.                                     *)
Issued == DOMAIN th_tbl \cup FreeIds

(* Shapes of the three tables (asio.lua:60-62).                            *)
TableType ==
    /\ DOMAIN th_tbl \subseteq Tids
    /\ \A i \in DOMAIN th_tbl : th_tbl[i] \in Threads
    /\ DOMAIN th_to_id \subseteq Threads
    /\ \A x \in DOMAIN th_to_id : th_to_id[x] \in Tids
    /\ th_free_id \in Seq(Tids)

(* th_tbl and th_to_id are inverse to each other: the tid a running thread *)
(* finds with th_to_id[th] and passes to C++ is the tid whose event will   *)
(* resume that very thread (asio.lua:139 against asio.lua:259), also after *)
(* any number of tids were freed and handed out again.                     *)
TwoWay ==
    /\ \A i \in DOMAIN th_tbl :
          th_tbl[i] \in DOMAIN th_to_id /\ th_to_id[th_tbl[i]] = i
    /\ \A x \in DOMAIN th_to_id :
          th_to_id[x] \in DOMAIN th_tbl /\ th_tbl[th_to_id[x]] = x

(* The free stack holds each freed tid once and none that is in use, so no *)
(* tid is handed out twice (asio.lua:79-98).                               *)
FreeStackSound ==
    /\ FreeIds \cap DOMAIN th_tbl = {}
    /\ \A i, j \in 1..Len(th_free_id) :
          th_free_id[i] = th_free_id[j] => i = j

(* The tids ever issued have no gap, although th_tbl itself may have holes *)
(* and #th_tbl is then ambiguous: it is read only when th_free_id is empty *)
(* and th_tbl therefore has no hole (asio.lua:68-77).                      *)
NoGaps ==
    \A i \in Issued : \A j \in 1..i : j \in Issued

(* A tid that was never used is issued only when no freed one waits: the   *)
(* table does not grow past the largest number of light threads that were  *)
(* in it together (asio.lua:68-77).                                        *)
ReusesFirst == [][Issued' # Issued => th_free_id = <<>>]_tableVars

TableInv == TableType /\ TwoWay /\ FreeStackSound /\ NoGaps

----------------------------------------------------------------------------
Allocator == INSTANCE IdAllocator WITH ids <- th_to_id

(* The table implements the abstract allocator: a new light thread gets a  *)
(* tid no live one holds, and no other thread's tid changes.               *)
ImplementsAllocator == Allocator!Spec
=============================================================================
