------------------------- MODULE ThreadTableProofs -------------------------
(***************************************************************************)
(* The light-thread table is correct for every set of coroutine objects:   *)
(* TableInv is inductive, and with it the table implements IdAllocator.    *)
(*                                                                         *)
(* TableInv is needed as a whole.  Two threads could get one tid either    *)
(* from the free stack (FreeStackSound excludes it) or from #th_tbl + 1;   *)
(* for the latter, NoGaps says that with an empty free stack th_tbl has no *)
(* hole, so that its only border lies past every tid in use.               *)
(***************************************************************************)
EXTENDS ThreadTable, SequenceTheorems, TLAPS

(* What _get_free_tid returns is a tid no light thread holds; and it is    *)
(* the top of the free stack, or the free stack is empty and the tid is    *)
(* the one after all those issued so far.                                  *)
LEMMA FreshTid ==
    ASSUME TableInv, NEW tid \in GetFreeTid
    PROVE  /\ tid \in Tids
           /\ tid \notin DOMAIN th_tbl
           /\ th_free_id # <<>> => tid = th_free_id[Len(th_free_id)]
           /\ th_free_id = <<>> =>
                 /\ \A i \in DOMAIN th_tbl : i < tid
                 /\ \A j \in 1..(tid - 1) : j \in DOMAIN th_tbl
<1> USE DEF TableInv, TableType, Tids
<1>1. CASE th_free_id = <<>>
  <2>1. Len(th_free_id) = 0
    BY <1>1
  <2>2. PICK n \in Borders(th_tbl) : tid = n + 1
    BY <2>1 DEF GetFreeTid
  <2>3. /\ n \in Nat
        /\ n + 1 \notin DOMAIN th_tbl
        /\ n = 0 \/ n \in DOMAIN th_tbl
    BY <2>2 DEF Borders
  <2>4. Issued = DOMAIN th_tbl
    <3>1. FreeIds = {}
      BY <2>1 DEF FreeIds
    <3> QED
      BY <3>1 DEF Issued
  <2>5. \A i \in DOMAIN th_tbl : i < tid
    <3>1. SUFFICES ASSUME NEW i \in DOMAIN th_tbl, i >= n + 1
                   PROVE  FALSE
      BY <2>2, <2>3
    <3>2. n + 1 \in 1..i
      BY <2>3, <3>1
    <3> QED
      BY <2>3, <2>4, <3>1, <3>2 DEF NoGaps
  <2>6. \A j \in 1..(tid - 1) : j \in DOMAIN th_tbl
    <3>1. CASE n = 0
      BY <2>2, <3>1
    <3>2. CASE n \in DOMAIN th_tbl
      BY <2>2, <2>3, <2>4, <3>2 DEF NoGaps
    <3> QED
      BY <2>3, <3>1, <3>2
  <2> QED
    BY <1>1, <2>2, <2>3, <2>5, <2>6
<1>2. CASE th_free_id # <<>>
  <2>1. Len(th_free_id) \in Nat \ {0}
    BY <1>2
  <2>2. tid = th_free_id[Len(th_free_id)]
    BY <2>1 DEF GetFreeTid
  <2>3. tid \in FreeIds
    BY <2>1, <2>2 DEF FreeIds
  <2> QED
    BY <1>2, <2>1, <2>2, <2>3 DEF FreeStackSound
<1> QED
  BY <1>1, <1>2

(* A sequence without its last element: the free stack after a pop.        *)
LEMMA PopLast ==
    ASSUME NEW S, NEW s \in Seq(S), s # <<>>
    PROVE  /\ SubSeq(s, 1, Len(s) - 1) \in Seq(S)
           /\ Len(SubSeq(s, 1, Len(s) - 1)) = Len(s) - 1
           /\ \A i \in 1..(Len(s) - 1) : SubSeq(s, 1, Len(s) - 1)[i] = s[i]
<1>1. Len(s) \in Nat \ {0} /\ \A i \in 1..Len(s) : s[i] \in S
  BY EmptySeq, ElementOfSeq
<1>2. PICK n \in Nat : n = Len(s) - 1
  BY <1>1
<1>3. \A i \in 1..n : s[i] \in S
  BY <1>1, <1>2
<1>4. /\ SubSeq(s, 1, n) \in Seq(S)
      /\ Len(SubSeq(s, 1, n)) = IF 1 <= n THEN n - 1 + 1 ELSE 0
      /\ \A i \in 1..(n - 1 + 1) : SubSeq(s, 1, n)[i] = s[1 + i - 1]
  <2> HIDE <1>2
  <2> QED
    BY <1>3, SubSeqProperties
<1>5. ASSUME NEW r, r \in Seq(S),
             Len(r) = IF 1 <= n THEN n - 1 + 1 ELSE 0,
             \A i \in 1..(n - 1 + 1) : r[i] = s[1 + i - 1]
      PROVE  Len(r) = n /\ \A i \in 1..n : r[i] = s[i]
  BY <1>5
<1>6. Len(SubSeq(s, 1, n)) = n /\ \A i \in 1..n : SubSeq(s, 1, n)[i] = s[i]
  BY <1>4, <1>5, Zenon
<1> QED
  BY <1>2, <1>4, <1>6, Zenon

(* _create_th keeps the table correct.                                     *)
LEMMA CreateKeepsInv ==
    ASSUME TableInv, NEW th \in Threads, CreateTh(th)
    PROVE  TableInv'
<1>1. PICK tid \in GetFreeTid : UseTid(tid, th)
  BY DEF CreateTh
<1>2. /\ tid \in Tids
      /\ tid \notin DOMAIN th_tbl
      /\ th_free_id # <<>> => tid = th_free_id[Len(th_free_id)]
      /\ th_free_id = <<>> =>
            /\ \A i \in DOMAIN th_tbl : i < tid
            /\ \A j \in 1..(tid - 1) : j \in DOMAIN th_tbl
  BY <1>1, FreshTid
<1>3. th \notin DOMAIN th_to_id
  BY DEF CreateTh
<1>4. /\ DOMAIN th_tbl' = DOMAIN th_tbl \cup {tid}
      /\ th_tbl'[tid] = th
      /\ \A i \in DOMAIN th_tbl : th_tbl'[i] = th_tbl[i]
      /\ DOMAIN th_to_id' = DOMAIN th_to_id \cup {th}
      /\ th_to_id'[th] = tid
      /\ \A x \in DOMAIN th_to_id : th_to_id'[x] = th_to_id[x]
  BY <1>1, <1>2, <1>3 DEF UseTid
<1>5. /\ th_free_id' \in Seq(Tids)
      /\ \A i \in 1..Len(th_free_id') : th_free_id'[i] = th_free_id[i]
      /\ th_free_id = <<>> => th_free_id' = <<>>
      /\ th_free_id # <<>> => Len(th_free_id') = Len(th_free_id) - 1
  <2>1. CASE th_free_id = <<>>
    BY <1>1, <2>1 DEF UseTid, PopFreeId, TableInv, TableType
  <2>2. CASE th_free_id # <<>>
    BY <1>1, <2>2, PopLast DEF UseTid, PopFreeId, TableInv, TableType
  <2> QED
    BY <2>1, <2>2
<1>6. TableType'
  BY <1>2, <1>4, <1>5 DEF TableInv, TableType
<1>7. TwoWay'
  BY <1>2, <1>3, <1>4 DEF TableInv, TwoWay
<1>8. /\ FreeIds' \subseteq FreeIds
      /\ tid \notin FreeIds'
      /\ FreeIds \subseteq FreeIds' \cup {tid}
  <2>1. CASE th_free_id = <<>>
    BY <1>5, <2>1 DEF FreeIds
  <2>2. CASE th_free_id # <<>>
    <3>1. /\ Len(th_free_id) \in Nat \ {0}
          /\ Len(th_free_id') = Len(th_free_id) - 1
          /\ tid = th_free_id[Len(th_free_id)]
      BY <1>2, <1>5, <2>2 DEF TableInv, TableType
    <3>2. FreeIds' \subseteq FreeIds
      BY <1>5, <3>1 DEF FreeIds
    <3>3. tid \notin FreeIds'
      BY <1>5, <3>1 DEF FreeIds, TableInv, FreeStackSound
    <3>4. FreeIds \subseteq FreeIds' \cup {tid}
      BY <1>5, <3>1 DEF FreeIds
    <3> QED
      BY <3>2, <3>3, <3>4
  <2> QED
    BY <2>1, <2>2
<1>9. FreeStackSound'
  <2>1. FreeIds' \cap DOMAIN th_tbl' = {}
    BY <1>4, <1>8 DEF TableInv, FreeStackSound
  <2>2. Len(th_free_id') \in Nat /\ Len(th_free_id) \in Nat
        /\ Len(th_free_id') <= Len(th_free_id)
    <3>1. CASE th_free_id = <<>>
      BY <1>5, <3>1
    <3>2. CASE th_free_id # <<>>
      BY <1>5, <3>2 DEF TableInv, TableType
    <3> QED
      BY <3>1, <3>2
  <2>3. \A i, j \in 1..Len(th_free_id') :
           th_free_id'[i] = th_free_id'[j] => i = j
    BY <1>5, <2>2 DEF TableInv, FreeStackSound
  <2> QED
    BY <2>1, <2>3 DEF FreeStackSound
<1>10. NoGaps'
  <2>1. Issued' = Issued \cup {tid}
    BY <1>4, <1>8 DEF Issued
  <2>2. \A j \in 1..tid : j \in Issued \cup {tid}
    <3>1. CASE th_free_id = <<>>
      BY <1>2, <3>1 DEF Issued, Tids
    <3>2. CASE th_free_id # <<>>
      <4>1. tid \in FreeIds
        BY <1>2, <3>2 DEF FreeIds, TableInv, TableType
      <4> QED
        BY <4>1 DEF Issued, TableInv, NoGaps
    <3> QED
      BY <3>1, <3>2
  <2> QED
    BY <2>1, <2>2 DEF TableInv, NoGaps
<1> QED
  BY <1>6, <1>7, <1>9, <1>10 DEF TableInv

(* _remove_th keeps the table correct.                                     *)
LEMMA RemoveKeepsInv ==
    ASSUME TableInv, NEW tid, RemoveTh(tid)
    PROVE  TableInv'
<1>1. tid \in DOMAIN th_tbl /\ tid \in Tids
  BY DEF RemoveTh, TableInv, TableType
<1>2. /\ DOMAIN th_tbl' = DOMAIN th_tbl \ {tid}
      /\ \A i \in DOMAIN th_tbl' : th_tbl'[i] = th_tbl[i]
      /\ DOMAIN th_to_id' = DOMAIN th_to_id \ {th_tbl[tid]}
      /\ \A x \in DOMAIN th_to_id' : th_to_id'[x] = th_to_id[x]
  BY DEF RemoveTh
<1>3. /\ th_free_id' \in Seq(Tids)
      /\ Len(th_free_id') = Len(th_free_id) + 1
      /\ \A i \in 1..Len(th_free_id) : th_free_id'[i] = th_free_id[i]
      /\ th_free_id'[Len(th_free_id) + 1] = tid
  BY <1>1, AppendProperties DEF RemoveTh, TableInv, TableType
<1>4. Len(th_free_id) \in Nat
  BY DEF TableInv, TableType
<1>5. FreeIds' = FreeIds \cup {tid}
  BY <1>3, <1>4 DEF FreeIds
<1>6. TableType'
  BY <1>2, <1>3 DEF TableInv, TableType
<1>7. TwoWay'
  BY <1>1, <1>2 DEF TableInv, TwoWay
<1>8. FreeStackSound'
  <2>1. FreeIds' \cap DOMAIN th_tbl' = {}
    BY <1>2, <1>5 DEF TableInv, FreeStackSound
  <2>2. \A i \in 1..Len(th_free_id) : th_free_id[i] # tid
    BY <1>1 DEF TableInv, FreeStackSound, FreeIds
  <2>3. ASSUME NEW i \in 1..Len(th_free_id'), NEW j \in 1..Len(th_free_id'),
               th_free_id'[i] = th_free_id'[j]
        PROVE  i = j
    BY <1>3, <1>4, <2>2, <2>3 DEF TableInv, FreeStackSound
  <2> QED
    BY <2>1, <2>3 DEF FreeStackSound
<1>9. NoGaps'
  <2>1. Issued' = Issued
    BY <1>1, <1>2, <1>5 DEF Issued
  <2> QED
    BY <2>1 DEF TableInv, NoGaps
<1> QED
  BY <1>6, <1>7, <1>8, <1>9 DEF TableInv

(* The table is empty at first.                                            *)
LEMMA InitInv == TableInit => TableInv
<1> SUFFICES ASSUME TableInit PROVE TableInv
  OBVIOUS
<1>1. /\ DOMAIN th_tbl = {} /\ DOMAIN th_to_id = {}
      /\ th_free_id = <<>> /\ FreeIds = {}
  BY DEF TableInit, FreeIds
<1> QED
  BY <1>1 DEF TableInv, TableType, TwoWay, FreeStackSound, NoGaps, Issued

(* A step that leaves the table alone keeps its invariant.                 *)
LEMMA StutterInv == TableInv /\ UNCHANGED tableVars => TableInv'
BY DEF tableVars, TableInv, TableType, TwoWay, FreeStackSound, NoGaps, Issued, FreeIds

(* The light-thread table is sound in every reachable state: two-way maps, *)
(* no tid free and in use at once, no gap among the tids issued.           *)
THEOREM TableCorrect == TableSpec => []TableInv
<1>1. TableInv /\ [TableNext]_tableVars => TableInv'
  BY CreateKeepsInv, RemoveKeepsInv, StutterInv DEF TableNext
<1> QED
  BY <1>1, InitInv, PTL DEF TableSpec

(* The tables hold light threads under tids, and the free stack tids,      *)
(* whatever is created and removed (asio.lua:60-98).                       *)
THEOREM TableTypes == TableSpec => []TableType
<1>1. TableInv => TableType
  BY DEF TableInv
<1> QED
  BY <1>1, TableCorrect, PTL

(* th_tbl and th_to_id stay inverse maps (asio.lua:79-98): a tid names one *)
(* light thread and a light thread has one tid.                            *)
THEOREM MapsInverse == TableSpec => []TwoWay
<1>1. TableInv => TwoWay
  BY DEF TableInv
<1> QED
  BY <1>1, TableCorrect, PTL

(* No tid is on the free stack twice, or while a light thread has it       *)
(* (asio.lua:68-98).                                                       *)
THEOREM FreeIdsSound == TableSpec => []FreeStackSound
<1>1. TableInv => FreeStackSound
  BY DEF TableInv
<1> QED
  BY <1>1, TableCorrect, PTL

(* Whichever border Lua takes for #th_tbl, every tid below the largest is  *)
(* in use or will be reused (asio.lua:72).                                 *)
THEOREM TidsWithoutGaps == TableSpec => []NoGaps
<1>1. TableInv => NoGaps
  BY DEF TableInv
<1> QED
  BY <1>1, TableCorrect, PTL

(* A new tid is issued only when the free stack is empty.                  *)
THEOREM TableReusesFirst == TableSpec => ReusesFirst
<1>1. ASSUME TableInv, [TableNext]_tableVars
      PROVE  [Issued' # Issued => th_free_id = <<>>]_tableVars
  <2>1. ASSUME NEW th \in Threads, CreateTh(th), th_free_id # <<>>
        PROVE  Issued' = Issued
    <3>1. PICK tid \in GetFreeTid : UseTid(tid, th)
      BY <2>1 DEF CreateTh
    <3>2. tid = th_free_id[Len(th_free_id)]
      BY <1>1, <2>1, <3>1, FreshTid
    <3>3. Len(th_free_id) \in Nat \ {0}
      BY <1>1, <2>1 DEF TableInv, TableType
    <3>4. /\ Len(th_free_id') = Len(th_free_id) - 1
          /\ \A i \in 1..Len(th_free_id') : th_free_id'[i] = th_free_id[i]
      BY <1>1, <2>1, <3>1, PopLast DEF UseTid, PopFreeId, TableInv, TableType
    <3>5. FreeIds = FreeIds' \cup {tid}
      BY <3>2, <3>3, <3>4 DEF FreeIds
    <3>6. DOMAIN th_tbl' = DOMAIN th_tbl \cup {tid}
      BY <3>1 DEF UseTid
    <3> QED
      BY <3>5, <3>6 DEF Issued
  <2>2. ASSUME NEW tid, RemoveTh(tid)
        PROVE  Issued' = Issued
    <3>1. tid \in Tids /\ th_free_id \in Seq(Tids)
      BY <1>1, <2>2 DEF RemoveTh, TableInv, TableType
    <3>2. /\ Len(th_free_id) \in Nat
          /\ Len(th_free_id') = Len(th_free_id) + 1
          /\ \A i \in 1..Len(th_free_id) : th_free_id'[i] = th_free_id[i]
          /\ th_free_id'[Len(th_free_id) + 1] = tid
      BY <2>2, <3>1, AppendProperties, LenProperties DEF RemoveTh
    <3>3. FreeIds' = FreeIds \cup {tid}
      BY <3>2 DEF FreeIds
    <3>4. DOMAIN th_tbl' = DOMAIN th_tbl \ {tid} /\ tid \in DOMAIN th_tbl
      BY <2>2 DEF RemoveTh
    <3> QED
      BY <3>3, <3>4 DEF Issued
  <2> QED
    BY <1>1, <2>1, <2>2 DEF TableNext
<1> QED
  BY <1>1, TableCorrect, PTL DEF TableSpec, ReusesFirst

(* The table implements IdAllocator: a light thread's tid is its own for   *)
(* as long as it lives, whatever is freed and reused around it.            *)
THEOREM TableImplementsAllocator == TableSpec => ImplementsAllocator
<1>1. TableInit => Allocator!Init
  BY DEF TableInit, Allocator!Init
<1>2. ASSUME TableInv, [TableNext]_tableVars
      PROVE  [Allocator!Next]_th_to_id
  <2>1. ASSUME NEW th \in Threads, CreateTh(th)
        PROVE  Allocator!Allocate(th)
    <3>1. PICK tid \in GetFreeTid : UseTid(tid, th)
      BY <2>1 DEF CreateTh
    <3>2. tid \in Tids /\ tid \notin DOMAIN th_tbl
      BY <1>2, <3>1, FreshTid
    <3>3. tid \notin Allocator!TakenIds
      BY <1>2, <3>2 DEF Allocator!TakenIds, TableInv, TwoWay
    <3> QED
      BY <2>1, <3>1, <3>2, <3>3 DEF CreateTh, UseTid, Allocator!Allocate, Tids
  <2>2. ASSUME NEW tid \in DOMAIN th_tbl, RemoveTh(tid)
        PROVE  th_tbl[tid] \in Threads /\ Allocator!Release(th_tbl[tid])
    BY <1>2, <2>2 DEF RemoveTh, Allocator!Release, TableInv, TableType, TwoWay
  <2> QED
    BY <1>2, <2>1, <2>2 DEF TableNext, Allocator!Next, tableVars
<1> QED
  BY <1>1, <1>2, TableCorrect, PTL DEF TableSpec, ImplementsAllocator, Allocator!Spec
=============================================================================
