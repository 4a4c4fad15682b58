----------------------------- MODULE CallsProofs -----------------------------
(***************************************************************************)
(* Proofs about what the channels keep of their calls.                     *)
(*                                                                         *)
(* CDataHandleAdmin, for every capacity: the free list holds exactly the   *)
(* entries not in use, the count is exact, and the array implements the    *)
(* abstract HandleSet.                                                     *)
(*                                                                         *)
(* The list of PLCIs, for any channels and calls: an element counts its    *)
(* bits, so that deleting it forgets no call but the one freed, and a call *)
(* whose claim nobody else freed has one channel.                          *)
(***************************************************************************)
EXTENDS DataHandle, PlciList, FiniteSetTheorems, TLAPS

-----------------------------------------------------------------------------
(* The handles of the blocks that are sent                                 *)

(* The inductive invariant.  FreeListExact alone is not inductive: popping *)
(* the head leaves the rest of the chain only if no link is shared.        *)
IInv == TypeOK /\ FreeListExact /\ NoSharedLink /\ CountExact

-----------------------------------------------------------------------------
(* Facts about chains                                                      *)

(* A chain is itself closed: it holds its head and every successor.        *)
LEMMA ChainClosed ==
  ASSUME NEW head \in 0 .. MaxEntries, NEW nx \in [Handle -> 0 .. MaxEntries]
  PROVE  Chain(head, nx) \in SUBSET Link /\ Closed(head, nx, Chain(head, nx))
<1> DEFINE C == Chain(head, nx)
<1>1. C \subseteq Link /\ \A i \in Link : i - 1 \in Handle
  BY DataHandleAssumption DEF Chain, Link, Handle
<1>2. head # 0 => head \in C
  <2>1. SUFFICES ASSUME head # 0 PROVE head \in C
    OBVIOUS
  <2>2. head \in Link
    BY <2>1, DataHandleAssumption DEF Link
  <2>3. ASSUME NEW S \in SUBSET Link, Closed(head, nx, S)
        PROVE  head \in S
    BY <2>1, <2>3 DEF Closed
  <2> QED
    BY <2>2, <2>3 DEF Chain
<1>3. ASSUME NEW i \in C, nx[i - 1] # 0
      PROVE  nx[i - 1] \in C
  <2>1. nx[i - 1] \in Link
    BY <1>1, <1>3, DataHandleAssumption DEF Link
  <2>2. ASSUME NEW S \in SUBSET Link, Closed(head, nx, S)
        PROVE  nx[i - 1] \in S
    BY <1>3, <2>2 DEF Chain, Closed
  <2> QED
    BY <2>1, <2>2 DEF Chain
<1> QED
  BY <1>1, <1>2, <1>3 DEF Closed

(* A chain lies inside every closed set.                                   *)
LEMMA ChainLeast ==
  ASSUME NEW head, NEW nx, NEW S \in SUBSET Link, Closed(head, nx, S)
  PROVE  Chain(head, nx) \subseteq S
BY DEF Chain

(* New takes the head off: the chain loses that link and nothing else.     *)
LEMMA PopChain ==
  ASSUME NEW head \in Link, NEW nx \in [Handle -> 0 .. MaxEntries],
         \A h \in Handle : nx[h] # head
  PROVE  Chain(nx[head - 1], [nx EXCEPT ![head - 1] = 0])
           = Chain(head, nx) \ {head}
<1> DEFINE new == [nx EXCEPT ![head - 1] = 0]
           tail == nx[head - 1]
           C == Chain(head, nx)
<1>0. /\ head - 1 \in Handle /\ tail \in 0 .. MaxEntries
      /\ head \in 0 .. MaxEntries /\ head # 0
      /\ new \in [Handle -> 0 .. MaxEntries]
      /\ \A i \in Link : i - 1 \in Handle
      /\ \A i \in Link : i # head => new[i - 1] = nx[i - 1]
      /\ new[head - 1] = 0
  <2>1. \A i \in Link : i - 1 \in Handle /\ i \in 0 .. MaxEntries /\ i # 0
    BY DataHandleAssumption, SMTT(30) DEF Link, Handle
  <2>2. 0 \in 0 .. MaxEntries
    BY DataHandleAssumption
  <2>3. new \in [Handle -> 0 .. MaxEntries] /\ tail \in 0 .. MaxEntries
    BY <2>1, <2>2
  <2>4. ASSUME NEW i \in Link, i # head
        PROVE  new[i - 1] = nx[i - 1]
    <3>1. i - 1 # head - 1
      BY <2>4, DataHandleAssumption DEF Link
    <3> QED
      BY <2>1, <3>1
  <2>5. new[head - 1] = 0
    BY <2>1
  <2> QED
    BY <2>1, <2>3, <2>4, <2>5
<1>1. C \in SUBSET Link /\ Closed(head, nx, C)
  BY <1>0, ChainClosed
<1>2. Chain(tail, new) \subseteq C \ {head}
  <2>1. tail # 0 => tail \in C \ {head}
    BY <1>0, <1>1 DEF Closed
  <2>2. ASSUME NEW i \in C \ {head}, new[i - 1] # 0
        PROVE  new[i - 1] \in C \ {head}
    <3>1. i \in Link /\ i - 1 \in Handle /\ new[i - 1] = nx[i - 1]
      BY <1>0, <1>1, <2>2
    <3>2. nx[i - 1] \in C /\ nx[i - 1] # head
      BY <1>1, <2>2, <3>1 DEF Closed
    <3> QED
      BY <3>1, <3>2
  <2>3. Closed(tail, new, C \ {head})
    BY <2>1, <2>2 DEF Closed
  <2> QED
    BY <2>3, <1>1, ChainLeast
<1>3. ASSUME NEW i \in C \ {head}, NEW S \in SUBSET Link, Closed(tail, new, S)
      PROVE  i \in S
  <2>1. ASSUME NEW j \in S \cup {head}, nx[j - 1] # 0
        PROVE  nx[j - 1] \in S \cup {head}
    <3>1. CASE j = head
      BY <1>3, <2>1, <3>1 DEF Closed
    <3>2. CASE j # head
      BY <1>0, <1>3, <2>1, <3>2 DEF Closed
    <3> QED
      BY <3>1, <3>2
  <2>2. S \cup {head} \in SUBSET Link /\ Closed(head, nx, S \cup {head})
    BY <1>0, <2>1 DEF Closed
  <2> QED
    BY <2>2, <1>3, ChainLeast
<1>4. C \ {head} \subseteq Chain(tail, new)
  BY <1>1, <1>3 DEF Chain
<1> QED
  BY <1>2, <1>4

(* Free and DelNextEntry push an entry that is off the chain.              *)
LEMMA PushChain ==
  ASSUME NEW head \in 0 .. MaxEntries, NEW nx \in [Handle -> 0 .. MaxEntries],
         NEW h \in Handle, h + 1 \notin Chain(head, nx)
  PROVE  Chain(h + 1, [nx EXCEPT ![h] = head]) = Chain(head, nx) \cup {h + 1}
<1> DEFINE new == [nx EXCEPT ![h] = head]
           C == Chain(head, nx)
<1>0. /\ h + 1 \in Link /\ h + 1 # 0
      /\ new \in [Handle -> 0 .. MaxEntries]
      /\ \A i \in Link : i - 1 \in Handle
      /\ \A i \in Link : i # h + 1 => new[i - 1] = nx[i - 1]
      /\ new[(h + 1) - 1] = head
  BY DataHandleAssumption DEF Link, Handle
<1>1. C \in SUBSET Link /\ Closed(head, nx, C)
  BY ChainClosed
<1>2. Chain(h + 1, new) \subseteq C \cup {h + 1}
  <2>1. Closed(h + 1, new, C \cup {h + 1})
    BY <1>0, <1>1 DEF Closed
  <2> QED
    BY <2>1, <1>0, <1>1, ChainLeast
<1>3. ASSUME NEW S \in SUBSET Link, Closed(h + 1, new, S)
      PROVE  C \cup {h + 1} \subseteq S
  <2>1. h + 1 \in S
    BY <1>0, <1>3 DEF Closed
  <2>2. Closed(head, nx, S \cap C)
    <3>1. head # 0 => head \in S
      BY <1>0, <1>3, <2>1 DEF Closed
    <3>2. \A i \in S \cap C : nx[i - 1] # 0 => nx[i - 1] \in S \cap C
      BY <1>0, <1>1, <1>3 DEF Closed
    <3> QED
      BY <3>1, <3>2, <1>1 DEF Closed
  <2> QED
    BY <2>1, <2>2, ChainLeast
<1>4. C \cup {h + 1} \subseteq Chain(h + 1, new)
  BY <1>0, <1>1, <1>3 DEF Chain
<1> QED
  BY <1>2, <1>4

(* Least element of a set of links, from the well-foundedness of strict    *)
(* inclusion among the initial segments 1 .. k.                            *)
LEMMA LeastLink ==
  ASSUME NEW T \in SUBSET Link, T # {}
  PROVE  \E m \in T : \A k \in T : m <= k
<1> DEFINE Segments == {1 .. k : k \in T}
<1>1. IsFiniteSet(Link)
  BY FS_Interval, DataHandleAssumption DEF Link
<1>2. Segments \subseteq FiniteSubsetsOf(Link)
  <2>1. ASSUME NEW k \in T  PROVE 1 .. k \in SUBSET Link
    BY <2>1, DataHandleAssumption DEF Link
  <2> QED
    BY <2>1, <1>1, FS_FiniteSubsetsOfFinite
<1>3. IsWellFoundedOn(StrictSubsetOrdering(Link), FiniteSubsetsOf(Link))
  BY FS_StrictSubsetOrderingWellFounded
<1>4. PICK x \in Segments :
        \A y \in Segments : <<y, x>> \notin StrictSubsetOrdering(Link)
  <2>1. Segments # {}
    OBVIOUS
  <2> HIDE DEF Segments
  <2> QED
    BY <1>2, <1>3, <2>1, WFMin
<1>5. PICK m \in T : x = 1 .. m
  OBVIOUS
<1>6. ASSUME NEW k \in T, ~(m <= k)
      PROVE  FALSE
  <2>1. k \in Nat /\ m \in Nat /\ k < m /\ 0 < k
    BY <1>6, DataHandleAssumption DEF Link
  <2>2. 1 .. k \subseteq 1 .. m /\ m \in 1 .. m /\ m \notin 1 .. k
    BY <2>1
  <2>3. <<1 .. k, 1 .. m>> \in StrictSubsetOrdering(Link)
    <3>1. 1 .. k \in SUBSET Link /\ 1 .. m \in SUBSET Link
      BY DataHandleAssumption DEF Link
    <3> QED
      BY <2>2, <3>1 DEF StrictSubsetOrdering
  <2> QED
    BY <1>4, <1>5, <2>3
<1> QED
  BY <1>6

-----------------------------------------------------------------------------
(* The inductive invariant                                                 *)

(* The links InitEntries sets are links or the mark of the end.            *)
LEMMA InitNext ==
  Init => nextOne \in 0 .. MaxEntries /\ next \in [Handle -> 0 .. MaxEntries]
<1> SUFFICES ASSUME Init
             PROVE  nextOne \in 0 .. MaxEntries /\ next \in [Handle -> 0 .. MaxEntries]
  OBVIOUS
<1>1. nextOne \in 0 .. MaxEntries
  BY DataHandleAssumption, SMTT(30) DEF Init
<1>2. \A h \in Handle :
        (IF h = MaxEntries - 1 THEN 0 ELSE h + 2) \in 0 .. MaxEntries
  BY DataHandleAssumption, SMTT(30) DEF Handle
<1>3. next = [h \in Handle |-> IF h = MaxEntries - 1 THEN 0 ELSE h + 2]
  BY DEF Init
<1> QED
  BY <1>1, <1>2, <1>3

(* The chain InitEntries builds visits every entry.                        *)
LEMMA InitChain ==
  Init => FreeList = Link
<1> SUFFICES ASSUME Init PROVE FreeList = Link
  OBVIOUS
<1>1. nextOne \in 0 .. MaxEntries /\ next \in [Handle -> 0 .. MaxEntries]
  BY InitNext
<1>2. ASSUME NEW i \in Link, i < MaxEntries
      PROVE  next[i - 1] = i + 1
  <2>1. i - 1 \in Handle /\ i - 1 # MaxEntries - 1 /\ (i - 1) + 2 = i + 1
    BY <1>2, DataHandleAssumption DEF Handle, Link
  <2>2. next = [h \in Handle |-> IF h = MaxEntries - 1 THEN 0 ELSE h + 2]
    BY DEF Init
  <2> QED
    BY <2>1, <2>2
<1>3. ASSUME NEW S \in SUBSET Link, Closed(nextOne, next, S), Link \ S # {}
      PROVE  FALSE
  <2>1. PICK m \in Link \ S : \A k \in Link \ S : m <= k
    BY <1>3, LeastLink
  <2>2. 1 \in S
    BY <1>3 DEF Closed, Init
  <2>3. m - 1 \in Link /\ m - 1 \in S /\ m - 1 < MaxEntries
    BY <2>1, <2>2, DataHandleAssumption DEF Link
  <2>4. next[(m - 1) - 1] = m
    BY <1>2, <2>1, <2>3 DEF Link
  <2> QED
    BY <1>3, <2>1, <2>3, <2>4 DEF Closed, Link
<1> QED
  BY <1>3 DEF FreeList, Chain

LEMMA InitIInv == Init => IInv
<1> SUFFICES ASSUME Init PROVE IInv
  OBVIOUS
<1>1. TypeOK
  <2>1. nextOne \in 0 .. MaxEntries /\ next \in [Handle -> 0 .. MaxEntries]
    BY InitNext
  <2>2. inuse \in [Handle -> BOOLEAN] /\ pointer \in [Handle -> Data \cup {NoData}]
    BY DEF Init
  <2>3. curEntries \in 0 .. MaxEntries /\ 0 \in Handle
    BY DataHandleAssumption, SMTT(30) DEF Init, Handle
  <2>4. ret \in [ok : BOOLEAN, handle : Handle, data : Data \cup {NoData}]
    BY <2>3 DEF Init
  <2> QED
    BY <2>1, <2>2, <2>3, <2>4 DEF TypeOK
<1>2. InUse = {}
  BY DEF Init, InUse
<1>3. FreeListExact
  <2>1. Link = {h + 1 : h \in Handle}
    <3>1. \A i \in Link : i - 1 \in Handle /\ i = (i - 1) + 1
      BY DataHandleAssumption DEF Link, Handle
    <3>2. \A h \in Handle : h + 1 \in Link
      BY DataHandleAssumption DEF Link, Handle
    <3> QED
      BY <3>1, <3>2
  <2> QED
    BY <1>2, <2>1, InitChain DEF FreeListExact
<1>4. NoSharedLink
  <2>0. next = [h \in Handle |-> IF h = MaxEntries - 1 THEN 0 ELSE h + 2]
    BY DEF Init
  <2>1. \A h \in Handle : /\ h \in Nat
                         /\ next[h] = IF h = MaxEntries - 1 THEN 0 ELSE h + 2
    BY <2>0, DataHandleAssumption, SMTT(30) DEF Handle
  <2>2. nextOne = 1
    BY DEF Init
  <2> QED
    BY <1>2, <2>1, <2>2 DEF NoSharedLink
<1>5. CountExact
  BY <1>2, FS_EmptySet DEF Init, CountExact
<1> QED
  BY <1>1, <1>3, <1>4, <1>5 DEF IInv

(* A link is on the chain exactly if its entry is not in use.              *)
LEMMA OnChain ==
  ASSUME IInv, NEW h \in Handle
  PROVE  h + 1 \in FreeList <=> ~inuse[h]
<1>1. \A g \in Handle : g + 1 = h + 1 => g = h
  BY DataHandleAssumption DEF Handle
<1> QED
  BY <1>1 DEF IInv, FreeListExact, InUse

(* The head is a free entry, and the chain holds it.                       *)
LEMMA HeadFree ==
  ASSUME IInv, nextOne # 0
  PROVE  /\ nextOne - 1 \in Handle /\ nextOne \in FreeList
         /\ ~inuse[nextOne - 1]
<1>1. nextOne \in 0 .. MaxEntries /\ next \in [Handle -> 0 .. MaxEntries]
  BY DEF IInv, TypeOK
<1>2. nextOne \in FreeList
  BY <1>1, ChainClosed DEF FreeList, Closed
<1>3. nextOne - 1 \in Handle /\ (nextOne - 1) + 1 = nextOne
  BY <1>1, DataHandleAssumption DEF Handle
<1> QED
  BY <1>2, <1>3, OnChain

(* Counting: one more entry in use, one fewer.                             *)
LEMMA CountMore ==
  ASSUME CountExact, NEW h \in Handle, h \notin InUse, InUse' = InUse \cup {h},
         curEntries' = curEntries + 1
  PROVE  CountExact'
<1>1. IsFiniteSet(Handle)
  BY FS_Interval, DataHandleAssumption DEF Handle
<1>2. IsFiniteSet(InUse)
  BY <1>1, FS_Subset DEF InUse
<1>3. Cardinality(InUse \cup {h}) = Cardinality(InUse) + 1
  BY <1>2, FS_AddElement
<1> QED
  BY <1>3 DEF CountExact

LEMMA CountLess ==
  ASSUME CountExact, NEW h \in InUse, InUse' = InUse \ {h},
         curEntries' = curEntries - 1
  PROVE  CountExact' /\ curEntries' \in Nat
<1>1. IsFiniteSet(Handle)
  BY FS_Interval, DataHandleAssumption DEF Handle
<1>2. IsFiniteSet(InUse) /\ IsFiniteSet(InUse')
  BY <1>1, FS_Subset DEF InUse
<1>3. Cardinality(InUse \ {h}) = Cardinality(InUse) - 1
  BY <1>2, FS_RemoveElement
<1>4. Cardinality(InUse') \in Nat
  BY <1>2, FS_CardinalityType
<1> QED
  BY <1>3, <1>4 DEF CountExact

(* New with a free entry: the head moves from the chain into use.          *)
LEMMA NewStep ==
  ASSUME IInv, NEW d \in Data, New(d), nextOne # 0
  PROVE  IInv'
<1> DEFINE get == nextOne - 1
<1>0. /\ get \in Handle /\ ~inuse[get] /\ get + 1 = nextOne
      /\ nextOne \in Link /\ nextOne \in FreeList
  BY HeadFree DEF IInv, TypeOK, Link
<1>1. /\ nextOne' = next[get]
      /\ next' = [next EXCEPT ![get] = 0]
      /\ inuse' = [inuse EXCEPT ![get] = TRUE]
      /\ pointer' = [pointer EXCEPT ![get] = d]
      /\ curEntries' = curEntries + 1
      /\ ret' = [ret EXCEPT !.ok = TRUE, !.handle = get]
  BY DEF New
<1>2. TypeOK'
  <2>1. ret' \in [ok : BOOLEAN, handle : Handle, data : Data \cup {NoData}]
    BY <1>0, <1>1 DEF IInv, TypeOK
  <2>2. nextOne' \in 0 .. MaxEntries /\ curEntries' \in Nat
    BY <1>0, <1>1 DEF IInv, TypeOK
  <2>3. next' \in [Handle -> 0 .. MaxEntries]
    <3>1. 0 \in 0 .. MaxEntries
      BY DataHandleAssumption
    <3> QED
      BY <1>1, <3>1 DEF IInv, TypeOK
  <2>4. /\ inuse' \in [Handle -> BOOLEAN]
        /\ pointer' \in [Handle -> Data \cup {NoData}]
    BY <1>0, <1>1 DEF IInv, TypeOK
  <2> QED
    BY <2>1, <2>2, <2>3, <2>4 DEF TypeOK
<1>3. InUse' = InUse \cup {get} /\ get \notin InUse
  BY <1>0, <1>1 DEF InUse, IInv, TypeOK
<1>4. FreeListExact'
  <2>1. \A h \in Handle : next[h] # nextOne
    BY <1>0 DEF IInv, NoSharedLink, Link
  <2>2. Chain(next[get], [next EXCEPT ![get] = 0]) = FreeList \ {nextOne}
    BY <1>0, <2>1, PopChain DEF IInv, TypeOK, FreeList
  <2>3. FreeList' = FreeList \ {nextOne}
    BY <1>1, <2>2 DEF FreeList
  <2>4. \A h \in Handle : h + 1 = nextOne <=> h = get
    BY <1>0, DataHandleAssumption DEF Handle, Link
  <2> QED
    BY <1>3, <2>3, <2>4 DEF IInv, FreeListExact
<1>5. NoSharedLink'
  <2>1. \A h \in Handle : next'[h] = IF h = get THEN 0 ELSE next[h]
    BY <1>1 DEF IInv, TypeOK
  <2> QED
    BY <1>0, <1>1, <1>3, <2>1 DEF IInv, NoSharedLink
<1>6. CountExact'
  BY <1>0, <1>1, <1>3, CountMore DEF IInv
<1> QED
  BY <1>2, <1>4, <1>5, <1>6 DEF IInv

(* Free or DelNextEntry of an entry in use: it becomes the new head.       *)
LEMMA GiveBackStep ==
  ASSUME IInv, NEW h \in InUse, GiveBack(h)
  PROVE  IInv'
<1>0. h \in Handle /\ inuse[h] /\ h + 1 \notin FreeList /\ h + 1 # 0
  BY OnChain, DataHandleAssumption DEF InUse, Handle
<1>1. /\ pointer' = [pointer EXCEPT ![h] = NoData]
      /\ inuse' = [inuse EXCEPT ![h] = FALSE]
      /\ next' = [next EXCEPT ![h] = nextOne]
      /\ nextOne' = h + 1
      /\ curEntries' = curEntries - 1
      /\ ret' = [ret EXCEPT !.ok = TRUE, !.data = pointer[h]]
  BY DEF GiveBack
<1>2. InUse' = InUse \ {h}
  BY <1>0, <1>1 DEF InUse, IInv, TypeOK
<1>3. CountExact' /\ curEntries' \in Nat
  BY <1>1, <1>2, CountLess DEF IInv
<1>4. TypeOK'
  <2>1. h + 1 \in 0 .. MaxEntries
    BY <1>0, DataHandleAssumption DEF Handle
  <2> QED
    BY <1>0, <1>1, <1>3, <2>1 DEF IInv, TypeOK
<1>5. FreeListExact'
  <2>1. Chain(h + 1, [next EXCEPT ![h] = nextOne]) = FreeList \cup {h + 1}
    BY <1>0, PushChain DEF IInv, TypeOK, FreeList
  <2>2. FreeList' = FreeList \cup {h + 1}
    BY <1>1, <2>1 DEF FreeList
  <2> QED
    BY <1>0, <1>2, <2>2 DEF IInv, FreeListExact
<1>6. NoSharedLink'
  <2>1. \A g \in Handle : next'[g] = IF g = h THEN nextOne ELSE next[g]
    BY <1>1 DEF IInv, TypeOK
  <2>2. \A g \in Handle : next[g] # 0 => next[g] # h + 1
    <3>1. ASSUME NEW g \in Handle, next[g] # 0, next[g] = h + 1
          PROVE  FALSE
      <4>1. g + 1 \in FreeList
        BY <3>1, OnChain DEF IInv, NoSharedLink, InUse
      <4>2. next[(g + 1) - 1] = h + 1
        BY <3>1, DataHandleAssumption DEF Handle
      <4>3. Closed(nextOne, next, FreeList)
        BY ChainClosed DEF IInv, TypeOK, FreeList
      <4> QED
        BY <1>0, <4>1, <4>2, <4>3 DEF Closed
    <3> QED
      BY <3>1
  <2>3. nextOne # h + 1
    BY <1>0, HeadFree
  <2> QED
    BY <1>0, <1>1, <1>2, <2>1, <2>2, <2>3 DEF IInv, NoSharedLink, InUse
<1> QED
  BY <1>3, <1>4, <1>5, <1>6 DEF IInv

(* A refused call only records its result.                                 *)
LEMMA RefusedStep ==
  ASSUME IInv, Refused
  PROVE  IInv'
<1>1. /\ ret' = [ret EXCEPT !.ok = FALSE]
      /\ UNCHANGED <<nextOne, next, inuse, pointer, curEntries>>
  BY DEF Refused
<1>2. TypeOK'
  BY <1>1 DEF IInv, TypeOK
<1>3. InUse' = InUse /\ FreeList' = FreeList
  BY <1>1 DEF InUse, FreeList
<1> QED
  BY <1>1, <1>2, <1>3
  DEF IInv, FreeListExact, NoSharedLink, CountExact

(* Entries DelNextEntry may take are in use, by FreeListExact.             *)
LEMMA OffChainInUse ==
  ASSUME IInv, NEW i \in Link \ FreeList
  PROVE  i - 1 \in InUse
<1>1. i - 1 \in Handle /\ (i - 1) + 1 = i
  BY DataHandleAssumption DEF Link, Handle
<1> QED
  BY <1>1, OnChain DEF InUse, IInv, TypeOK

LEMMA NextIInv == IInv /\ [Next]_vars => IInv'
<1> SUFFICES ASSUME IInv, [Next]_vars PROVE IInv'
  OBVIOUS
<1>1. ASSUME NEW d \in Data, New(d)
      PROVE  IInv'
  <2>1. CASE nextOne # 0
    BY <1>1, <2>1, NewStep
  <2>2. CASE nextOne = 0
    BY <1>1, <2>2, RefusedStep DEF New, Refused
  <2> QED
    BY <2>1, <2>2
<1>2. ASSUME NEW h \in HandleArg, Free(h)
      PROVE  IInv'
  BY <1>2, GiveBackStep, RefusedStep DEF Free, InUse
<1>3. CASE DelNextEntry
  BY <1>3, OffChainInUse, GiveBackStep, RefusedStep DEF DelNextEntry
<1>4. CASE UNCHANGED vars
  BY <1>4
  DEF vars, IInv, TypeOK, FreeListExact, NoSharedLink, CountExact, InUse, FreeList
<1> QED
  BY <1>1, <1>2, <1>3, <1>4 DEF Next

(* In every reachable state the variables have their types and every link  *)
(* stays inside the array.                                                 *)
THEOREM TypeCorrect == Spec => []TypeOK
<1>1. IInv => TypeOK
  BY DEF IInv
<1> QED
  BY <1>1, InitIInv, NextIInv, PTL DEF Spec

(* For every capacity and every sequence of New, Free and DelNextEntry the *)
(* chain holds exactly the entries not in use, so New fails only when all  *)
(* are out and DelNextEntry takes only entries that are.                   *)
THEOREM FreeListCorrect == Spec => []FreeListExact
<1>1. IInv => FreeListExact
  BY DEF IInv
<1> QED
  BY <1>1, InitIInv, NextIInv, PTL DEF Spec

(* m_curEntries is always the number of entries in use.                    *)
THEOREM CountCorrect == Spec => []CountExact
<1>1. IInv => CountExact
  BY DEF IInv
<1> QED
  BY <1>1, InitIInv, NextIInv, PTL DEF Spec

(* No link is shared, nothing points at the head, used entries are         *)
(* unlinked.                                                               *)
THEOREM LinksCorrect == Spec => []NoSharedLink
<1>1. IInv => NoSharedLink
  BY DEF IInv
<1> QED
  BY <1>1, InitIInv, NextIInv, PTL DEF Spec

-----------------------------------------------------------------------------
(* Refinement                                                              *)

LEMMA RefineInit == Init => Abs!Init
BY DEF Init, Abs!Init, InUse

LEMMA RefineNew ==
  ASSUME IInv, NEW d \in Data, New(d)
  PROVE  Abs!New(d)
<1>1. CASE nextOne # 0
  <2> DEFINE get == nextOne - 1
  <2>1. get \in Handle /\ ~inuse[get]
    BY <1>1, HeadFree
  <2>2. /\ inuse' = [inuse EXCEPT ![get] = TRUE]
        /\ pointer' = [pointer EXCEPT ![get] = d]
        /\ ret' = [ret EXCEPT !.ok = TRUE, !.handle = get]
    BY <1>1 DEF New
  <2>3. InUse' = InUse \cup {get} /\ get \notin InUse
    BY <2>1, <2>2 DEF InUse, IInv, TypeOK
  <2>4. \A h \in InUse' : pointer'[h] = IF h = get THEN d ELSE pointer[h]
    BY <2>1, <2>2 DEF InUse, IInv, TypeOK
  <2> HIDE DEF get
  <2> QED
    BY <2>1, <2>2, <2>3, <2>4 DEF Abs!New, Abs!Out, Abs!Handle, Handle
<1>2. CASE nextOne = 0
  <2>1. FreeList = {}
    <3>1. Closed(nextOne, next, {})
      BY <1>2 DEF Closed
    <3> QED
      BY <3>1, ChainLeast DEF FreeList
  <2>2. InUse = Handle
    BY <2>1, OnChain DEF InUse, IInv, TypeOK
  <2>3. ret' = [ret EXCEPT !.ok = FALSE] /\ UNCHANGED <<inuse, pointer>>
    BY <1>2 DEF New
  <2>4. InUse' = InUse
    BY <2>3 DEF InUse
  <2> QED
    BY <2>2, <2>3, <2>4 DEF Abs!New, Abs!Out, Abs!Handle, Handle
<1> QED
  BY <1>1, <1>2

LEMMA RefineGiveBack ==
  ASSUME IInv, NEW h \in InUse, GiveBack(h)
  PROVE  /\ [k \in InUse |-> pointer[k]]' = Abs!Without(h)
         /\ ret' = [ret EXCEPT !.ok = TRUE, !.data = pointer[h]]
<1>1. /\ pointer' = [pointer EXCEPT ![h] = NoData]
      /\ inuse' = [inuse EXCEPT ![h] = FALSE]
      /\ ret' = [ret EXCEPT !.ok = TRUE, !.data = pointer[h]]
  BY DEF GiveBack
<1>2. InUse' = InUse \ {h}
  BY <1>1 DEF InUse, IInv, TypeOK
<1>3. \A k \in InUse' : pointer'[k] = pointer[k]
  BY <1>1, <1>2 DEF InUse, IInv, TypeOK
<1> QED
  BY <1>1, <1>2, <1>3 DEF Abs!Without, Abs!Out

LEMMA RefineFree ==
  ASSUME IInv, NEW h \in HandleArg, Free(h)
  PROVE  Abs!Free(h)
<1>1. CASE h \in InUse
  <2>1. GiveBack(h)
    BY <1>1 DEF Free, InUse
  <2> QED
    BY <1>1, <2>1, RefineGiveBack DEF Abs!Free, Abs!Out
<1>2. CASE h \notin InUse
  <2>1. ret' = [ret EXCEPT !.ok = FALSE] /\ UNCHANGED <<inuse, pointer>>
    BY <1>2 DEF Free, Refused, InUse
  <2>2. InUse' = InUse
    BY <2>1 DEF InUse
  <2> QED
    BY <1>2, <2>1, <2>2 DEF Abs!Free, Abs!Out
<1> QED
  BY <1>1, <1>2

LEMMA RefineDel ==
  ASSUME IInv, DelNextEntry
  PROVE  Abs!DelNextEntry
<1>1. ASSUME NEW i \in Link \ FreeList, GiveBack(i - 1)
      PROVE  Abs!DelNextEntry
  <2>1. i - 1 \in InUse
    BY OffChainInUse
  <2> QED
    BY <1>1, <2>1, RefineGiveBack DEF Abs!DelNextEntry, Abs!Out
<1>2. ASSUME curEntries = 0 \/ FreeList = Link, Refused
      PROVE  Abs!DelNextEntry
  <2>1. InUse = {}
    <3>1. CASE curEntries = 0
      <4>1. IsFiniteSet(Handle)
        BY FS_Interval, DataHandleAssumption DEF Handle
      <4>2. IsFiniteSet(InUse)
        BY <4>1, FS_Subset DEF InUse
      <4> QED
        BY <3>1, <4>2, FS_EmptySet DEF IInv, CountExact
    <3>2. CASE FreeList = Link
      <4>1. \A h \in Handle : h + 1 \in FreeList
        BY <3>2, DataHandleAssumption DEF Handle, Link
      <4> QED
        BY <4>1, OnChain DEF InUse
    <3> QED
      BY <1>2, <3>1, <3>2
  <2>2. ret' = [ret EXCEPT !.ok = FALSE] /\ UNCHANGED <<inuse, pointer>>
    BY <1>2 DEF Refused
  <2>3. InUse' = InUse
    BY <2>2 DEF InUse
  <2> QED
    BY <2>1, <2>2, <2>3 DEF Abs!DelNextEntry, Abs!Out
<1> QED
  BY <1>1, <1>2 DEF DelNextEntry

LEMMA RefineNext == IInv /\ [Next]_vars => [Abs!Next]_(Abs!vars)
<1> SUFFICES ASSUME IInv, [Next]_vars PROVE [Abs!Next]_(Abs!vars)
  OBVIOUS
<1>1. ASSUME NEW d \in Data, New(d)
      PROVE  Abs!Next
  BY <1>1, RefineNew DEF Abs!Next
<1>2. ASSUME NEW h \in HandleArg, Free(h)
      PROVE  Abs!Next
  BY <1>2, RefineFree DEF Abs!Next, Abs!HandleArg, HandleArg
<1>3. CASE DelNextEntry
  BY <1>3, RefineDel DEF Abs!Next
<1>4. CASE UNCHANGED vars
  <2>1. InUse' = InUse /\ UNCHANGED <<pointer, ret>>
    BY <1>4 DEF vars, InUse
  <2> QED
    BY <2>1 DEF Abs!vars
<1> QED
  BY <1>1, <1>2, <1>3, <1>4 DEF Next

(* For every capacity the linked array implements HandleSet: every call    *)
(* has the result and the effect the abstract handle set allows.           *)
THEOREM Implements == Spec => Refines
<1> QED
  BY InitIInv, NextIInv, RefineInit, RefineNext, PTL
  DEF Spec, Refines, Abs!Spec

-----------------------------------------------------------------------------
(* The claims on incoming calls                                            *)

(* An entry is set only for a call that some channel has: what is freed    *)
(* last leaves none behind when the PLCI is used again.                    *)
EntryOfSome == \A p \in PLCIs : IsSet(p) => \E c \in Channels : plci[c] = p

(* A layer lives as long as its channel has a call.                        *)
CallsHaveLayers == \A c \in Channels : state[c] # "free" => c \in layers

PlciInv == PlciTypeOK /\ CounterExact /\ EntryOfSome /\ CallsHaveLayers /\ SoleClaimElse

-----------------------------------------------------------------------------
LEMMA PlciFacts ==
  /\ \A p \in PLCIs : Cntrl(p) \in Controllers /\ Place(p) \in Places /\ p # 0
  /\ \A p, q \in PLCIs : Cntrl(p) = Cntrl(q) /\ Place(p) = Place(q) => p = q
BY PlciAssumption DEF Controllers, Places

(* Setting an entry sets the bit of its call and no other.                 *)
LEMMA SetEntrySets ==
  ASSUME PlciTypeOK, CounterExact, NEW p \in PLCIs, ~IsSet(p), SetEntry(p)
  PROVE  /\ list' \in [Controllers -> [counter : Nat, field : SUBSET Places]]
         /\ CounterExact'
         /\ \A q \in PLCIs : IsSet(q)' <=> IsSet(q) \/ q = p
<1> DEFINE k == Cntrl(p)
           e == list[k]
           f == [counter |-> e.counter + 1, field |-> e.field \cup {Place(p)}]
<1>1. k \in Controllers /\ Place(p) \in Places
  BY PlciFacts
<1>2. e \in [counter : Nat, field : SUBSET Places]
  BY <1>1 DEF PlciTypeOK
<1>3. f \in [counter : Nat, field : SUBSET Places]
  BY <1>1, <1>2
<1>4. list' = [list EXCEPT ![k] = f]
  BY DEF SetEntry
<1>5. list' \in [Controllers -> [counter : Nat, field : SUBSET Places]]
  BY <1>3, <1>4 DEF PlciTypeOK
<1>6. list'[k] = f /\ \A j \in Controllers : j # k => list'[j] = list[j]
  BY <1>1, <1>4 DEF PlciTypeOK
<1>7. CounterExact'
  <2>1. IsFiniteSet(f.field) /\ f.counter = Cardinality(f.field)
    <3>1. IsFiniteSet(e.field) /\ e.counter = Cardinality(e.field) /\ Place(p) \notin e.field
      BY <1>1 DEF CounterExact, IsSet
    <3>2. IsFiniteSet(e.field \cup {Place(p)})
          /\ Cardinality(e.field \cup {Place(p)}) = Cardinality(e.field) + 1
      BY <3>1, FS_AddElement
    <3> QED
      BY <3>1, <3>2
  <2> QED
    BY <2>1, <1>6 DEF CounterExact
<1>8. ASSUME NEW q \in PLCIs
      PROVE  IsSet(q)' <=> IsSet(q) \/ q = p
  <2>1. Cntrl(q) \in Controllers
    BY PlciFacts
  <2>2. CASE Cntrl(q) # k
    BY <2>1, <2>2, <1>6 DEF IsSet
  <2>3. CASE Cntrl(q) = k
    <3>1. IsSet(q)' <=> Place(q) \in e.field \cup {Place(p)}
      BY <2>3, <1>6 DEF IsSet
    <3>2. Place(q) = Place(p) <=> q = p
      BY <2>3, PlciFacts
    <3> QED
      BY <3>1, <3>2, <2>3 DEF IsSet
  <2> QED
    BY <2>2, <2>3
<1> QED
  BY <1>5, <1>7, <1>8

(* Freeing an entry clears the bit of its call and no other, the deletion  *)
(* of the element included.                                                *)
LEMMA UnsetClears ==
  ASSUME PlciTypeOK, CounterExact, NEW p \in PLCIs, list' = Unset(p)
  PROVE  /\ list' \in [Controllers -> [counter : Nat, field : SUBSET Places]]
         /\ CounterExact'
         /\ \A q \in PLCIs : IsSet(q)' <=> IsSet(q) /\ q # p
<1> DEFINE k == Cntrl(p)
           e == list[k]
           f == IF e.counter = 1 THEN NoElement
                ELSE [counter |-> e.counter - 1, field |-> e.field \ {Place(p)}]
<1>1. k \in Controllers /\ Place(p) \in Places
  BY PlciFacts
<1>2. e \in [counter : Nat, field : SUBSET Places]
  BY <1>1 DEF PlciTypeOK
<1>3. CASE ~IsSet(p)
  <2>1. list' = list
    BY <1>3 DEF Unset
  <2>2. CounterExact' /\ \A q \in PLCIs : IsSet(q)' <=> IsSet(q)
    BY <2>1 DEF CounterExact, IsSet
  <2> QED
    BY <2>1, <2>2, <1>3 DEF PlciTypeOK
<1>4. CASE IsSet(p)
  <2>1. IsFiniteSet(e.field) /\ e.counter = Cardinality(e.field) /\ Place(p) \in e.field
    BY <1>1, <1>4 DEF CounterExact, IsSet
  <2>2. /\ IsFiniteSet(e.field \ {Place(p)})
        /\ Cardinality(e.field \ {Place(p)}) = Cardinality(e.field) - 1
    BY <2>1, FS_RemoveElement
  <2>3. f.field = e.field \ {Place(p)} /\ f.counter = Cardinality(f.field)
        /\ IsFiniteSet(f.field) /\ f.counter \in Nat
    <3>1. Cardinality(e.field \ {Place(p)}) \in Nat
      BY <2>2, FS_CardinalityType
    <3>2. CASE e.counter = 1
      <4>1. e.field \ {Place(p)} = {}
        BY <2>1, <2>2, <3>2, FS_EmptySet
      <4> QED
        BY <4>1, <3>2, FS_EmptySet DEF NoElement
    <3>3. CASE e.counter # 1
      BY <3>3, <2>1, <2>2, <3>1
    <3> QED
      BY <3>2, <3>3
  <2>4. f \in [counter : Nat, field : SUBSET Places]
    BY <1>2, <2>3 DEF NoElement
  <2>5. list' = [list EXCEPT ![k] = f]
    BY <1>4 DEF Unset
  <2>6. list'[k] = f /\ \A j \in Controllers : j # k => list'[j] = list[j]
    BY <1>1, <2>5 DEF PlciTypeOK
  <2>7. CounterExact'
    BY <2>3, <2>6 DEF CounterExact
  <2>8. ASSUME NEW q \in PLCIs
        PROVE  IsSet(q)' <=> IsSet(q) /\ q # p
    <3>1. Cntrl(q) \in Controllers
      BY PlciFacts
    <3>2. CASE Cntrl(q) # k
      BY <3>1, <3>2, <2>6 DEF IsSet
    <3>3. CASE Cntrl(q) = k
      <4>1. IsSet(q)' <=> Place(q) \in e.field \ {Place(p)}
        BY <3>3, <2>3, <2>6 DEF IsSet
      <4>2. Place(q) = Place(p) <=> q = p
        BY <3>3, PlciFacts
      <4> QED
        BY <4>1, <4>2, <3>3 DEF IsSet
    <3> QED
      BY <3>2, <3>3
  <2>9. list' \in [Controllers -> [counter : Nat, field : SUBSET Places]]
    BY <2>4, <2>5 DEF PlciTypeOK
  <2> QED
    BY <2>7, <2>8, <2>9
<1> QED
  BY <1>3, <1>4
-----------------------------------------------------------------------------
LEMMA PlciInitInv == PlciInit => PlciInv
<1> SUFFICES ASSUME PlciInit
             PROVE  PlciInv
  OBVIOUS
<1>1. \A k \in Controllers : list[k] = NoElement
  BY DEF PlciInit, EmptyList
<1>2. PlciTypeOK
  <2>1. NoElement \in [counter : Nat, field : SUBSET Places]
    BY DEF NoElement
  <2>2. \A c \in Channels : plci[c] = 0 /\ state[c] = "free"
    BY DEF PlciInit
  <2> QED
    BY <2>1, <2>2 DEF PlciTypeOK, PlciInit, EmptyList
<1>3. CounterExact
  BY <1>1, FS_EmptySet DEF CounterExact, NoElement
<1>4. \A p \in PLCIs : ~IsSet(p)
  BY <1>1, PlciFacts DEF IsSet, NoElement
<1>5. CallsHaveLayers /\ \A p \in PLCIs : Taken(p) = {}
  BY DEF PlciInit, CallsHaveLayers, Taken
<1> QED
  BY <1>2, <1>3, <1>4, <1>5 DEF PlciInv, EntryOfSome, SoleClaimElse

(* What the invariant says of the claims depends on the list, the PLCIs    *)
(* and the states only.                                                    *)
LEMMA ClaimsUnchanged ==
  ASSUME CounterExact, EntryOfSome, SoleClaimElse, UNCHANGED <<list, state, plci, undone>>
  PROVE  CounterExact' /\ EntryOfSome' /\ SoleClaimElse'
BY DEF CounterExact, EntryOfSome, SoleClaimElse, IsSet, Taken

(* The last layer deletes the list when no channel has a call any more.    *)
LEMMA DeleteLayerInv ==
  ASSUME PlciInv, NEW c \in Channels, DeleteLayer(c)
  PROVE  PlciInv' /\ \A p \in PLCIs : IsSet(p) => IsSet(p)'
<1>1. CASE layers' # {}
  <2>1. UNCHANGED <<list, state, plci, undone>>
    BY <1>1 DEF DeleteLayer
  <2>2. CallsHaveLayers'
    BY DEF DeleteLayer, PlciInv, CallsHaveLayers
  <2>3. PlciTypeOK'
    BY <2>1 DEF DeleteLayer, PlciInv, PlciTypeOK
  <2> QED
    BY <2>1, <2>2, <2>3, ClaimsUnchanged DEF PlciInv, IsSet
<1>2. CASE layers' = {}
  <2>1. \A d \in Channels : state[d] = "free" /\ plci[d] = 0
    BY <1>2 DEF DeleteLayer, PlciInv, CallsHaveLayers, PlciTypeOK
  <2>2. \A p \in PLCIs : ~IsSet(p)
    BY <2>1, PlciFacts DEF PlciInv, EntryOfSome
  <2>3. list' = EmptyList /\ UNCHANGED <<state, plci, told, undone>>
    BY <1>2 DEF DeleteLayer
  <2>4. \A k \in Controllers : list'[k] = NoElement
    BY <2>3 DEF EmptyList
  <2>5. PlciTypeOK'
    <3>1. NoElement \in [counter : Nat, field : SUBSET Places]
      BY DEF NoElement
    <3> QED
      BY <1>2, <2>3, <3>1 DEF PlciInv, PlciTypeOK, EmptyList
  <2>6. CounterExact'
    BY <2>4, FS_EmptySet DEF CounterExact, NoElement
  <2>7. \A p \in PLCIs : ~IsSet(p)'
    BY <2>4, PlciFacts DEF IsSet, NoElement
  <2>8. CallsHaveLayers' /\ \A p \in PLCIs : Taken(p)' = {}
    BY <2>1, <2>3 DEF CallsHaveLayers, Taken
  <2> QED
    BY <2>2, <2>5, <2>6, <2>7, <2>8 DEF PlciInv, EntryOfSome, SoleClaimElse
<1> QED
  BY <1>1, <1>2

(* A call that rings has no channel yet, and so no claim.                  *)
LEMMA RingsInv ==
  ASSUME PlciInv, NEW p \in PLCIs, Rings(p)
  PROVE  PlciInv'
<1>1. ~IsSet(p) /\ Taken(p) = {}
  BY DEF Rings, PlciInv, EntryOfSome, Taken
<1>2. UNCHANGED <<layers, list, state, plci>>
  BY DEF Rings
<1>3. CounterExact' /\ EntryOfSome' /\ CallsHaveLayers'
  BY <1>2 DEF PlciInv, CounterExact, EntryOfSome, CallsHaveLayers, IsSet
<1>4. PlciTypeOK'
  BY DEF Rings, PlciInv, PlciTypeOK
<1>5. \A q \in PLCIs : Taken(q)' = Taken(q) /\ (IsSet(q)' <=> IsSet(q))
  BY <1>2 DEF Taken, IsSet
<1>6. SoleClaimElse'
  <2>1. ASSUME NEW q \in PLCIs, q \notin undone'
        PROVE  /\ \A c, d \in Taken(q) : c = d
               /\ Taken(q) # {} <=> IsSet(q)
    BY <1>1, <2>1 DEF Rings, PlciInv, SoleClaimElse
  <2> QED
    BY <1>5, <2>1 DEF SoleClaimElse
<1> QED
  BY <1>3, <1>4, <1>6 DEF PlciInv

LEMMA ConnectIndInv ==
  ASSUME PlciInv, NEW c \in Channels, NEW p \in PLCIs, CONNECT_IND(c, p)
  PROVE  PlciInv'
<1>1. state[c] = "free" /\ plci[c] = 0 /\ c \in layers
  BY DEF CONNECT_IND, PlciInv, PlciTypeOK
<1>2. /\ UNCHANGED <<layers, list, undone>>
      /\ plci'[c] = p /\ state'[c] = "indicated"
      /\ \A d \in Channels : d # c => plci'[d] = plci[d] /\ state'[d] = state[d]
  BY DEF CONNECT_IND, PlciInv, PlciTypeOK
<1>3. PlciTypeOK'
  <2>1. \A d \in Channels : plci'[d] = 0 <=> state'[d] = "free"
    BY <1>2, PlciFacts DEF PlciInv, PlciTypeOK
  <2> QED
    BY <2>1 DEF CONNECT_IND, PlciInv, PlciTypeOK
<1>4. CounterExact' /\ CallsHaveLayers'
  BY <1>1, <1>2 DEF PlciInv, CounterExact, CallsHaveLayers
<1>5. \A q \in PLCIs : Taken(q)' = Taken(q) /\ (IsSet(q)' <=> IsSet(q))
  BY <1>1, <1>2 DEF Taken, IsSet
<1>6. EntryOfSome'
  BY <1>1, <1>2, <1>5, PlciFacts DEF PlciInv, EntryOfSome
<1>7. SoleClaimElse'
  BY <1>2, <1>5 DEF PlciInv, SoleClaimElse
<1> QED
  BY <1>3, <1>4, <1>6, <1>7 DEF PlciInv

(* The channel that sets the entry is the one that takes the call.         *)
LEMMA AcceptInv ==
  ASSUME PlciInv, NEW c \in Channels, AcceptIncomingCall(c)
  PROVE  PlciInv' /\ \A q \in PLCIs : IsSet(q) => IsSet(q)'
<1> DEFINE p == plci[c]
<1>1. state[c] = "indicated" /\ p \in PLCIs /\ UNCHANGED <<layers, plci, told, undone>>
  BY DEF AcceptIncomingCall, PlciInv, PlciTypeOK
<1>2. CASE IsSet(p)
  <2>1. /\ UNCHANGED list /\ state' = [state EXCEPT ![c] = "leaving"]
    BY <1>2 DEF AcceptIncomingCall
  <2>2. PlciTypeOK' /\ CallsHaveLayers'
    BY <1>1, <2>1 DEF PlciInv, PlciTypeOK, CallsHaveLayers
  <2>3. \A q \in PLCIs : Taken(q)' = Taken(q) /\ (IsSet(q)' <=> IsSet(q))
    BY <1>1, <2>1 DEF Taken, IsSet, PlciInv, PlciTypeOK
  <2>4. CounterExact' /\ EntryOfSome' /\ SoleClaimElse'
    BY <1>1, <2>1, <2>3 DEF PlciInv, CounterExact, EntryOfSome, SoleClaimElse
  <2> QED
    BY <2>2, <2>3, <2>4 DEF PlciInv
<1>3. CASE ~IsSet(p)
  <2>1. SetEntry(p) /\ state' = [state EXCEPT ![c] = "taken"]
    BY <1>3 DEF AcceptIncomingCall
  <2>2. /\ list' \in [Controllers -> [counter : Nat, field : SUBSET Places]]
        /\ CounterExact'
        /\ \A q \in PLCIs : IsSet(q)' <=> IsSet(q) \/ q = p
    BY <1>1, <1>3, <2>1, SetEntrySets DEF PlciInv
  <2>3. PlciTypeOK' /\ CallsHaveLayers'
    BY <1>1, <2>1, <2>2 DEF PlciInv, PlciTypeOK, CallsHaveLayers
  <2>4. EntryOfSome'
    BY <1>1, <2>2 DEF PlciInv, EntryOfSome
  <2>5. \A q \in PLCIs : q # p => Taken(q)' = Taken(q)
    BY <1>1, <2>1 DEF Taken, PlciInv, PlciTypeOK
  <2>6. p \notin undone => Taken(p)' = {c}
    <3>1. p \notin undone => Taken(p) = {}
      BY <1>1, <1>3 DEF PlciInv, SoleClaimElse
    <3>2. Taken(p)' = Taken(p) \cup {c}
      BY <1>1, <2>1 DEF Taken, PlciInv, PlciTypeOK
    <3> QED
      BY <3>1, <3>2
  <2>7. SoleClaimElse'
    BY <1>1, <2>2, <2>5, <2>6 DEF PlciInv, SoleClaimElse
  <2> QED
    BY <2>2, <2>3, <2>4, <2>7 DEF PlciInv
<1> QED
  BY <1>2, <1>3

(* A channel that has not taken its call and frees an entry is noted.      *)
LEMMA ResetInv ==
  ASSUME PlciInv, NEW c \in Channels, state[c] # "free", ResetValues(c),
         UNCHANGED <<layers, told>>
  PROVE  PlciInv' /\ \A q \in PLCIs : IsSet(q) /\ ~IsSet(q)' => plci[c] = q /\ plci'[c] = 0
<1>1. PICK p \in PLCIs : p = plci[c]
  BY DEF PlciInv, PlciTypeOK
<1>2. /\ list' \in [Controllers -> [counter : Nat, field : SUBSET Places]]
      /\ CounterExact'
      /\ \A q \in PLCIs : IsSet(q)' <=> IsSet(q) /\ q # p
  BY <1>1, UnsetClears DEF ResetValues, PlciInv
<1>3. /\ plci'[c] = 0 /\ state'[c] = "free"
      /\ \A d \in Channels : d # c => plci'[d] = plci[d] /\ state'[d] = state[d]
  BY DEF ResetValues, PlciInv, PlciTypeOK
<1>4. undone' = IF state[c] # "taken" /\ IsSet(p) THEN undone \cup {p} ELSE undone
  BY <1>1 DEF ResetValues
<1>5. PlciTypeOK'
  <2>1. plci' \in [Channels -> PLCIs \cup {0}]
        /\ state' \in [Channels -> {"free", "indicated", "taken", "leaving"}]
    BY DEF ResetValues, PlciInv, PlciTypeOK
  <2>2. \A d \in Channels : plci'[d] = 0 <=> state'[d] = "free"
    BY <1>3 DEF PlciInv, PlciTypeOK
  <2>3. undone' \subseteq PLCIs
    BY <1>1, <1>4 DEF PlciInv, PlciTypeOK
  <2> QED
    BY <1>2, <2>1, <2>2, <2>3 DEF PlciInv, PlciTypeOK
<1>6. CallsHaveLayers'
  BY <1>3 DEF PlciInv, CallsHaveLayers
<1>7. EntryOfSome'
  BY <1>1, <1>2, <1>3 DEF PlciInv, EntryOfSome
<1>8. \A q \in PLCIs : q # p => Taken(q)' = Taken(q)
  BY <1>1, <1>3, PlciFacts DEF Taken
<1>9. Taken(p)' = Taken(p) \ {c}
  BY <1>1, <1>3, PlciFacts DEF Taken
<1>10. SoleClaimElse'
  <2>1. ASSUME p \notin undone'
        PROVE  Taken(p)' = {} /\ ~IsSet(p)'
    <3>1. p \notin undone /\ ~IsSet(p)'
      BY <1>1, <1>2, <1>4, <2>1
    <3>2. CASE state[c] = "taken"
      <4>1. c \in Taken(p)
        BY <1>1, <3>2 DEF Taken
      <4> QED
        BY <1>1, <1>9, <3>1, <4>1 DEF PlciInv, SoleClaimElse
    <3>3. CASE state[c] # "taken"
      <4>1. ~IsSet(p)
        BY <1>4, <2>1, <3>3
      <4> QED
        BY <1>1, <1>9, <3>1, <4>1 DEF PlciInv, SoleClaimElse
    <3> QED
      BY <3>2, <3>3
  <2>2. ASSUME NEW q \in PLCIs, q \notin undone', q # p
        PROVE  /\ \A d, e \in Taken(q)' : d = e
               /\ Taken(q)' # {} <=> IsSet(q)'
    <3>1. q \notin undone
      BY <1>4, <2>2
    <3> QED
      BY <1>2, <1>8, <2>2, <3>1 DEF PlciInv, SoleClaimElse
  <2> QED
    BY <1>1, <2>1, <2>2 DEF SoleClaimElse
<1> QED
  BY <1>1, <1>2, <1>3, <1>5, <1>6, <1>7, <1>10 DEF PlciInv

LEMMA PlciNextInv ==
  ASSUME PlciInv, [PlciNext]_plciVars
  PROVE  /\ PlciInv'
         /\ \A p \in PLCIs : IsSet(p) /\ ~IsSet(p)' =>
              \E c \in Channels : plci[c] = p /\ plci'[c] = 0
<1>1. CASE UNCHANGED plciVars
  <2>1. UNCHANGED <<layers, list, state, plci, told, undone>>
    BY <1>1 DEF plciVars
  <2>2. PlciTypeOK' /\ CallsHaveLayers'
    BY <2>1 DEF PlciInv, PlciTypeOK, CallsHaveLayers
  <2> QED
    BY <2>1, <2>2, ClaimsUnchanged DEF PlciInv, IsSet
<1>2. ASSUME NEW c \in Channels, NewLayer(c)
      PROVE  PlciInv' /\ UNCHANGED list
  <2>1. PlciTypeOK' /\ CallsHaveLayers'
    BY <1>2 DEF NewLayer, PlciInv, PlciTypeOK, CallsHaveLayers
  <2> QED
    BY <1>2, <2>1, ClaimsUnchanged DEF NewLayer, PlciInv
<1>3. ASSUME NEW p \in PLCIs, NEW c \in Channels, Ignored(c, p)
      PROVE  PlciInv' /\ UNCHANGED list
  <2>1. PlciTypeOK' /\ CallsHaveLayers'
    BY <1>3 DEF Ignored, PlciInv, PlciTypeOK, CallsHaveLayers
  <2> QED
    BY <1>3, <2>1, ClaimsUnchanged DEF Ignored, PlciInv
<1>4. ASSUME NEW c \in Channels, ConnectRespIgnore(c) \/ DISCONNECT_IND(c)
      PROVE  state[c] # "free" /\ ResetValues(c) /\ UNCHANGED <<layers, told>>
  BY <1>4 DEF ConnectRespIgnore, DISCONNECT_IND
<1>5. ASSUME UNCHANGED list
      PROVE  \A p \in PLCIs : IsSet(p) => IsSet(p)'
  BY <1>5 DEF IsSet
<1>6. \A p \in PLCIs : Rings(p) => UNCHANGED list
  BY DEF Rings
<1>7. \A p \in PLCIs, c \in Channels : CONNECT_IND(c, p) => UNCHANGED list
  BY DEF CONNECT_IND
<1>8. ASSUME NEW c \in Channels, NewLayer(c) \/ DeleteLayer(c) \/ AcceptIncomingCall(c)
                                 \/ ConnectRespIgnore(c) \/ DISCONNECT_IND(c)
      PROVE  /\ PlciInv'
             /\ \A p \in PLCIs : IsSet(p) /\ ~IsSet(p)' =>
                  \E d \in Channels : plci[d] = p /\ plci'[d] = 0
  <2>1. CASE NewLayer(c)
    BY <1>2, <1>5, <2>1
  <2>2. CASE DeleteLayer(c)
    BY <2>2, DeleteLayerInv
  <2>3. CASE AcceptIncomingCall(c)
    BY <2>3, AcceptInv
  <2>4. CASE ConnectRespIgnore(c) \/ DISCONNECT_IND(c)
    BY <1>4, <2>4, ResetInv
  <2> QED
    BY <1>8, <2>1, <2>2, <2>3, <2>4
<1>9. ASSUME NEW p \in PLCIs, Rings(p)
      PROVE  PlciInv' /\ UNCHANGED list
  BY <1>6, <1>9, RingsInv
<1>10. ASSUME NEW p \in PLCIs, NEW c \in Channels, CONNECT_IND(c, p) \/ Ignored(c, p)
       PROVE  PlciInv' /\ UNCHANGED list
  BY <1>3, <1>7, <1>10, ConnectIndInv
<1> QED
  BY <1>1, <1>5, <1>8, <1>9, <1>10 DEF PlciNext

-----------------------------------------------------------------------------
(* PlciTypeOK: a channel has a PLCI exactly while it has a call, through   *)
(* every operation of the list.                                            *)
THEOREM PlciTypeCorrect == PlciSpec => []PlciTypeOK
<1>1. PlciInv /\ [PlciNext]_plciVars => PlciInv'
  BY PlciNextInv
<1>2. PlciInv => PlciTypeOK
  BY DEF PlciInv
<1> QED
  BY PlciInitInv, <1>1, <1>2, PTL DEF PlciSpec

(* CounterExact: an element of the list counts its bits, so that the       *)
(* deletion of the element takes the claim freed and no other.             *)
THEOREM CountersExact == PlciSpec => []CounterExact
<1>1. PlciInv /\ [PlciNext]_plciVars => PlciInv'
  BY PlciNextInv
<1>2. PlciInv => CounterExact
  BY DEF PlciInv
<1> QED
  BY PlciInitInv, <1>1, <1>2, PTL DEF PlciSpec

(* SoleClaimElse: a call whose claim only its channel frees is taken by    *)
(* one channel at most, and claimed as long as it is taken.                *)
THEOREM ClaimsSole == PlciSpec => []SoleClaimElse
<1>1. PlciInv /\ [PlciNext]_plciVars => PlciInv'
  BY PlciNextInv
<1>2. PlciInv => SoleClaimElse
  BY DEF PlciInv
<1> QED
  BY PlciInitInv, <1>1, <1>2, PTL DEF PlciSpec

(* OnlyItsOwn: the list forgets a call only for a channel that has had it. *)
THEOREM ForgetsOnlyItsOwn == PlciSpec => OnlyItsOwn
<1>1. PlciInv /\ [PlciNext]_plciVars => PlciInv'
  BY PlciNextInv
<1>2. PlciInv /\ [PlciNext]_plciVars =>
        [\A p \in PLCIs : IsSet(p) /\ ~IsSet(p)' =>
           \E c \in Channels : plci[c] = p /\ plci'[c] = 0]_plciVars
  BY PlciNextInv
<1> QED
  BY PlciInitInv, <1>1, <1>2, PTL DEF PlciSpec, OnlyItsOwn
=============================================================================
