----------------------------- MODULE DataHandle -----------------------------
(***************************************************************************)
(* CDataHandleAdmin (src/capi/DataHand.cpp): the array of send handles of  *)
(* a CTransferChannel, with its free entries threaded on a singly linked   *)
(* list.  Entries are numbered 0 .. MaxEntries-1 as CAPI data handles, and *)
(* 1 .. MaxEntries as links (m_nextOne, next), where link 0 ends the list. *)
(* Every call runs under m_Protect, so a call is one action.               *)
(***************************************************************************)
EXTENDS Naturals, FiniteSets

CONSTANTS
  MaxEntries,   \* the argument of InitEntries
  Data,         \* the pointers an application puts in, all non-null
  NoData        \* the null pointer

(* The capacity and the links are tUShorts.  InitEntries asserts a         *)
(* positive capacity; New documents "NewDataHandle != 0".                  *)
ASSUME DataHandleAssumption ==
  /\ MaxEntries \in Nat /\ 1 <= MaxEntries /\ MaxEntries <= 65535
  /\ NoData \notin Data

VARIABLES
  nextOne,      \* m_nextOne: link to the first free entry
  next,         \* m_Array[h].next
  inuse,        \* m_Array[h].inuse
  pointer,      \* m_Array[h].pointer
  curEntries,   \* m_curEntries
  ret           \* out-parameters and result of the last call; a call that
                \* does not write an out-parameter leaves the old value

vars == <<nextOne, next, inuse, pointer, curEntries, ret>>

Handle == 0 .. MaxEntries - 1
Link == 1 .. MaxEntries

(* What the driver may put in a DATA_B3_CONF: MaxEntries stands for every  *)
(* handle beyond the array.                                                *)
HandleArg == 0 .. MaxEntries

(* The state InitEntries leaves: all entries free, chained in order.       *)
Init ==
  /\ nextOne = 1
  /\ next = [h \in Handle |-> IF h = MaxEntries - 1 THEN 0 ELSE h + 2]
  /\ inuse = [h \in Handle |-> FALSE]
  /\ pointer = [h \in Handle |-> NoData]
  /\ curEntries = 0
  /\ ret = [ok |-> FALSE, handle |-> 0, data |-> NoData]

(* The links the walk of DelNextEntry visits from a head along nx: the     *)
(* least set that holds the head and, with an entry, its successor.        *)
Closed(head, nx, S) ==
  /\ head # 0 => head \in S
  /\ \A i \in S : nx[i - 1] # 0 => nx[i - 1] \in S

Chain(head, nx) ==
  {i \in Link : \A S \in SUBSET Link : Closed(head, nx, S) => i \in S}

FreeList == Chain(nextOne, next)

InUse == {h \in Handle : inuse[h]}

New(d) ==
  \/ /\ nextOne # 0
     /\ LET get == nextOne - 1 IN
          /\ nextOne' = next[get]
          /\ next' = [next EXCEPT ![get] = 0]
          /\ inuse' = [inuse EXCEPT ![get] = TRUE]
          /\ pointer' = [pointer EXCEPT ![get] = d]
          /\ curEntries' = curEntries + 1
          /\ ret' = [ret EXCEPT !.ok = TRUE, !.handle = get]
  \/ /\ nextOne = 0
     /\ ret' = [ret EXCEPT !.ok = FALSE]
     /\ UNCHANGED <<nextOne, next, inuse, pointer, curEntries>>

(* Clears entry h, pushes it on the free list and returns its pointer: the *)
(* common tail of Free and DelNextEntry.                                   *)
GiveBack(h) ==
  /\ pointer' = [pointer EXCEPT ![h] = NoData]
  /\ inuse' = [inuse EXCEPT ![h] = FALSE]
  /\ next' = [next EXCEPT ![h] = nextOne]
  /\ nextOne' = h + 1
  /\ curEntries' = curEntries - 1
  /\ ret' = [ret EXCEPT !.ok = TRUE, !.data = pointer[h]]

Refused ==
  /\ ret' = [ret EXCEPT !.ok = FALSE]
  /\ UNCHANGED <<nextOne, next, inuse, pointer, curEntries>>

(* Bug: the inuse flag is not consulted.                                   *)
FreeUnguarded(h) ==
  \/ h \in Handle /\ GiveBack(h)
  \/ h \notin Handle /\ Refused

Free(h) ==
  \/ h \in Handle /\ inuse[h] /\ GiveBack(h)
  \/ ~(h \in Handle /\ inuse[h]) /\ Refused

(* The lowest entry the walk over the free list does not meet; the inuse   *)
(* flag is not consulted.                                                  *)
DelNextEntry ==
  \/ /\ curEntries # 0
     /\ \E i \in Link \ FreeList :
          /\ \A j \in 1 .. i - 1 : j \in FreeList
          /\ GiveBack(i - 1)
  \/ (curEntries = 0 \/ FreeList = Link) /\ Refused

Next ==
  \/ \E d \in Data : New(d)
  \/ \E h \in HandleArg : Free(h)
  \/ DelNextEntry

Spec == Init /\ [][Next]_vars

-----------------------------------------------------------------------------
(* Properties                                                              *)

(* Every variable keeps its type; links stay inside the array (the         *)
(* "m_nextOne <= m_maxEntries" assertions of New, Free and DelNextEntry).  *)
TypeOK ==
  /\ nextOne \in 0 .. MaxEntries
  /\ next \in [Handle -> 0 .. MaxEntries]
  /\ inuse \in [Handle -> BOOLEAN]
  /\ pointer \in [Handle -> Data \cup {NoData}]
  /\ curEntries \in Nat
  /\ ret \in [ok : BOOLEAN, handle : Handle, data : Data \cup {NoData}]

(* The chain holds exactly the entries not in use: none is lost from it    *)
(* (New would fail with room left) and none that is out is on it (New      *)
(* would give one handle to two frames).  DelNextEntry relies on it: it    *)
(* recognises a used entry only by its absence from the chain.             *)
FreeListExact == FreeList = {h + 1 : h \in Handle \ InUse}

(* No link is shared and nothing points at the head, so the walk ends; an  *)
(* entry that is out has no successor (the assertion on next in Free).     *)
NoSharedLink ==
  /\ \A g, h \in Handle : next[g] # 0 /\ next[g] = next[h] => g = h
  /\ \A h \in Handle : next[h] # 0 => next[h] # nextOne
  /\ \A h \in InUse : next[h] = 0

(* m_curEntries, which IsPutQueueEmpty, IsPutQueueFull and the drain loop  *)
(* test, is the number of entries in use.                                  *)
CountExact == curEntries = Cardinality(InUse)

(* The linked array implements the abstract handle set.                    *)
Abs == INSTANCE HandleSet
         WITH held <- [h \in InUse |-> pointer[h]]

Refines == Abs!Spec
=============================================================================
