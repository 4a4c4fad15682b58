------------------------------ MODULE ListSeq ------------------------------
(***************************************************************************)
(* What CPointerList and CSortPointerList (src/standard/PtrList.h,         *)
(* SortList.h) promise: a plain list is a sequence that its elements can   *)
(* be put into, moved from and deleted from anywhere; a sorted list holds  *)
(* at most one element of each key, the lower keys first, and says which   *)
(* element an equal one has taken the place of.                            *)
(***************************************************************************)
EXTENDS Integers, SequencesExt

CONSTANTS
  Plain, Sorted,    \* the lists
  Words,            \* elements of plain lists
  Entries,          \* elements of sorted lists, their keys:
  KeyOf,
  Nil

VARIABLES
  lists,    \* per list: the sequence of its elements
  alive,    \* the elements that exist
  ret       \* the result of the last operation

Free(e) == e \in alive /\ \A l \in Plain \cup Sorted : ~Contains(lists[l], e)

(* The elements S with the lower keys first.                               *)
InOrder(S) == SetToSortSeq(S, LAMBDA a, b : KeyOf[a] < KeyOf[b])

Equal(l, e) == {x \in ToSet(lists[l]) : KeyOf[x] = KeyOf[e]}

OneOf(S) == IF S = {} THEN Nil ELSE CHOOSE x \in S : TRUE

AbsInit ==
  /\ lists = [l \in Plain \cup Sorted |-> <<>>] /\ alive = {} /\ ret = Nil

New(e) ==
  /\ e \notin alive /\ alive' = alive \cup {e} /\ ret' = Nil
  /\ UNCHANGED lists

Put(l, i, e) ==
  /\ Free(e) /\ lists' = [lists EXCEPT ![l] = InsertAt(@, i, e)] /\ ret' = Nil
  /\ UNCHANGED alive

Exchange(l, i, e) ==
  /\ Free(e) /\ lists' = [lists EXCEPT ![l][i] = e] /\ ret' = Nil
  /\ UNCHANGED alive

TakeOut(l, i) ==
  /\ lists' = [lists EXCEPT ![l] = RemoveAt(@, i)] /\ ret' = lists[l][i]
  /\ UNCHANGED alive

Delete(e) ==
  /\ e \in alive /\ alive' = alive \ {e} /\ ret' = Nil
  /\ lists' = [l \in DOMAIN lists |-> SelectSeq(lists[l], LAMBDA x : x # e)]

DeleteAll(l) ==
  /\ alive' = alive \ ToSet(lists[l]) /\ ret' = Nil
  /\ lists' = [lists EXCEPT ![l] = <<>>]

Add(l, e) ==
  /\ Free(e)
  /\ lists' = [lists EXCEPT ![l] = InOrder((ToSet(@) \ Equal(l, e)) \cup {e})]
  /\ ret' = OneOf(Equal(l, e))
  /\ UNCHANGED alive

FindKey(l, k) ==
  /\ ret' = OneOf({x \in ToSet(lists[l]) : KeyOf[x] = k})
  /\ UNCHANGED <<lists, alive>>

(* A search from the higher end can miss an element below the last.        *)
FindKeyDown(l, k) == FindKey(l, k) \/ (Len(lists[l]) > 1 /\ ret' = Nil /\ UNCHANGED <<lists, alive>>)

AbsNext ==
  \/ \E e \in Words \cup Entries : New(e) \/ Delete(e)
  \/ \E l \in Plain, e \in Words :
       \/ \E i \in 1 .. Len(lists[l]) + 1 : Put(l, i, e)
       \/ \E i \in 1 .. Len(lists[l]) : Exchange(l, i, e)
  \/ \E l \in Plain \cup Sorted : DeleteAll(l) \/ \E i \in 1 .. Len(lists[l]) : TakeOut(l, i)
  \/ \E l \in Sorted :
       (\E e \in Entries : Add(l, e)) \/ (\E k \in {KeyOf[e] : e \in Entries} : FindKey(l, k) \/ FindKeyDown(l, k))

AbsSpec == AbsInit /\ [][AbsNext]_<<lists, alive, ret>>
=============================================================================
