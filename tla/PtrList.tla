------------------------------ MODULE PtrList ------------------------------
(***************************************************************************)
(* CPointerList and CSortPointerList (src/standard/PtrList, SortList): a   *)
(* list is a chain of two-way links between a Head and a Tail that belong  *)
(* to the list itself; the elements are linked in and out where they are,  *)
(* and a sorted list is searched from either end for the place of a key.   *)
(***************************************************************************)
EXTENDS Integers, FiniteSets, SequencesExt

CONSTANTS Plain, Sorted, Words, Entries, KeyOf, Nil

VARIABLES
  links,    \* pNext and pPrev of every node
  alive,    \* the elements that are constructed
  ret       \* the result of the last operation

listVars == <<links, alive, ret>>

Elements == Words \cup Entries
Lists == Plain \cup Sorted
HeadOf(l) == <<l, "Head">>
TailOf(l) == <<l, "Tail">>
Nodes == Elements \cup {HeadOf(l) : l \in Lists} \cup {TailOf(l) : l \in Lists}

Linked(h, n) == h.prev[n] # Nil /\ h.next[n] # Nil

-----------------------------------------------------------------------------
(* CPointerListElement                                                     *)

(* The list's own Head and Tail are no elements.                           *)
GetNext(h, n) == IF h.next[h.next[n]] = Nil THEN Nil ELSE h.next[n]
GetPrev(h, n) == IF h.prev[h.prev[n]] = Nil THEN Nil ELSE h.prev[n]

AddAfter(h, n, e) ==
  [next |-> [h.next EXCEPT ![n] = e, ![e] = h.next[n]],
   prev |-> [h.prev EXCEPT ![e] = n, ![h.next[n]] = e]]

AddBefore(h, n, e) ==
  [next |-> [h.next EXCEPT ![h.prev[n]] = e, ![e] = n],
   prev |-> [h.prev EXCEPT ![e] = h.prev[n], ![n] = e]]

InternalRemove(h, e) ==
  IF h.prev[e] = Nil THEN h
  ELSE [next |-> [h.next EXCEPT ![h.prev[e]] = h.next[e], ![e] = Nil],
        prev |-> [h.prev EXCEPT ![h.next[e]] = h.prev[e], ![e] = Nil]]

ExchangeFor(h, n, e) == InternalRemove(AddBefore(h, n, e), n)

RemoveAfter(h, n) == IF GetNext(h, n) = Nil THEN h ELSE InternalRemove(h, GetNext(h, n))
RemoveBefore(h, n) == IF GetPrev(h, n) = Nil THEN h ELSE InternalRemove(h, GetPrev(h, n))

(* The elements that a walk visits after n.                                *)
Walk(step(_, _), h, n) ==
  LET ahead[x \in Nodes] ==
        LET y == step(h, x) IN IF y = Nil THEN <<>> ELSE <<y>> \o ahead[y]
  IN  ahead[n]

Forward(h, n) == Walk(GetNext, h, n)
Backward(h, n) == Walk(GetPrev, h, n)

(* The first node of a walk that Stops, Nil for none.                     *)
FirstOf(walk, Stops(_)) ==
  LET hits == {i \in 1 .. Len(walk) : Stops(walk[i])}
  IN  IF hits = {} THEN Nil ELSE walk[CHOOSE i \in hits : \A j \in hits : i <= j]

-----------------------------------------------------------------------------
(* CSortPListElement and CSortPointerList                                  *)

(* A Compare of the element with a key: where to go for it.                *)
Compare(e, k) == IF k > KeyOf[e] THEN "Higher" ELSE IF k < KeyOf[e] THEN "Lower" ELSE "Equal"

(* Bug: the new element goes next to the one the search starts at.         *)
AddAtStart(h, start, e) ==
  LET dir == IF Compare(start, KeyOf[e]) = "Lower" THEN "Lower" ELSE "Higher"
  IN  [h |-> IF dir = "Lower" THEN AddBefore(h, start, e) ELSE AddAfter(h, start, e),
       equal |-> Nil]

(* CSortPListElement::Add at the element start: on in the direction of the *)
(* key until an element is not on that side; an equal one is exchanged.    *)
AddAt(h, start, e) ==
  LET dir  == Compare(start, KeyOf[e])
      way  == <<start>> \o (IF dir = "Lower" THEN Backward(h, start) ELSE Forward(h, start))
      stop == FirstOf(way, LAMBDA x : Compare(x, KeyOf[e]) # dir)
      last == IF stop = Nil THEN Last(way)
              ELSE way[CHOOSE i \in DOMAIN way : i < Len(way) /\ way[i + 1] = stop]
  IN  IF dir = "Equal" THEN [h |-> ExchangeFor(h, start, e), equal |-> start]
      ELSE IF stop # Nil /\ Compare(stop, KeyOf[e]) = "Equal"
      THEN [h |-> ExchangeFor(h, stop, e), equal |-> stop]
      ELSE [h |-> IF dir = "Lower" THEN AddBefore(h, last, e) ELSE AddAfter(h, last, e),
            equal |-> Nil]

(* Find2HigherCmpFunc stops the walk at the key or where it would be.      *)
FindHigherIn(h, n, k) ==
  LET found == FirstOf(Forward(h, n), LAMBDA x : Compare(x, k) # "Higher")
  IN  IF found = Nil \/ Compare(found, k) # "Equal" THEN Nil ELSE found

(* FindRev starts backward and goes on forward.                            *)
WalkRev(h, n) ==
  IF GetPrev(h, n) = Nil THEN <<>> ELSE <<GetPrev(h, n)>> \o Forward(h, GetPrev(h, n))

FindLowerIn(h, n, k) ==
  LET found == FirstOf(WalkRev(h, n), LAMBDA x : Compare(x, k) # "Lower")
  IN  IF found = Nil \/ Compare(found, k) # "Equal" THEN Nil ELSE found

(* CSortPListElement::Find                                                 *)
FindAt(h, e, k) ==
  CASE Compare(e, k) = "Lower" -> FindLowerIn(h, e, k)
    [] Compare(e, k) = "Higher" -> FindHigherIn(h, e, k)
    [] OTHER -> e

-----------------------------------------------------------------------------
(* The operations of the lists                                             *)

PtrInit ==
  /\ links = [next |-> [n \in Nodes |-> IF \E l \in Lists : n = HeadOf(l) THEN TailOf(n[1]) ELSE Nil],
              prev |-> [n \in Nodes |-> IF \E l \in Lists : n = TailOf(l) THEN HeadOf(n[1]) ELSE Nil]]
  /\ alive = {} /\ ret = Nil

Unlinked(e) == e \in alive /\ ~Linked(links, e)

Construct(e) ==
  /\ e \notin alive /\ alive' = alive \cup {e} /\ ret' = Nil
  /\ links' = [next |-> [links.next EXCEPT ![e] = Nil], prev |-> [links.prev EXCEPT ![e] = Nil]]

(* ~CPointerListElement                                                    *)
Destruct(e) ==
  /\ e \in alive /\ alive' = alive \ {e} /\ ret' = Nil
  /\ links' = IF Linked(links, e) THEN InternalRemove(links, e) ELSE links

AddFirst(l, e) ==
  /\ Unlinked(e) /\ links' = AddAfter(links, HeadOf(l), e) /\ ret' = Nil
  /\ UNCHANGED alive

AddLast(l, e) ==
  /\ Unlinked(e) /\ links' = AddBefore(links, TailOf(l), e) /\ ret' = Nil
  /\ UNCHANGED alive

AddNextTo(n, e) ==
  /\ Unlinked(e) /\ Linked(links, n)
  /\ links' \in {AddAfter(links, n, e), AddBefore(links, n, e)} /\ ret' = Nil
  /\ UNCHANGED alive

Exchange(n, e) ==
  /\ Unlinked(e) /\ Linked(links, n)
  /\ links' = ExchangeFor(links, n, e) /\ ret' = Nil
  /\ UNCHANGED alive

RemoveFromList(e) ==
  /\ e \in alive /\ Linked(links, e) /\ links' = InternalRemove(links, e) /\ ret' = e
  /\ UNCHANGED alive

(* RemoveFirst and RemoveLast of a list that is not empty.                 *)
RemoveFirstOf(l) ==
  /\ GetNext(links, HeadOf(l)) # Nil
  /\ links' = RemoveAfter(links, HeadOf(l)) /\ ret' = GetNext(links, HeadOf(l))
  /\ UNCHANGED alive

RemoveLastOf(l) ==
  /\ GetPrev(links, TailOf(l)) # Nil
  /\ links' = RemoveBefore(links, TailOf(l)) /\ ret' = GetPrev(links, TailOf(l))
  /\ UNCHANGED alive

(* The last element is deleted as long as there is one; so does the list's *)
(* destructor.                                                             *)
RemoveAndDeleteAll(l) ==
  LET all == Backward(links, TailOf(l))
  IN  /\ links' = FoldLeft(InternalRemove, links, all)
      /\ alive' = alive \ ToSet(all) /\ ret' = Nil

(* From the end of the list with the element at; an empty list just takes  *)
(* it.                                                                     *)
AddFrom(at, l, e) ==
  /\ Unlinked(e)
  /\ IF at = Nil
     THEN links' = AddAfter(links, HeadOf(l), e) /\ ret' = Nil
     ELSE LET add == AddAt(links, at, e) IN links' = add.h /\ ret' = add.equal
  /\ UNCHANGED alive

AddFromLow(l, e) == AddFrom(GetNext(links, HeadOf(l)), l, e)
AddFromHigh(l, e) == AddFrom(GetPrev(links, TailOf(l)), l, e)

FindHigher(l, k) ==
  /\ ret' = FindHigherIn(links, HeadOf(l), k)
  /\ UNCHANGED <<links, alive>>

FindLower(l, k) ==
  /\ ret' = FindLowerIn(links, TailOf(l), k)
  /\ UNCHANGED <<links, alive>>

Find(e, k) ==
  /\ e \in alive /\ Linked(links, e) /\ ret' = FindAt(links, e, k)
  /\ UNCHANGED <<links, alive>>

PtrNext ==
  \/ \E e \in Elements : Construct(e) \/ Destruct(e) \/ RemoveFromList(e)
  \/ \E l \in Plain, e \in Words : AddFirst(l, e) \/ AddLast(l, e)
  \/ \E n, e \in Words : AddNextTo(n, e) \/ Exchange(n, e)
  \/ \E l \in Plain : RemoveFirstOf(l) \/ RemoveLastOf(l)
  \/ \E l \in Lists : RemoveAndDeleteAll(l)
  \/ \E l \in Sorted, e \in Entries : AddFromLow(l, e) \/ AddFromHigh(l, e)
  \/ \E l \in Sorted, k \in {KeyOf[e] : e \in Entries} : FindHigher(l, k) \/ FindLower(l, k)
  \/ \E e \in Entries, k \in {KeyOf[x] : x \in Entries} : Find(e, k)

PtrSpec == PtrInit /\ [][PtrNext]_listVars

-----------------------------------------------------------------------------
(* A list reads the same from both ends and has elements that exist, each  *)
(* of them once and in one list.                                           *)
BothWays == \A l \in Lists :
  LET all == Forward(links, HeadOf(l))
  IN  /\ Backward(links, TailOf(l)) = Reverse(all)
      /\ ToSet(all) \subseteq alive
      /\ Cardinality(ToSet(all)) = Len(all)
      /\ \A m \in Lists \ {l} : ToSet(all) \cap ToSet(Forward(links, HeadOf(m))) = {}

(* The links implement the sequences of ListSeq, the sorted ones whatever  *)
(* end an element is added from, and are the same from either end.         *)
Abs == INSTANCE ListSeq WITH lists <- [l \in Lists |-> Forward(links, HeadOf(l))]
IsListSeq == Abs!AbsSpec /\ []BothWays
=============================================================================
