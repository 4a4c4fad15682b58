----------------------------- MODULE HandleSet -----------------------------
(***************************************************************************)
(* What CDataHandleAdmin promises to CTransferChannel: a bounded partial   *)
(* function from 16-bit CAPI data handles to the application's data        *)
(* pointers.  A handle is given out only while nobody holds it, a          *)
(* confirmation returns exactly the pointer that was put under its handle, *)
(* and a drain (ResetSendBlock) gives back every pointer once.             *)
(***************************************************************************)
EXTENDS Naturals, FiniteSets

CONSTANTS
  MaxEntries,   \* capacity (m_maxEntries, CAPI_MAX_OUTSTANDING_FRAMES)
  Data,         \* the pointers an application puts in (hDataID)
  NoData        \* the null pointer

VARIABLES
  held,         \* handle |-> pointer, for the handles that are out
  ret           \* out-parameters and result of the last call

Handle == 0 .. MaxEntries - 1

HandleArg == 0 .. MaxEntries   \* MaxEntries: any handle beyond the capacity

Out == DOMAIN held

vars == <<held, ret>>

Init ==
  /\ held = [h \in {} |-> NoData]
  /\ ret = [ok |-> FALSE, handle |-> 0, data |-> NoData]

Without(h) == [k \in Out \ {h} |-> held[k]]

(* A free handle, if there is one: the call fails only when all are out.   *)
New(d) ==
  \/ \E h \in Handle \ Out :
        /\ held' = [k \in Out \cup {h} |-> IF k = h THEN d ELSE held[k]]
        /\ ret' = [ret EXCEPT !.ok = TRUE, !.handle = h]
  \/ /\ Out = Handle
     /\ ret' = [ret EXCEPT !.ok = FALSE]
     /\ UNCHANGED held

(* The pointer held under h; a handle that is not out is refused.          *)
Free(h) ==
  \/ /\ h \in Out
     /\ held' = Without(h)
     /\ ret' = [ret EXCEPT !.ok = TRUE, !.data = held[h]]
  \/ /\ h \notin Out
     /\ ret' = [ret EXCEPT !.ok = FALSE]
     /\ UNCHANGED held

(* Some pointer that is still held; fails only when none is.               *)
DelNextEntry ==
  \/ \E h \in Out :
        /\ held' = Without(h)
        /\ ret' = [ret EXCEPT !.ok = TRUE, !.data = held[h]]
  \/ /\ Out = {}
     /\ ret' = [ret EXCEPT !.ok = FALSE]
     /\ UNCHANGED held

Next ==
  \/ \E d \in Data : New(d)
  \/ \E h \in HandleArg : Free(h)
  \/ DelNextEntry

Spec == Init /\ [][Next]_vars
=============================================================================
