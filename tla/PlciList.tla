------------------------------ MODULE PlciList ------------------------------
(***************************************************************************)
(* Which channel takes an incoming call: CAPI signals it to the channel of *)
(* every receiver, and they agree over the list of PLCIs of the process    *)
(* (src/capi/PLCIList.cpp), that the first layer creates and the last one  *)
(* deletes (src/capi/CapiLay.h).  An element per controller has a bit for  *)
(* each PLCI and counts them; at 0 it is deleted.  Its operations run under*)
(* hProtect.                                                               *)
(***************************************************************************)
EXTENDS Integers, FiniteSets

CONSTANTS
  Channels,   \* the channels (layers) of the process
  PLCIs       \* what CAPI calls the calls

(* The byte of PLCIField and the bit in it are the high byte of the PLCI.  *)
Cntrl(plci) == plci % 128
Place(plci) == plci \div 256

(* The low byte of a PLCI has a bit for external equipment, that the list  *)
(* leaves out: PLCIs that differ in nothing else would be one.             *)
ASSUME PlciAssumption ==
  /\ PLCIs \subseteq Nat \ {0}
  /\ \A p, q \in PLCIs : Cntrl(p) = Cntrl(q) /\ Place(p) = Place(q) => p = q

VARIABLES
  layers,   \* channels that exist, CountLayers of them
  list,     \* pPLCIList: Counter and PLCIField of the controllers
  state,    \* per channel: free, indicated, taken, leaving
  plci,     \* per channel: its PLCI, 0 for IllegalPLCI
  told,     \* per call: the channels that CAPI signals it to
  undone    \* history: calls whose claim a channel freed that had none

plciVars == <<layers, list, state, plci, told, undone>>

Controllers == {Cntrl(p) : p \in PLCIs}
Places == {Place(p) : p \in PLCIs}

(* No element.                                                             *)
NoElement == [counter |-> 0, field |-> {}]
EmptyList == [k \in Controllers |-> NoElement]

IsSet(p) == Place(p) \in list[Cntrl(p)].field

PlciInit ==
  /\ layers = {} /\ list = EmptyList
  /\ state = [c \in Channels |-> "free"] /\ plci = [c \in Channels |-> 0]
  /\ told = [p \in PLCIs |-> {}] /\ undone = {}

(* CCAPI20_Layer and ~CCAPI20_Layer, when the channel has no call.         *)
NewLayer(c) ==
  /\ c \notin layers /\ layers' = layers \cup {c}
  /\ UNCHANGED <<list, state, plci, told, undone>>

DeleteLayer(c) ==
  /\ c \in layers /\ state[c] = "free" /\ layers' = layers \ {c}
  /\ list' = IF layers' = {} THEN EmptyList ELSE list
  /\ UNCHANGED <<state, plci, told, undone>>

(* Bugs: a bit of an element that is there is not counted; the element is  *)
(* made anew.                                                              *)
SetEntryUncounted(p) ==
  list' = [list EXCEPT ![Cntrl(p)] =
            [counter |-> IF @ = NoElement THEN 1 ELSE @.counter, field |-> @.field \cup {Place(p)}]]
SetEntryAnew(p) == list' = [list EXCEPT ![Cntrl(p)] = [counter |-> 1, field |-> {Place(p)}]]

(* TestAndSetPLCIEntry, when the bit is not set.                           *)
SetEntry(p) ==
  list' = [list EXCEPT ![Cntrl(p)] =
            [counter |-> @.counter + 1, field |-> @.field \cup {Place(p)}]]

(* UnsetPLCIEntry.                                                         *)
Unset(p) ==
  IF ~IsSet(p) THEN list
  ELSE [list EXCEPT ![Cntrl(p)] =
         IF @.counter = 1 THEN NoElement
         ELSE [counter |-> @.counter - 1, field |-> @.field \ {Place(p)}]]

(* ResetValues                                                             *)
ResetValues(c) ==
  /\ list' = Unset(plci[c])
  /\ plci' = [plci EXCEPT ![c] = 0]
  /\ state' = [state EXCEPT ![c] = "free"]
  /\ undone' = IF state[c] # "taken" /\ IsSet(plci[c]) THEN undone \cup {plci[c]} ELSE undone

(* The network: a call, for the channels that listen.                      *)
Rings(p) ==
  /\ told[p] = {} /\ layers # {}
  /\ \A c \in Channels : plci[c] # p
  /\ told' = [told EXCEPT ![p] = layers]
  /\ undone' = undone \ {p}
  /\ UNCHANGED <<layers, list, state, plci>>

CONNECT_IND(c, p) ==
  /\ c \in told[p] \cap layers /\ state[c] = "free"
  /\ told' = [told EXCEPT ![p] = @ \ {c}]
  /\ plci' = [plci EXCEPT ![c] = p]
  /\ state' = [state EXCEPT ![c] = "indicated"]
  /\ UNCHANGED <<layers, list, undone>>

(* A busy channel has it ignored by CCAPI20_MsgBase; for one that is gone  *)
(* CAPI has no application any more.                                       *)
Ignored(c, p) ==
  /\ c \in told[p] /\ (c \in layers => state[c] # "free")
  /\ told' = [told EXCEPT ![p] = @ \ {c}]
  /\ UNCHANGED <<layers, list, state, plci, undone>>

(* The loser of a claim disconnects.                                       *)
AcceptIncomingCall(c) ==
  /\ state[c] = "indicated"
  /\ IF IsSet(plci[c])
     THEN state' = [state EXCEPT ![c] = "leaving"] /\ UNCHANGED list
     ELSE state' = [state EXCEPT ![c] = "taken"] /\ SetEntry(plci[c])
  /\ UNCHANGED <<layers, plci, told, undone>>

(* ConnectResp with another answer than creject_Accept.                    *)
ConnectRespIgnore(c) ==
  /\ state[c] = "indicated" /\ ResetValues(c)
  /\ UNCHANGED <<layers, told>>

(* DISCONNECT_IND, or the time for it is over.                             *)
DISCONNECT_IND(c) ==
  /\ state[c] \in {"indicated", "taken", "leaving"} /\ ResetValues(c)
  /\ UNCHANGED <<layers, told>>

PlciNext ==
  \/ \E c \in Channels :
       NewLayer(c) \/ DeleteLayer(c) \/ AcceptIncomingCall(c) \/ ConnectRespIgnore(c)
       \/ DISCONNECT_IND(c)
  \/ \E p \in PLCIs : Rings(p)
  \/ \E p \in PLCIs, c \in Channels : CONNECT_IND(c, p) \/ Ignored(c, p)

PlciSpec == PlciInit /\ [][PlciNext]_plciVars

-----------------------------------------------------------------------------
PlciTypeOK ==
  /\ layers \subseteq Channels
  /\ list \in [Controllers -> [counter : Nat, field : SUBSET Places]]
  /\ state \in [Channels -> {"free", "indicated", "taken", "leaving"}]
  /\ plci \in [Channels -> PLCIs \cup {0}]
  /\ told \in [PLCIs -> SUBSET Channels]
  /\ undone \subseteq PLCIs
  /\ \A c \in Channels : plci[c] = 0 <=> state[c] = "free"

(* An element counts its bits: deleted with the last of them, it takes no  *)
(* claim of another call along.                                            *)
CounterExact == \A k \in Controllers :
  IsFiniteSet(list[k].field) /\ list[k].counter = Cardinality(list[k].field)

Taken(p) == {c \in Channels : plci[c] = p /\ state[c] = "taken"}

(* A call has at most one channel that takes it, and its claim stands as   *)
(* long as that channel has the call, whatever the others claim and free:  *)
(* but one that leaves the call to others frees the claim of the channel   *)
(* that has it (ResetValues, see the README).                              *)
SoleClaimElse ==
  \A p \in PLCIs \ undone :
    /\ \A c, d \in Taken(p) : c = d
    /\ Taken(p) # {} => IsSet(p)
    /\ IsSet(p) => Taken(p) # {}

(* The list forgets a call only for a channel that has had it.             *)
OnlyItsOwn ==
  [][\A p \in PLCIs : IsSet(p) /\ ~IsSet(p)' => \E c \in Channels : plci[c] = p /\ plci'[c] = 0]_plciVars
=============================================================================
