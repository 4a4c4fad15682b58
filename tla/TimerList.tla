----------------------------- MODULE TimerList -----------------------------
(***************************************************************************)
(* The second timers of the channels: SecTimer, CSystemTicker and the      *)
(* linked CTimerList (src/linuxdep).  Channels start and cancel their own  *)
(* timer on their own threads; the SIGALRM handler walks the list and      *)
(* calls back.  Nothing is locked, so a step here is what one of them does *)
(* between two accesses to the memory that they share: it looks at a slot  *)
(* of the list or writes one pointer.  Targets are kept relative to the    *)
(* present tick.                                                           *)
(***************************************************************************)
EXTENDS Integers, Sequences

CONSTANTS
  N,        \* timers, one per channel
  MaxSecs,   \* the longest time, at most 1800 in the code
  MaxMeets   \* operations that channels begin during one walk of the handler

ASSUME TimerListAssumption ==
  N \in Nat \ {0} /\ MaxSecs \in 1 .. 1800 /\ MaxMeets \in Nat

Slots == 1 .. N      \* CTimerSlot, 0 for a null pointer
None == 0
Handler == 0         \* among those who act, where a slot stands for its channel

VARIABLES
  timers,    \* CTimerList: its head and the links of the slots
  target,    \* per slot target - ticks, 0 when that has come
  slot,      \* per slot: "none", "off", "on"
  op,        \* per slot: the operation under way on it, with tmp1 and tmp2
  walk,      \* the handler: where it is and tmp1, tmp2, tmp3 of Notify
  met,       \* history: who is under way while another has written
  astray     \* history: "no", or somebody wrote where the list had changed

timerVars == <<timers, target, slot, op, walk, met, astray>>

(* at: "seek" and "unlink" of Remove, "add", "place" and "link" of Add;    *)
(* then: what becomes of the slot.                                         *)
NoOp == [at |-> "none", then |-> "off", tmp1 |-> None, tmp2 |-> None, next |-> None]
NoWalk == [at |-> "idle", tmp1 |-> None, tmp2 |-> None, tmp3 |-> None, meets |-> 0]

TimerInit ==
  /\ timers = [list |-> None, link |-> [s \in Slots |-> None]]
  /\ target = [s \in Slots |-> 0]
  /\ slot = [s \in Slots |-> "none"]
  /\ op = [s \in Slots |-> NoOp] /\ walk = NoWalk
  /\ met = {} /\ astray = "no"

-----------------------------------------------------------------------------
(* CTimerList                                                              *)

(* What stands at a place of a sequence of slots, None beyond its ends.    *)
Nth(c, i) == IF i \in DOMAIN c THEN c[i] ELSE None

(* The head and the links lead through c and end there.                    *)
Linked(l, c) ==
  /\ l.list = Nth(c, 1)
  /\ \A i \in DOMAIN c : l.link[c[i]] = Nth(c, i + 1)

(* The slots of the list in their order.                                   *)
Order(l) == CHOOSE c \in UNION {[1 .. n -> Slots] : n \in 0 .. N} : Linked(l, c)

Listed(l) == {Order(l)[i] : i \in DOMAIN Order(l)}

(* What comes behind a slot; the head of the list for None.                *)
Behind(l, s) == IF s = None THEN l.list ELSE l.link[s]

(* Bug: the head of the list is not set.                                   *)
SetNextNoHead(l, s, next) == IF s = None THEN l ELSE [l EXCEPT !.link[s] = next]

SetNext(l, s, next) ==
  IF s = None THEN [l EXCEPT !.list = next] ELSE [l EXCEPT !.link[s] = next]

(* tmp2 is a slot of the list or before its head.                          *)
Stands(tmp2) == tmp2 = None \/ tmp2 \in Listed(timers)

(* internal_Remove may take s1, which stands behind s2 and before next.    *)
MayUnlink(s1, s2, next) ==
  s1 # None /\ Stands(s2) /\ Behind(timers, s2) = s1 /\ timers.link[s1] = next

(* Add may put s behind tmp2.                                              *)
MayLink(s, tmp2) ==
  LET tmp1 == Behind(timers, tmp2) IN
  /\ Stands(tmp2) /\ s \notin Listed(timers) /\ timers.link[s] = tmp1
  /\ tmp2 # None => target[tmp2] <= target[s]
  /\ tmp1 # None => target[s] <= target[tmp1]

-----------------------------------------------------------------------------
(* Who is under way                                                        *)

UnderWay ==
  {s \in Slots : op[s].at # "none"} \cup (IF walk.at = "idle" THEN {} ELSE {Handler})

(* A slot that was deleted is what somebody will look at or call next.     *)
Deleted(s) == s # None /\ slot[s] = "none"
InDeleted ==
  {s \in Slots : op[s].at \in {"seek", "place"} /\ Deleted(op[s].tmp1)}
  \cup {w \in {Handler} : walk.at \in {"turn", "call"} /\ Deleted(walk.tmp1)}

(* The model goes as far as the list is one.                               *)
Whole == astray = "no" /\ InDeleted = {}

(* The operation on s is part of the callback.                             *)
InCallBack(s) == walk.at = "back" /\ walk.tmp1 = s

(* w has written, where it may or not: all others have met that.           *)
Writes(w, may) ==
  /\ met' = (met \cup (UnderWay \ {w, IF InCallBack(w) THEN Handler ELSE w})) \cap UnderWay'
  /\ astray' = IF may THEN "no" ELSE IF w \in met THEN "met" ELSE "alone"

(* Notify goes on behind the slot that it has called.                      *)
Onward == [walk EXCEPT !.at = "turn", !.tmp1 = walk.tmp3, !.tmp3 = None]
GoesBack(s) ==
  walk' = IF InCallBack(s) THEN Onward ELSE walk

-----------------------------------------------------------------------------
(* The operations on a slot, by its channel or its callback                *)

(* Every operation begins with Remove; two on one slot are astray.         *)
Begins(s, then) ==
  IF op[s].at = "none"
  THEN /\ op' = [op EXCEPT ![s] = [NoOp EXCEPT !.at = "seek", !.then = then,
                                               !.tmp1 = timers.list]]
       /\ UNCHANGED astray
  ELSE astray' = "met" /\ UNCHANGED op

(* A channel begins, alone or while the handler walks the list.            *)
ChannelBegins(s, then) ==
  /\ Whole /\ slot[s] # "none" /\ Begins(s, then)
  /\ walk.at # "idle" => walk.meets < MaxMeets
  /\ walk' = IF walk.at = "idle" THEN walk ELSE [walk EXCEPT !.meets = @ + 1]
  /\ UNCHANGED <<timers, target, slot, met>>

Create(s) ==
  /\ Whole /\ slot[s] = "none"
  /\ slot' = [slot EXCEPT ![s] = "off"]
  /\ timers' = SetNext(timers, s, None) /\ target' = [target EXCEPT ![s] = 0]
  /\ UNCHANGED <<op, walk, met, astray>>

(* SecTimer_Call cancels the timer and adds it again.                      *)
Call(s) == ChannelBegins(s, "on")
Cancel(s) == ChannelBegins(s, "off")

(* Destroy cancels the timer and deletes the slot.                         *)
Destroy(s) == ChannelBegins(s, "none")

Looks(s, at) == Whole /\ op[s].at = at

(* The loop of Remove, as that of Add, passes a slot.                      *)
Passes(s) ==
  /\ op' = [op EXCEPT ![s].tmp2 = op[s].tmp1, ![s].tmp1 = timers.link[op[s].tmp1]]
  /\ UNCHANGED <<timers, target, slot, walk, met, astray>>

RemovePasses(s) == Looks(s, "seek") /\ op[s].tmp1 \notin {None, s} /\ Passes(s)

(* It is found: internal_Remove reads what comes behind it.                *)
RemoveFinds(s) ==
  /\ Looks(s, "seek") /\ op[s].tmp1 = s
  /\ op' = [op EXCEPT ![s].at = "unlink", ![s].next = timers.link[s]]
  /\ UNCHANGED <<timers, target, slot, walk, met, astray>>

(* Remove returns: to SecTimer_Call, which goes on to Add, or for good.    *)
RemoveEnds(s) ==
  /\ slot' = [slot EXCEPT ![s] = IF op[s].then = "none" THEN "none" ELSE "off"]
  /\ IF op[s].then = "on"
     THEN op' = [op EXCEPT ![s] = [NoOp EXCEPT !.at = "add", !.then = "on"]]
          /\ UNCHANGED walk
     ELSE op' = [op EXCEPT ![s] = NoOp] /\ GoesBack(s)

RemoveUnlinks(s) ==
  /\ Looks(s, "unlink")
  /\ timers' = SetNext(timers, op[s].tmp2, op[s].next)
  /\ RemoveEnds(s) /\ UNCHANGED target
  /\ Writes(s, MayUnlink(s, op[s].tmp2, op[s].next))

RemoveFindsNot(s) ==
  /\ Looks(s, "seek") /\ op[s].tmp1 = None
  /\ RemoveEnds(s) /\ UNCHANGED <<timers, target>>
  /\ Writes(s, s \notin Listed(timers))

AddBegins(s) ==
  /\ Looks(s, "add")
  /\ \E secs \in 1 .. MaxSecs : target' = [target EXCEPT ![s] = secs]
  /\ op' = [op EXCEPT ![s].at = "place", ![s].tmp1 = timers.list]
  /\ met' = met \ {s} /\ UNCHANGED <<timers, slot, walk, astray>>

(* Of two that are due either may be the earlier.                          *)
AddPasses(s) ==
  LET tmp1 == op[s].tmp1 IN
  /\ Looks(s, "place") /\ tmp1 # None
  /\ target[tmp1] < target[s] \/ target[tmp1] = 0
  /\ Passes(s)

AddHolds(s) ==
  LET tmp1 == op[s].tmp1 IN
  /\ Looks(s, "place") /\ (tmp1 # None => target[tmp1] >= target[s])
  /\ timers' = SetNext(timers, s, tmp1)
  /\ op' = [op EXCEPT ![s].at = "link", ![s].tmp1 = None]
  /\ UNCHANGED <<target, slot, walk>> /\ Writes(s, TRUE)

AddLinks(s) ==
  /\ Looks(s, "link")
  /\ timers' = SetNext(timers, op[s].tmp2, s)
  /\ op' = [op EXCEPT ![s] = NoOp] /\ slot' = [slot EXCEPT ![s] = "on"]
  /\ GoesBack(s) /\ UNCHANGED target
  /\ Writes(s, MayLink(s, op[s].tmp2))

Goes(s) ==
  \/ RemovePasses(s) \/ RemoveFinds(s) \/ RemoveUnlinks(s) \/ RemoveFindsNot(s)
  \/ AddBegins(s) \/ AddPasses(s) \/ AddHolds(s) \/ AddLinks(s)

-----------------------------------------------------------------------------
(* SIGALRM                                                                 *)

Walks(at) == Whole /\ walk.at = at

(* tick_handler: IncrementTicks and the begin of Notify.                   *)
Tick ==
  /\ Walks("idle")
  /\ target' = [s \in Slots |-> IF target[s] = 0 THEN 0 ELSE target[s] - 1]
  /\ walk' = [NoWalk EXCEPT !.at = "turn", !.tmp1 = timers.list]
  /\ UNCHANGED <<timers, slot, op, met, astray>>

NotifyPasses ==
  /\ Walks("turn") /\ walk.tmp1 # None /\ target[walk.tmp1] > 0
  /\ walk' = [walk EXCEPT !.tmp2 = walk.tmp1, !.tmp1 = timers.link[walk.tmp1]]
  /\ UNCHANGED <<timers, target, slot, op, met, astray>>

(* A slot is due: internal_Remove reads what comes behind it,              *)
NotifyFinds ==
  /\ Walks("turn") /\ walk.tmp1 # None /\ target[walk.tmp1] = 0
  /\ walk' = [walk EXCEPT !.at = "unlink", !.tmp3 = timers.link[walk.tmp1]]
  /\ UNCHANGED <<timers, target, slot, op, met, astray>>

(* Bug: the slot stays on the list while it is called back.                *)
NotifyUnlinksNot ==
  /\ Walks("unlink")
  /\ walk' = [walk EXCEPT !.at = "call"]
  /\ UNCHANGED <<timers, target, slot, op, met, astray>>

(* and takes it off the list.                                              *)
NotifyUnlinks ==
  /\ Walks("unlink")
  /\ timers' = SetNext(timers, walk.tmp2, walk.tmp3)
  /\ walk' = [walk EXCEPT !.at = "call"]
  /\ UNCHANGED <<target, slot, op>>
  /\ Writes(Handler, MayUnlink(walk.tmp1, walk.tmp2, walk.tmp3))

NotifyEnds ==
  /\ Walks("turn") /\ walk.tmp1 = None
  /\ walk' = NoWalk /\ met' = met \ {Handler}
  /\ UNCHANGED <<timers, target, slot, op, astray>>

(* The callback leaves its timer.                                          *)
Fired(s) ==
  [slot EXCEPT ![s] = IF s \in Listed(timers) \/ op[s].at # "none" THEN @ ELSE "off"]

(* DoCallBack: the channel leaves its timer, starts it anew or cancels it. *)
DoCallBack ==
  /\ Walks("call")
  /\ \/ /\ walk' = Onward
        /\ slot' = Fired(walk.tmp1) /\ UNCHANGED <<op, astray>>
     \/ /\ walk' = [walk EXCEPT !.at = "back"]
        /\ \E then \in {"on", "off"} : Begins(walk.tmp1, then)
        /\ UNCHANGED slot
  /\ UNCHANGED <<timers, target, met>>

Notifies == NotifyPasses \/ NotifyFinds \/ NotifyUnlinks \/ NotifyEnds \/ DoCallBack

TimerNext ==
  \/ \E s \in Slots : Create(s) \/ Call(s) \/ Cancel(s) \/ Destroy(s) \/ Goes(s)
  \/ Tick \/ Notifies

(* SIGALRM comes every second, its handler runs, and so do the threads.    *)
TimerFairness ==
  /\ WF_timerVars(Tick \/ Notifies)
  /\ \A s \in Slots : WF_timerVars(Goes(s))

TimerSpec == TimerInit /\ [][TimerNext]_timerVars /\ TimerFairness

-----------------------------------------------------------------------------
(* The list holds exactly the timers that are on, each once and in the     *)
(* order of their targets, but for those in somebody's hand, as long as    *)
(* nobody wrote to a place that the list does not have any more.           *)
HoldsTimers ==
  LET c == Order(timers) IN
  astray = "no" =>
    /\ Linked(timers, c)
    /\ \A i, j \in DOMAIN c : i < j => c[i] # c[j] /\ target[c[i]] <= target[c[j]]
    /\ Listed(timers) \subseteq {s \in Slots : slot[s] = "on"}
    /\ \A s \in Slots : slot[s] = "on" =>
         \/ s \in Listed(timers) \/ op[s].at # "none"
         \/ walk.at = "call" /\ s = walk.tmp1

(* Somebody goes astray only if another has written since he began: the    *)
(* loops of Add, Remove and Notify come to the right place by themselves,  *)
(* also Notify whose callbacks start timers.                               *)
AstrayTakesTwo == astray # "alone" /\ (astray = "no" => InDeleted \subseteq met)

(* No timer is lost from the list but where two meet: not by the callbacks *)
(* that start and cancel timers while Notify walks it, and not by what a   *)
(* channel does between the walks.                                         *)
ListHoldsTimers == AstrayTakesTwo /\ HoldsTimers

IsOn(s) == slot[s] = "on" /\ Whole

(* A timer that is on becomes due and then fires, or its channel takes it  *)
(* off: also one that its own callback starts again and again.  The slots  *)
(* are alike, the first stands for all of them.                            *)
TimersFire == IsOn(1) ~> ~IsOn(1)
=============================================================================
