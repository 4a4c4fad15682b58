------------------------------ MODULE PutQueue ------------------------------
(***************************************************************************)
(* One CAPI registration, statement by statement: the put queue of         *)
(* CCAPI20_MsgBase (src/capi/CapiMsg.cpp), the registration record and the *)
(* thread of CapiBase (src/linuxdep/CapiBase.cpp), shared by application   *)
(* threads, the CAPI thread and the SIGALRM handler that interrupts one of *)
(* them.  Module Channel treats a put as one step; here is what that takes.*)
(***************************************************************************)
EXTENDS Integers, Sequences

CONSTANTS
  Users,     \* application threads
  Capi,      \* the thread of the registration
  Sig,       \* the SIGALRM handler
  MaxPuts,   \* bound: messages
  MaxRegs,   \* bound: registrations
  MaxSigs    \* bound: timers that fire

Nobody == "nobody"
Threads == Users \cup {Capi, Sig}

ASSUME PutQueueAssumption ==
  /\ Capi \notin Users /\ Sig \notin Users /\ Capi # Sig /\ Nobody \notin Threads
  /\ {MaxPuts, MaxRegs, MaxSigs} \subseteq Nat

VARIABLES
  queue,    \* PutMsgbufferQueue
  cur,      \* m_CurPutMessage, empty for null
  lock,     \* who holds m_Protect
  appl,     \* ApplID() # IllegalApplID
  base,     \* m_hCapiBase # vIllegalHandle
  pice,     \* the registration record: allocated, StopThread, bogus id
  cs,       \* curState of the channel: released, registering, up, releasing
  stack,    \* per thread the statements it has still to do, the next one first
  on,       \* the thread that SIGALRM has interrupted
  crash,    \* the registration has ended under a thread that uses it
  sent,     \* history: messages given to CAPI
  count     \* puts asked for and numbers given, registrations, timers so far

vars == <<queue, cur, lock, appl, base, pice, cs, stack, on, crash, sent, count>>

(* A message is its number; Release marks the RELEASE that was queued.     *)
Release == 0

NoPice == [live |-> FALSE, stop |-> FALSE, bogus |-> FALSE]

Init ==
  /\ queue = <<>> /\ cur = <<>> /\ lock = Nobody
  /\ appl = FALSE /\ base = FALSE /\ pice = NoPice /\ cs = "released"
  /\ stack = [t \in Threads |-> <<>>]
  /\ on = Nobody /\ crash = FALSE /\ sent = <<>>
  /\ count = [puts |-> 0, given |-> 0, regs |-> 0, sigs |-> 0]

At(t, label) ==
  /\ ~crash /\ on # t
  /\ stack[t] # <<>> /\ Head(stack[t]) = label

Do(t, labels) == stack' = [stack EXCEPT ![t] = labels \o Tail(@)]

Crash == crash' = TRUE

(* A thread that is between two calls; the handler only after SIGALRM.     *)
Idle(t) == ~crash /\ on # t /\ stack[t] = <<>> /\ t \in Users

(* A thread between OutQueue and FreeCurPutMsg, or in CapiBase_Release: the*)
(* message is its own, and nobody else is to end the registration then.    *)
Using(t) ==
  \E i \in DOMAIN stack[t] :
    stack[t][i] \in {"look", "put", "free", "release", "stop"}

Overtakes(t) == crash' = \E u \in Threads \ {t} : Using(u)

-----------------------------------------------------------------------------
(* AllocAndPutMsg and RELEASE                                              *)

(* The channel tests its state before it asks for a message.               *)
AsksForPut(t) ==
  /\ Idle(t) /\ cs = "up" /\ count.puts < MaxPuts
  /\ count' = [count EXCEPT !.puts = @ + 1]
  /\ stack' = [stack EXCEPT ![t] = <<"alloc", "empty">>]
  /\ UNCHANGED <<queue, cur, lock, appl, base, pice, cs, on, crash, sent>>

AsksForRelease(t) ==
  /\ Idle(t) /\ cs = "up"
  /\ cs' = "releasing"
  /\ stack' = [stack EXCEPT ![t] = <<"flush", "mark", "empty">>]
  /\ UNCHANGED <<queue, cur, lock, appl, base, pice, on, crash, sent, count>>

(* The timers of the channel disconnect it or release it.                  *)
SignalArrives(t) ==
  /\ ~crash /\ on = Nobody /\ stack[Sig] = <<>> /\ cs = "up" /\ t # Sig
  /\ count.sigs < MaxSigs
  /\ on' = t
  /\ \/ /\ stack' = [stack EXCEPT ![Sig] = <<"alloc", "empty">>]
        /\ count' = [count EXCEPT !.sigs = @ + 1, !.puts = @ + 1]
        /\ cs' = cs
     \/ /\ stack' = [stack EXCEPT ![Sig] = <<"flush", "mark", "empty">>]
        /\ count' = [count EXCEPT !.sigs = @ + 1]
        /\ cs' = "releasing"
  /\ UNCHANGED <<queue, cur, lock, appl, base, pice, crash, sent>>

SignalReturns ==
  /\ ~crash /\ on # Nobody /\ stack[Sig] = <<>>
  /\ on' = Nobody
  /\ UNCHANGED <<queue, cur, lock, appl, base, pice, cs, stack, crash, sent, count>>

InQueue(t) ==
  /\ At(t, "alloc")
  /\ queue' = Append(queue, count.given + 1)
  /\ count' = [count EXCEPT !.given = @ + 1]
  /\ Do(t, <<>>)
  /\ UNCHANGED <<cur, lock, appl, base, pice, cs, on, crash, sent>>

FreeQueue(t) ==
  /\ At(t, "flush")
  /\ queue' = <<>>
  /\ Do(t, <<>>)
  /\ UNCHANGED <<cur, lock, appl, base, pice, cs, on, crash, sent, count>>

QueuesRelease(t) ==
  /\ At(t, "mark")
  /\ queue' = Append(queue, Release)
  /\ Do(t, <<>>)
  /\ UNCHANGED <<cur, lock, appl, base, pice, cs, on, crash, sent, count>>

-----------------------------------------------------------------------------
(* EmptyPutMsgbufferQueue, PutMessageComplete and FreeCurPutMsg            *)

BeginWrite(t) ==
  /\ At(t, "empty") /\ lock = Nobody
  /\ lock' = t
  /\ Do(t, <<"out">>)
  /\ UNCHANGED <<queue, cur, appl, base, pice, cs, on, crash, sent, count>>

(* Bug: takes a message though another is on its way.                      *)
OutQueueAnyway(t) ==
  /\ At(t, "out")
  /\ lock' = Nobody
  /\ IF queue # <<>>
     THEN cur' = <<Head(queue)>> /\ queue' = Tail(queue) /\ Do(t, <<"look">>)
     ELSE UNCHANGED <<cur, queue>> /\ Do(t, <<>>)
  /\ UNCHANGED <<appl, base, pice, cs, on, crash, sent, count>>

(* Only who finds m_CurPutMessage empty takes the next message.            *)
OutQueue(t) ==
  /\ At(t, "out")
  /\ lock' = Nobody
  /\ IF cur = <<>> /\ queue # <<>>
     THEN cur' = <<Head(queue)>> /\ queue' = Tail(queue) /\ Do(t, <<"look">>)
     ELSE UNCHANGED <<cur, queue>> /\ Do(t, <<>>)
  /\ UNCHANGED <<appl, base, pice, cs, on, crash, sent, count>>

(* After the unlock: without an id the message is dropped.                 *)
LooksAtMessage(t) ==
  /\ At(t, "look")
  /\ CASE cur = <<>> -> Crash /\ UNCHANGED stack
       [] cur = <<Release>> -> Do(t, <<"free", "release">>) /\ UNCHANGED crash
       [] OTHER -> Do(t, IF appl THEN <<"put">> ELSE <<"free">>) /\ UNCHANGED crash
  /\ UNCHANGED <<queue, cur, lock, appl, base, pice, cs, on, sent, count>>

(* Bug: does not look for the messages that came in meanwhile.             *)
CompletedAlone == <<"free">>

Completed == <<"free", "empty">>

Failed == <<"flush", "mark", "empty">>

(* CapiBase_PutMessage; an unknown id ends in a RELEASE from within.       *)
PutMessage(t) ==
  /\ At(t, "put")
  /\ IF ~base \/ ~pice.live THEN Crash /\ UNCHANGED <<sent, stack>>
     ELSE /\ UNCHANGED crash
          /\ \/ appl /\ ~pice.bogus /\ sent' = sent \o cur /\ Do(t, Completed)
             \/ sent' = sent /\ Do(t, IF appl THEN Failed \o Completed ELSE Completed)
  /\ UNCHANGED <<queue, cur, lock, appl, base, pice, cs, on, count>>

FreeCurPutMsg(t) ==
  /\ At(t, "free") /\ lock = Nobody
  /\ cur' = <<>>
  /\ Do(t, <<>>)
  /\ Overtakes(t)
  /\ UNCHANGED <<queue, lock, appl, base, pice, cs, on, sent, count>>

-----------------------------------------------------------------------------
(* CapiBase                                                                *)

(* CapiBase_Release: first the id, then StopThread.                        *)
TakesId(t) ==
  /\ At(t, "release")
  /\ IF ~base \/ ~pice.live THEN Crash /\ UNCHANGED <<appl, stack>>
     ELSE appl' = FALSE /\ Do(t, <<"stop">>) /\ UNCHANGED crash
  /\ UNCHANGED <<queue, cur, lock, base, pice, cs, on, sent, count>>

(* Bug: the thread is not told.                                            *)
StopsThreadUntold(t) ==
  /\ At(t, "stop")
  /\ Do(t, <<>>)
  /\ UNCHANGED <<queue, cur, lock, appl, base, pice, cs, on, crash, sent, count>>

StopsThread(t) ==
  /\ At(t, "stop")
  /\ IF ~pice.live THEN Crash /\ UNCHANGED <<pice, stack>>
     ELSE pice' = [pice EXCEPT !.stop = TRUE] /\ Do(t, <<>>) /\ UNCHANGED crash
  /\ UNCHANGED <<queue, cur, lock, appl, base, cs, on, sent, count>>

(* REGISTER and CapiBase_Register, when it comes to a thread.  The result  *)
(* of capi20_register is not looked at: the id may be anything.            *)
Registers ==
  /\ ~crash /\ cs = "released" /\ stack[Capi] = <<>> /\ on # Capi
  /\ count.regs < MaxRegs
  /\ count' = [count EXCEPT !.regs = @ + 1]
  /\ queue' = <<>> /\ cur' = <<>> /\ lock = Nobody
  /\ appl' = TRUE /\ cs' = "registering"
  /\ \E bogus \in BOOLEAN : pice' = [live |-> TRUE, stop |-> FALSE, bogus |-> bogus]
  /\ stack' = [stack EXCEPT ![Capi] = <<"start">>]
  /\ Overtakes(Capi)
  /\ UNCHANGED <<lock, base, on, sent>>

(* RegisterComplete, after which the channel takes requests or releases.   *)
RegisterComplete ==
  /\ At(Capi, "start")
  /\ base' = TRUE
  /\ \/ cs' = "up" /\ Do(Capi, <<"loop">>)
     \/ cs' = "releasing" /\ Do(Capi, <<"flush", "mark", "empty", "loop">>)
  /\ UNCHANGED <<queue, cur, lock, appl, pice, on, crash, sent, count>>

(* The loop: a message whose handler puts one or releases, or an error,    *)
(* that makes HandleMessageError release without asking the channel.       *)
GetMessage ==
  /\ At(Capi, "loop") /\ ~pice.stop
  /\ \/ /\ ~pice.bogus /\ cs = "up" /\ count.puts < MaxPuts
        /\ Do(Capi, <<"alloc", "empty", "loop">>)
        /\ count' = [count EXCEPT !.puts = @ + 1]
        /\ cs' = cs
     \/ /\ ~pice.bogus /\ cs = "up" /\ cs' = "releasing"
        /\ Do(Capi, <<"flush", "mark", "empty", "loop">>)
        /\ count' = count
     \/ /\ (pice.bogus => appl)
        /\ Do(Capi, <<"flush", "mark", "empty", "loop">>)
        /\ UNCHANGED <<count, cs>>
  /\ UNCHANGED <<queue, cur, lock, appl, base, pice, on, crash, sent>>

ThreadEnds ==
  /\ At(Capi, "loop") /\ pice.stop
  /\ pice' = NoPice
  /\ Overtakes(Capi)
  /\ Do(Capi, <<"released">>)
  /\ UNCHANGED <<queue, cur, lock, appl, base, cs, on, sent, count>>

ReleaseComplete ==
  /\ At(Capi, "released")
  /\ base' = FALSE
  /\ Do(Capi, <<"flush", "free", "complete">>)
  /\ UNCHANGED <<queue, cur, lock, appl, pice, cs, on, crash, sent, count>>

RELEASE_COMPLETE ==
  /\ At(Capi, "complete")
  /\ cs' = "released"
  /\ Do(Capi, <<>>)
  /\ UNCHANGED <<queue, cur, lock, appl, base, pice, on, crash, sent, count>>

Step(t) ==
  \/ InQueue(t) \/ FreeQueue(t) \/ QueuesRelease(t)
  \/ BeginWrite(t) \/ OutQueue(t) \/ LooksAtMessage(t)
  \/ PutMessage(t) \/ FreeCurPutMsg(t)
  \/ TakesId(t) \/ StopsThread(t)

CapiStep ==
  \/ RegisterComplete \/ GetMessage \/ ThreadEnds \/ ReleaseComplete
  \/ RELEASE_COMPLETE

Next ==
  \/ \E t \in Users : AsksForPut(t) \/ AsksForRelease(t)
  \/ \E t \in Threads : SignalArrives(t)
  \/ SignalReturns \/ Registers \/ CapiStep
  \/ \E t \in Threads : Step(t)

Spec == Init /\ [][Next]_vars

(* Every thread goes on, gets a lock that is free again and again, and the *)
(* loop of the CAPI thread is woken.                                       *)
QueueFairness ==
  /\ \A t \in Threads : SF_vars(Step(t))
  /\ WF_vars(CapiStep) /\ WF_vars(SignalReturns)

FairSpec == Spec /\ QueueFairness

-----------------------------------------------------------------------------
(* Messages go to CAPI in the order in which they were queued, none twice. *)
(* No lock covers what a thread does between taking a message and freeing  *)
(* it: a registration that ends meanwhile frees the message of that thread,*)
(* which then puts another one twice or crashes (the model stops there).   *)
PutsInOrder ==
  ~crash => \A i, j \in DOMAIN sent : i < j => sent[i] < sent[j]

Emptying(t) ==
  \E i \in DOMAIN stack[t] : stack[t][i] \in {"empty", "out", "look", "put", "free", "release"}

(* While the id is valid no message is left in the queue, or as the current*)
(* one, without a thread that will come back for it or gives the id back.  *)
NothingLeftBehind ==
  appl /\ ~crash /\ (queue # <<>> \/ cur # <<>>) => \E t \in Threads : Emptying(t)

(* The handler waits for the lock of the thread that it has interrupted.   *)
SelfDeadlock == on # Nobody /\ lock = on

(* A RELEASE that is asked for ends the registration, whoever else is at   *)
(* the queue; only the two races of the README keep it from that.          *)
ReleaseEnds ==
  cs = "releasing" ~> (cs = "released" \/ crash \/ SelfDeadlock)

(* The assertion of EmptyPutMsgbufferQueue and of CapiBase_Release: the    *)
(* registration is there for the one who puts or releases.                 *)
RegistrationThere == ~crash
=============================================================================
