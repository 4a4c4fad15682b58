----------------------------- MODULE RecvDevice -----------------------------
(***************************************************************************)
(* The devices of c2faxrecv, CFaxReceiveDevice (src/faxrecv/recvdev.cpp),  *)
(* the main program that owns them, CFaxReceiveMain (recvmain.cpp), and    *)
(* the receivers of each device (faxrecv.cpp), of which only their life is *)
(* kept: module Channel has the rest.  The main thread starts and stops    *)
(* receivers; each receiver deletes itself on its own CAPI thread and then *)
(* reports to its device, which deletes itself after the last report.      *)
(* None of the lists has a lock, so the main thread's statements on them   *)
(* are steps of their own.                                                 *)
(***************************************************************************)
EXTENDS Naturals, SequencesExt

CONSTANTS
  Devices,       \* sections of the config file, each with a device
  CountThreads,  \* MaxConcurrentRecvs, 2 by default
  Configured,    \* devices with a controller in CIPMSNList
  CapiFails,     \* CAPI may be missing, refuse to listen, or be lost
  None           \* the null pointer

ASSUME RecvDeviceAssumption ==
  /\ IsFiniteSet(Devices) /\ None \notin Devices
  /\ CountThreads \in Nat
  /\ Configured \subseteq Devices
  /\ CapiFails \in BOOLEAN

Receivers == Devices \X (1 .. CountThreads)
DeviceOf(r) == r[1]

VARIABLES
  list,    \* the main program's list of devices
  dev,     \* per device: alive, Starting, FaxThreads
  st,      \* per receiver: where it is in its life
  main,    \* the main thread
  stale,   \* history: devices used after their deletion
  raced    \* history: devices with a report between lines 268 and 325

vars == <<list, dev, st, main, stale, raced>>

(* at: the statement the main thread is before; cur, next: the devices of  *)
(* a walk over the list; rec: lauf in StopReceive; left: receivers still   *)
(* to create; signal: the walk is that of sighandler_term.                 *)
Points == {"next", "create", "log", "fail", "wait", "visit", "pop", "remove",
           "call", "done", "crash"}

MainThreads ==
  [at : Points, cur : Devices \cup {None}, next : Devices \cup {None},
   rec : Receivers \cup {None}, left : 0 .. CountThreads, signal : BOOLEAN]

(* none: not created; stop: StopReceive was called, CAPI is being released;*)
(* report: deleted, about to call ReceiveStoped; delete: about to delete   *)
(* the device.                                                             *)
Lives == {"none", "listen", "stop", "report", "delete", "gone"}

Running == main.at \notin {"done", "crash"}

(* The element after d, None at the end of the list.                       *)
After(d) ==
  LET i == CHOOSE j \in DOMAIN list : list[j] = d
  IN  IF i < Len(list) THEN list[i + 1] ELSE None

GetFirst == IF list = <<>> THEN None ELSE Head(list)

(* A use of d's memory.                                                    *)
Uses(d) == stale' = IF dev[d].alive THEN stale ELSE stale \cup {d}

(* delete of a device; its destructor takes it off the list.               *)
Delete(d) ==
  /\ Uses(d)
  /\ list' = RemoveFirst(list, d)
  /\ dev' = [dev EXCEPT ![d].alive = FALSE]

-----------------------------------------------------------------------------
Init ==
  /\ list \in SetToSeqs(Devices)
  /\ dev = [d \in Devices |-> [alive |-> TRUE, starting |-> FALSE, threads |-> <<>>]]
  /\ st = [r \in Receivers |-> "none"]
  /\ main = [at |-> "next", cur |-> None, next |-> GetFirst, rec |-> None,
             left |-> 0, signal |-> FALSE]
  /\ stale = {}
  /\ raced = {}

(* StartReceive of the main program goes on to the device after this one.  *)
(* One that is not configured for receiving is deleted.                    *)
StartsDevice ==
  LET d == main.next IN
  /\ main.at = "next" /\ d # None
  /\ IF CountThreads = 0 \/ d \notin Configured
     THEN /\ Delete(d)
          /\ main' = [main EXCEPT !.next = After(d)]
     ELSE /\ dev' = [dev EXCEPT ![d].starting = TRUE]
          /\ main' = [main EXCEPT !.at = "create", !.cur = d, !.next = After(d),
                                  !.left = CountThreads]
          /\ UNCHANGED <<list, stale>>
  /\ UNCHANGED <<st, raced>>

(* A receiver registers and listens.  Without CAPI it is deleted at once,  *)
(* and its report finds Starting set.                                      *)
CreatesReceiver ==
  LET d == main.cur
      r == <<d, main.left>> IN
  /\ main.at = "create" /\ main.left > 0
  /\ \/ /\ st' = [st EXCEPT ![r] = "listen"]
        /\ dev' = [dev EXCEPT ![d].threads = Append(@, r)]
     \/ CapiFails /\ st' = [st EXCEPT ![r] = "gone"] /\ dev' = dev
  /\ main' = [main EXCEPT !.left = @ - 1]
  /\ UNCHANGED <<list, stale, raced>>

TestsReceivers ==
  /\ main.at = "create" /\ main.left = 0
  /\ main' = [main EXCEPT !.at = IF dev[main.cur].threads = <<>> THEN "fail" ELSE "log"]
  /\ UNCHANGED <<list, dev, st, stale, raced>>

EndsStart ==
  /\ main.at = "log"
  /\ dev' = [dev EXCEPT ![main.cur].starting = FALSE]
  /\ main' = [main EXCEPT !.at = "next", !.cur = None]
  /\ UNCHANGED <<list, st, stale, raced>>

(* Starting = vFalse; then the main program deletes the device.            *)
FailsStart ==
  LET d == main.cur IN
  /\ main.at = "fail"
  /\ IF dev[d].starting
     THEN /\ dev' = [dev EXCEPT ![d].starting = FALSE]
          /\ main' = main
          /\ UNCHANGED <<list, stale>>
     ELSE /\ Delete(d)
          /\ main' = [main EXCEPT !.at = "next", !.cur = None]
  /\ UNCHANGED <<st, raced>>

AllStarted ==
  /\ main.at = "next" /\ main.next = None
  /\ main' = [main EXCEPT !.at = "wait"]
  /\ UNCHANGED <<list, dev, st, stale, raced>>

-----------------------------------------------------------------------------
(* WaitOnFIFOs and the signal handler                                      *)

(* The loops return when no device is left; a signal interrupts the wait.  *)
BeginsWalk ==
  /\ main.at = "wait"
  /\ \E signal \in BOOLEAN :
       main' = IF list = <<>> THEN [main EXCEPT !.at = "done"]
               ELSE [main EXCEPT !.at = "visit", !.cur = Head(list), !.signal = signal]
  /\ UNCHANGED <<list, dev, st, stale, raced>>

(* The next device of the walk, or the end of the walk.                    *)
Onward(d) ==
  [main EXCEPT !.at = IF d = None THEN "wait" ELSE "visit", !.cur = d,
               !.next = None, !.rec = None]

(* A walk reads the device it is at: the FIFO handle and the successor.    *)
(* FIFOchanged calls StopReceive on 'Q' and 'SD'.  The links of a deleted  *)
(* device are null, so that reading its successor ends the program.        *)
Visits ==
  LET d == main.cur IN
  /\ main.at = "visit"
  /\ Uses(d)
  /\ IF dev[d].alive
     THEN \E stop \in {main.signal, TRUE} :
            main' = IF stop THEN [main EXCEPT !.at = "pop", !.next = After(d)]
                    ELSE Onward(After(d))
     ELSE main' = [main EXCEPT !.at = "crash"]
  /\ UNCHANGED <<list, dev, st, raced>>

(* Bug: the walk stops after the first device.                             *)
TakesFirstThenWaits ==
  LET d == main.cur IN
  /\ main.at = "pop"
  /\ Uses(d)
  /\ main' = IF dev[d].threads = <<>> THEN Onward(None)
             ELSE [main EXCEPT !.at = "remove", !.rec = Head(dev[d].threads)]
  /\ UNCHANGED <<list, dev, st, raced>>

(* StopReceive of a device: GetFirst, RemoveFirst, StopReceive of the      *)
(* receiver found, until the list is empty.                                *)
TakesFirst ==
  LET d == main.cur IN
  /\ main.at = "pop"
  /\ Uses(d)
  /\ main' = IF dev[d].threads = <<>> THEN Onward(main.next)
             ELSE [main EXCEPT !.at = "remove", !.rec = Head(dev[d].threads)]
  /\ UNCHANGED <<list, dev, st, raced>>

RemovesFirst ==
  LET d == main.cur IN
  /\ main.at = "remove"
  /\ Uses(d)
  /\ dev' = [dev EXCEPT ![d].threads = IF @ = <<>> THEN @ ELSE Tail(@)]
  /\ main' = [main EXCEPT !.at = "call"]
  /\ UNCHANGED <<list, st, raced>>

Stopped(life) == IF life = "listen" THEN "stop" ELSE life

(* Bug: the loop goes on at the successor of an element it has taken off.  *)
StopsReceiverOnly ==
  /\ main.at = "call"
  /\ st' = [st EXCEPT ![main.rec] = Stopped(@)]
  /\ main' = Onward(main.next)
  /\ UNCHANGED <<list, dev, stale, raced>>

StopsReceiver ==
  /\ main.at = "call"
  /\ st' = [st EXCEPT ![main.rec] = Stopped(@)]
  /\ main' = [main EXCEPT !.at = "pop", !.rec = None]
  /\ UNCHANGED <<list, dev, stale, raced>>

-----------------------------------------------------------------------------
(* A receiver, on its CAPI thread                                          *)

(* A listen error, or CAPI is lost.                                        *)
ListenError(r) ==
  /\ CapiFails /\ Running /\ st[r] = "listen"
  /\ st' = [st EXCEPT ![r] = "stop"]
  /\ UNCHANGED <<list, dev, main, stale, raced>>

(* IsReseted: the receiver deletes itself and leaves the list it is in.    *)
(* If it is the one that StopReceive has found and not yet removed, the    *)
(* next RemoveFirst takes another one.                                     *)
IsReseted(r) ==
  LET d == DeviceOf(r) IN
  /\ Running /\ st[r] = "stop"
  /\ st' = [st EXCEPT ![r] = "report"]
  /\ dev' = [dev EXCEPT ![d].threads = RemoveFirst(@, r)]
  /\ raced' = IF main.at = "remove" /\ main.rec = r THEN raced \cup {d} ELSE raced
  /\ UNCHANGED <<list, main, stale>>

(* Bug: ReceiveStoped does not look at the list.                           *)
LastReportAnyway(d) == ~dev[d].starting
(* if ((Starting == vFalse) && FaxThreads.IsEmpty())                       *)
LastReport(d) == ~dev[d].starting /\ dev[d].threads = <<>>

(* ReceiveStoped up to its test.  The memory of a deleted device may still *)
(* hold an empty list, or something else.                                  *)
ReceiveStoped(r) ==
  LET d == DeviceOf(r) IN
  /\ Running /\ st[r] = "report"
  /\ Uses(d)
  /\ \E last \in IF dev[d].alive THEN {LastReport(d)} ELSE BOOLEAN :
       st' = [st EXCEPT ![r] = IF last THEN "delete" ELSE "gone"]
  /\ raced' = IF main.at = "log" /\ main.cur = d THEN raced \cup {d} ELSE raced
  /\ UNCHANGED <<list, dev, main>>

DeletesDevice(r) ==
  /\ Running /\ st[r] = "delete"
  /\ Delete(DeviceOf(r))
  /\ st' = [st EXCEPT ![r] = "gone"]
  /\ UNCHANGED <<main, raced>>

-----------------------------------------------------------------------------
MainStarts ==
  \/ StartsDevice \/ CreatesReceiver \/ TestsReceivers \/ EndsStart
  \/ FailsStart \/ AllStarted

MainWaits == BeginsWalk \/ Visits \/ TakesFirst \/ RemovesFirst \/ StopsReceiver

ReceiverEnds(r) == IsReseted(r) \/ ReceiveStoped(r) \/ DeletesDevice(r)

(* The program has ended.                                                  *)
Terminated == ~Running /\ UNCHANGED vars

Next ==
  \/ MainStarts \/ MainWaits
  \/ \E r \in Receivers : ListenError(r) \/ ReceiverEnds(r)
  \/ Terminated

(* The threads are scheduled, and a receiver that was stopped ends, as     *)
(* StopFinishes of module Channel says.                                    *)
Fairness ==
  /\ WF_vars(MainStarts) /\ WF_vars(MainWaits)
  /\ \A r \in Receivers : WF_vars(ReceiverEnds(r))

Spec == Init /\ [][Next]_vars
FairSpec == Spec /\ Fairness

-----------------------------------------------------------------------------
(* Properties                                                              *)

(* Every variable keeps its type.                                          *)
RecvTypeOK ==
  /\ list \in Seq(Devices)
  /\ dev \in [Devices -> [alive : BOOLEAN, starting : BOOLEAN, threads : Seq(Receivers)]]
  /\ st \in [Receivers -> Lives]
  /\ main \in MainThreads
  /\ stale \subseteq Devices
  /\ raced \subseteq Devices

(* The lists hold what is alive, once each: the main program's list the    *)
(* devices that are not deleted, a device's list receivers of its own that *)
(* are not deleted.  A deleted device has none, and no start in progress.  *)
ListsOfTheLiving ==
  /\ IsInjective(list) /\ Range(list) = {d \in Devices : dev[d].alive}
  /\ \A d \in Devices :
       /\ IsInjective(dev[d].threads)
       /\ \A r \in Range(dev[d].threads) : DeviceOf(r) = d /\ st[r] \in {"listen", "stop"}
       /\ ~dev[d].alive => dev[d].threads = <<>> /\ ~dev[d].starting

(* A receiver that nobody has stopped still has its device to report to:   *)
(* it is in the list of a device that is not deleted, or StopReceive has   *)
(* it in hand.  (In a race of a receiver's own end with lines 334-336 of   *)
(* recvdev.cpp a listening receiver is lost.)                              *)
ListeningIsListed ==
  \A r \in Receivers :
    LET d == DeviceOf(r) IN
    st[r] = "listen" =>
      \/ dev[d].alive /\ r \in Range(dev[d].threads)
      \/ main.at = "call" /\ main.rec = r
      \/ d \in raced

(* Whatever thread comes in between, the lists and the receivers fit.      *)
DeviceInv == RecvTypeOK /\ ListsOfTheLiving /\ ListeningIsListed

(* faxquit, faxdown or a signal leads to the deletion of the device, or    *)
(* the program ends first.                                                 *)
StopEndsDevice ==
  \A d \in Devices :
    main.at = "pop" /\ main.cur = d ~> ~dev[d].alive \/ ~Running \/ d \in raced

(* SIGINT or SIGTERM ends the program.                                     *)
SignalEndsProgram ==
  main.at = "visit" /\ main.signal ~> ~Running \/ raced # {}

(* "c2faxrecv terminates more cleanly" (ChangeLog:11): no device is used,  *)
(* or deleted again, after its deletion.                                   *)
DeviceNotUsedAfterDelete == stale = {}
=============================================================================
