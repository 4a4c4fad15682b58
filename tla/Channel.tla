------------------------------ MODULE Channel -------------------------------
(***************************************************************************)
(* A fax channel at work: the main thread of the application (faxsend or   *)
(* faxrecv), the SIGALRM timer, the CAPI thread of the channel and the     *)
(* CAPI driver.  Every handler is one step, except that the CAPI thread    *)
(* runs SendData frame by frame, and RELEASE_COMPLETE first sets           *)
(* cs_Released and then, without the lock, calls DisconnectInd and         *)
(* Release_Complete.                                                       *)
(***************************************************************************)
EXTENDS ChannelOps, Integers, FiniteSets

CONSTANTS
  MaxJobs,             \* bound on the Send calls of faxsend's main thread
  MaxFaults,           \* bound on the failures of capi20_get_message
  DisconnectTimeout,   \* the driver may stay silent for 20 s after hanging up
  UseDDI,              \* calls may arrive with a DDI number still incomplete
  OtherClaims          \* other channels of the process may claim a call first

ASSUME RunAssumption ==
  /\ MaxJobs \in Nat /\ MaxFaults \in Nat
  /\ {DisconnectTimeout, UseDDI, OtherClaims} \subseteq BOOLEAN

VARIABLES
  ch,        \* the channel
  drv,       \* the driver
  up,        \* messages from the driver, not yet read by capi20_get_message
  tail,      \* what the CAPI thread still has to call in RELEASE_COMPLETE
  waiting,   \* faxsend: OneSendSession is in sem_wait
  jobs,      \* Send calls (faxsend), StartReceive calls (faxrecv)
  faults     \* failures of capi20_get_message so far

vars == <<ch, drv, up, tail, waiting, jobs, faults>>

Init ==
  /\ \E capi \in BOOLEAN : ch = New(capi)
  /\ drv = Fresh(0)
  /\ up = <<>>
  /\ tail = "none"
  /\ waiting = FALSE
  /\ jobs = 0
  /\ faults = 0

-----------------------------------------------------------------------------
(* The main thread                                                         *)

StartSend ==
  /\ App = "send" /\ ~waiting /\ jobs < MaxJobs
  /\ ch' = Send(ch)
  /\ waiting' = TRUE
  /\ jobs' = jobs + 1
  /\ UNCHANGED <<drv, up, tail, faults>>

SendReturns ==
  /\ App = "send" /\ waiting /\ ch.resets > 0
  /\ ch' = [ch EXCEPT !.resets = @ - 1]
  /\ waiting' = FALSE
  /\ UNCHANGED <<drv, up, tail, jobs, faults>>

StartReceive ==
  /\ App = "recv" /\ jobs = 0
  /\ ch' = CheckListen([ch EXCEPT !.msn = TRUE])
  /\ jobs' = 1
  /\ UNCHANGED <<drv, up, tail, waiting, faults>>

DeviceStops ==
  /\ App = "recv" /\ jobs = 1 /\ ~ch.quit /\ ~Gone(ch)
  /\ ch' = StopReceive(ch)
  /\ UNCHANGED <<drv, up, tail, waiting, jobs, faults>>

Timer(kinds) ==
  /\ ch.timer \in kinds /\ ~Gone(ch)
  /\ ch' = TimerCallBack(ch)
  /\ UNCHANGED <<drv, up, tail, waiting, jobs, faults>>

SetupTimer == Timer({"ringing", "bchannel"})

DisconnectTimer == DisconnectTimeout /\ Timer({"disconnect"})

-----------------------------------------------------------------------------
(* The CAPI thread                                                         *)

(* After a handler the thread sees StopThread and leaves its loop.         *)
Back(c) == IF c.thr = "late" /\ ~c.sending THEN [c EXCEPT !.thr = "exit"] ELSE c

ThreadStarts ==
  /\ ch.thr = "starting" /\ ~Gone(ch)
  /\ ch' = Back(REGISTER_COMPLETE([ch EXCEPT !.thr = "run"]))
  /\ UNCHANGED <<drv, up, tail, waiting, jobs, faults>>

(* capi20_get_message returns the next message, of kind m.                 *)
Reads(m) ==
  /\ ch.thr \in {"run", "late"} /\ ~ch.sending /\ ~Gone(ch)
  /\ up # <<>> /\ Head(up).m = m
  /\ up' = Tail(up)
  /\ UNCHANGED <<drv, tail, waiting, jobs, faults>>

OnConnectConf ==
  Reads("CONNECT_CONF") /\ ch' = Back(CONNECT_CONF(ch, Head(up)))
OnConnectB3Conf ==
  Reads("CONNECT_B3_CONF") /\ ch' = Back(CONNECT_B3_CONF(ch, Head(up)))
OnDataB3Conf ==
  Reads("DATA_B3_CONF") /\ ch' = Back(DATA_B3_CONF(ch, Head(up)))
OnDisconnectB3Conf ==
  Reads("DISCONNECT_B3_CONF") /\ ch' = Back(DISCONNECT_B3_CONF(ch, Head(up)))
OnDisconnectConf ==
  Reads("DISCONNECT_CONF") /\ ch' = Back(DISCONNECT_CONF(ch, Head(up)))
OnListenConf ==
  Reads("LISTEN_CONF") /\ ch' = Back(LISTEN_CONF(ch, Head(up)))
OnConnectInd ==
  /\ Reads("CONNECT_IND")
  /\ \E found \in {"match", "reject"} \cup (IF UseDDI THEN {"ddi", "bare"} ELSE {}),
        claimed \in {FALSE, OtherClaims} :
       ch' = Back(CONNECT_IND(ch, Head(up), found, claimed))
OnInfoInd ==
  /\ Reads("INFO_IND")
  /\ \E complete \in BOOLEAN, claimed \in {FALSE, OtherClaims} :
       ch' = Back(INFO_IND(ch, Head(up), complete, claimed))
OnConnectActiveInd ==
  Reads("CONNECT_ACTIVE_IND") /\ ch' = Back(CONNECT_ACTIVE_IND(ch, Head(up)))
OnConnectB3Ind ==
  Reads("CONNECT_B3_IND") /\ ch' = Back(CONNECT_B3_IND(ch, Head(up)))
OnConnectB3ActiveInd ==
  /\ Reads("CONNECT_B3_ACTIVE_IND")
  /\ \E ready \in BOOLEAN :
       ch' = Back(CONNECT_B3_ACTIVE_IND(ch, Head(up), ready))
OnDataB3Ind ==
  /\ Reads("DATA_B3_IND")
  /\ \E ready \in BOOLEAN : ch' = Back(DATA_B3_IND(ch, Head(up), ready))
OnDisconnectB3Ind ==
  Reads("DISCONNECT_B3_IND") /\ ch' = Back(DISCONNECT_B3_IND(ch, Head(up)))
OnDisconnectInd ==
  Reads("DISCONNECT_IND") /\ ch' = Back(DISCONNECT_IND(ch, Head(up)))

ReadsMessage ==
  \/ OnConnectConf \/ OnConnectB3Conf \/ OnDataB3Conf \/ OnDisconnectB3Conf
  \/ OnDisconnectConf \/ OnListenConf \/ OnConnectInd \/ OnInfoInd
  \/ OnConnectActiveInd \/ OnConnectB3Ind \/ OnConnectB3ActiveInd
  \/ OnDataB3Ind \/ OnDisconnectB3Ind \/ OnDisconnectInd

(* capi20_get_message fails: HandleMessageError calls RELEASE and leaves   *)
(* curState alone.  CAPI may be gone for good.                             *)
ReadFails ==
  /\ ch.thr = "run" /\ ~ch.sending /\ ~Gone(ch) /\ faults < MaxFaults
  /\ \E capi \in BOOLEAN : ch' = Back(RELEASE([ch EXCEPT !.capi = capi]))
  /\ faults' = faults + 1
  /\ UNCHANGED <<drv, up, tail, waiting, jobs>>

(* SendData, one frame: put under a free handle, or dropped because it     *)
(* cannot be read or the channel is being reset.                           *)
SendsFrame ==
  /\ ch.sending /\ ~ch.fin /\ ~QueueFull(ch)
  /\ \/ /\ "RESET" \notin ch.flags
        /\ \E h \in Handles : ch.block[h] = 0 /\ ch' = SendFrame(ch, h)
     \/ ch' = SendDropped(ch)
  /\ UNCHANGED <<drv, up, tail, waiting, jobs, faults>>

SendDataReturns ==
  /\ ch.sending /\ (ch.fin \/ QueueFull(ch))
  /\ ch' = Back([ch EXCEPT !.sending = FALSE])
  /\ UNCHANGED <<drv, up, tail, waiting, jobs, faults>>

(* The thread sees the StopThread that another thread has set.             *)
ThreadStops ==
  /\ ch.thr = "late" /\ ~ch.sending /\ ~Gone(ch)
  /\ ch' = Back(ch)
  /\ UNCHANGED <<drv, up, tail, waiting, jobs, faults>>

(* capi20_release and the first part of RELEASE_COMPLETE, up to the state  *)
(* change.  A previous thread has finished its own RELEASE_COMPLETE.       *)
ThreadEnds ==
  /\ ch.thr = "exit" /\ tail = "none" /\ ~Gone(ch)
  /\ ch' = [ResetValues(ch) EXCEPT !.cs = "Released", !.timer = "none",
                                   !.thr = "none", !.down = <<>>]
  /\ tail' = IF ch.cs \in IdleStates THEN "release" ELSE "disconnect"
  /\ drv' = Fresh(drv.calls)
  /\ up' = <<>>
  /\ UNCHANGED <<waiting, jobs, faults>>

ReleaseDisconnects ==
  /\ tail = "disconnect" /\ ~Gone(ch)
  /\ ch' = DisconnectInd(ch)
  /\ tail' = "release"
  /\ UNCHANGED <<drv, up, waiting, jobs, faults>>

ReleaseCompletes ==
  /\ tail = "release" /\ ~Gone(ch)
  /\ ch' = Release_Complete(ch)
  /\ tail' = "none"
  /\ UNCHANGED <<drv, up, waiting, jobs, faults>>

-----------------------------------------------------------------------------
(* The driver                                                              *)

Registration == ch.thr \in {"starting", "run", "late", "exit"} /\ ~Gone(ch)

InFlight(m) == \E i \in 1 .. Len(up) : up[i].m = m

DriverTakes ==
  /\ Registration /\ ch.down # <<>>
  /\ \E s \in Take(drv, Head(ch.down)) : drv' = s.v /\ up' = up \o s.msgs
  /\ ch' = [ch EXCEPT !.down = Tail(@)]
  /\ UNCHANGED <<tail, waiting, jobs, faults>>

DriverActs(steps) ==
  /\ Registration
  /\ \E s \in steps : drv' = s.v /\ up' = up \o s.msgs
  /\ UNCHANGED <<ch, tail, waiting, jobs, faults>>

NetworkActs ==
  DriverActs(Network(drv, ~InFlight("DATA_B3_IND"), UseDDI /\ ~InFlight("INFO_IND")))

DriverCloses == DriverActs(Closing(drv))

-----------------------------------------------------------------------------
(* Nothing is left to do: every fax is sent, or the receiver is deleted.   *)
Finished ==
  /\ IF App = "send" THEN jobs = MaxJobs /\ ~waiting ELSE Gone(ch)
  /\ UNCHANGED vars

CapiThread ==
  \/ ThreadStarts \/ ReadsMessage \/ SendsFrame \/ SendDataReturns
  \/ ThreadStops \/ ThreadEnds \/ ReleaseDisconnects \/ ReleaseCompletes

Next ==
  \/ StartSend \/ SendReturns \/ StartReceive \/ DeviceStops
  \/ SetupTimer \/ DisconnectTimer
  \/ CapiThread \/ ReadFails
  \/ DriverTakes \/ NetworkActs \/ DriverCloses
  \/ Finished

Spec == Init /\ [][Next]_vars

(* Threads are scheduled, the timers of a ringing and of an unfinished     *)
(* connection fire, and the driver answers every request and finishes to   *)
(* hang up.  Nothing is assumed of the network or of the application.      *)
Fairness ==
  /\ WF_vars(SendReturns) /\ WF_vars(SetupTimer)
  /\ WF_vars(ThreadStarts) /\ WF_vars(ReadsMessage)
  /\ WF_vars(SendsFrame) /\ WF_vars(SendDataReturns)
  /\ WF_vars(ThreadStops) /\ WF_vars(ThreadEnds)
  /\ WF_vars(ReleaseDisconnects) /\ WF_vars(ReleaseCompletes)
  /\ WF_vars(DriverTakes) /\ WF_vars(DriverCloses)

FairSpec == Spec /\ Fairness

-----------------------------------------------------------------------------
(* Properties                                                              *)

(* Every variable keeps its type.                                          *)
TypeOK ==
  /\ ch \in Channels
  /\ drv \in Drivers
  /\ up \in Seq(Messages(Reports))
  /\ tail \in {"none", "disconnect", "release"}
  /\ waiting \in BOOLEAN
  /\ jobs \in 0 .. MaxJobs + 1
  /\ faults \in 0 .. MaxFaults

(* The identifiers fit the state, which the dasserts on PLCI, NCCI and     *)
(* initiator all over CapiChan.cpp rely on: an idle channel has none, a    *)
(* state of a logical connection has an NCCI of the channel's own PLCI,    *)
(* and the initiator flag is gone once CONNECT_B3_REQ is out.              *)
IdsMatchState ==
  /\ ch.cs \in IdleStates \cup {"D_ConnectRequest"} => ch.plci = 0
  /\ ch.cs \in CallStates \ {"D_ConnectRequest", "D_DisconnectPending"} => ch.plci # 0
  /\ ch.ncci # 0 => ch.ncci = ch.plci
  /\ ch.cs \in {"B_ConnectPending", "Connected", "B_DisconnectPending"} => ch.ncci # 0
  /\ ch.init => ch.cs \in {"D_ConnectRequest", "D_ConnectPending", "D_DisconnectPending"}

(* "in this states the timer should have been canceled before"             *)
(* (CapiChan.cpp:52): whenever the timer runs, StateChangeTimer_CallBack   *)
(* would find a state it handles.                                          *)
TimerHasHandler ==
  /\ ch.timer # "none" =>
       ch.cs \in {"D_ConnectRequest", "D_ConnectPending", "D_Connected",
                  "B_ConnectPending", "D_DisconnectPending"}
  /\ ch.timer = "ringing" => ch.cs = "D_ConnectPending"

(* m_ActiveController says exactly that the channel owns a call: none is   *)
(* left over when the channel is idle again, and then no frame is left in  *)
(* the send block either.  While RELEASE_COMPLETE has not yet called       *)
(* DisconnectInd the call still waits for its end.  An active call is one  *)
(* the application was told of, unless digits of its DDI number are still  *)
(* awaited or it was hung up then; and without a prefix (phase "unseen",   *)
(* m_DDIPrefixLen 0) even such a call will be told the end of.             *)
CallOwner ==
  /\ ch.active /\ tail # "disconnect" =>
       \/ ch.cs \in CallStates
       \/ App = "send" /\ ch.cs \in {"Registering", "Releasing"}
       \/ App = "send" /\ ch.cs = "Released" /\ tail = "release"
  /\ ch.cs \in CallStates =>
       ch.active \/ (OtherClaims /\ ch.cs = "D_DisconnectPending")
  /\ ch.active /\ ~ch.ddi <=> ch.phase # "idle"
  /\ (ch.ddi \/ ch.phase = "unseen") /\ tail # "disconnect" =>
       ch.cs \in {"D_ConnectIndication", "D_DisconnectPending"}
  /\ ~ch.active => \A h \in Handles : ch.block[h] = 0

(* At every return of a handler the channel's members agree: their types,  *)
(* the identifiers with the state, the state with the call it owns.        *)
ChannelInv == TypeOK /\ IdsMatchState /\ CallOwner

(* Every buffer that SendData took is either under exactly one handle or   *)
(* deleted exactly once: none leaks, none is deleted twice, whatever way   *)
(* the call ends.                                                          *)
BufferOwnedOnce ==
  \A f \in Frames :
    ch.deleted[f] + Cardinality({h \in Handles : ch.block[h] = f}) =
      IF f < ch.next THEN 1 ELSE 0

Pending(h) ==
  {i \in 1 .. Len(up) : /\ up[i].m = "DATA_B3_CONF"
                        /\ up[i].id = ch.ncci /\ up[i].h = h}
  \cup
  {-i : i \in {j \in 1 .. Len(ch.down) : /\ ch.down[j].m = "DATA_B3_REQ"
                                         /\ ch.down[j].id = ch.ncci
                                         /\ ch.down[j].h = h}}

(* Until the channel hangs up the call, a frame is in the send block       *)
(* exactly when its request or its confirmation is on the way: no          *)
(* confirmation meets an empty handle, and no frame waits for a            *)
(* confirmation that never comes.                                          *)
DataInFlight ==
  \A h \in Handles :
    /\ Cardinality(Pending(h)) <= 1
    /\ ch.ncci # 0 /\ ch.cs # "D_DisconnectPending" /\ Pending(h) # {} => ch.block[h] # 0
    /\ ch.cs = "Connected" /\ ch.block[h] # 0 => Pending(h) # {}

(* A registered channel that is idle, with no message in either direction, *)
(* has not left the driver alone with a call it has forgotten.             *)
NoOrphanCall ==
  ch.cs = "Registered" /\ up = <<>> /\ ch.down = <<>> =>
    \A p \in Plcis : drv.link[p].d \in {"none", "closing"}

(* sem_post and sem_wait pair up: a Send is answered by one IsReseted,     *)
(* after its call has ended; and faxrecv deletes the object once.          *)
SinglePost ==
  /\ ch.resets <= IF App = "recv" \/ waiting THEN 1 ELSE 0
  /\ App = "send" /\ ch.resets > 0 => ~ch.active /\ ch.phase = "idle"

(* m_Reseting is assigned as a whole in Register_Complete and in           *)
(* CheckFinishReset; still a reset that was asked for is never forgotten,  *)
(* it ends in IsReseted, and no call begins before.                        *)
ResetSticks ==
  [][ "RESET" \in ch.flags =>
        /\ ch'.begun = ch.begun
        /\ "RESET" \in ch'.flags \/ ch'.resets = ch.resets + 1 ]_vars

(* The callbacks come in the order an application may expect, but for the  *)
(* end of a call with an empty DDI prefix that it never saw (CallLife).    *)
Life == INSTANCE CallLife WITH phase <- ch.phase, begun <- ch.begun

CallbackOrder == Life!Spec

(* Every accepted or failed Send lets OneSendSession go on in the end.     *)
SendFinishes == waiting ~> ~waiting

(* Stopping a receiver (by FIFO command, or by itself after a listen       *)
(* error) ends in its deletion.                                            *)
StopFinishes == ch.quit ~> Gone(ch)

(* The assertion at the head of Release_Complete (Channel.cpp:927): no     *)
(* call is active when the registration is given up.                       *)
AssertReleaseComplete == tail = "release" => ~ch.active

(* "Great CAPI Error" and dassert (0) in DataB3Conf (Channel.cpp:954-956): *)
(* every confirmation that will be looked up finds its handle in use.      *)
AssertConfOwned ==
  \A h \in Handles : ch.ncci # 0 /\ Pending(h) # {} => ch.block[h] # 0

(* "Call ResetChannel always before deleting this class" (Channel.h:75):   *)
(* after ResetChannel the object can be deleted, so the CAPI thread is no  *)
(* longer inside its methods.                                              *)
DeletedWhenDone == Gone(ch) => tail = "none"
=============================================================================
