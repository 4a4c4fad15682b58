----------------------------- MODULE ChannelOps -----------------------------
(***************************************************************************)
(* One fax channel: CCAPI20_Channel (src/capi/CapiChan.cpp) and its        *)
(* subclass CTransferChannel (src/capi/Channel.cpp), with the callbacks of *)
(* the two applications that derive from it, CFaxSend (src/faxsend) and    *)
(* CFaxReceive (src/faxrecv).  The methods call one another inside one     *)
(* step, so each is an operator from the channel's state to its next       *)
(* state; the actions that call them are in module Channel.                *)
(* m_ManualRegister, the RegisterDelayed and ProtocolPending states and    *)
(* the Wait kinds of Disconnect are not used by the two applications.      *)
(***************************************************************************)
EXTENDS CapiDriver

CONSTANTS
  App,            \* "send" or "recv": the subclass
  MaxFrames,      \* data blocks in the fax to send
  RingingTimeout  \* m_RingingTimeout (RingingDuration) is not 0

(* A fax to send has a data block at least: huf2sff.cpp:92 writes the      *)
(* header of a document before the first line.                             *)
ASSUME ChannelAssumption ==
  /\ App \in {"send", "recv"}
  /\ MaxFrames \in Nat /\ (App = "send" => MaxFrames > 0)
  /\ RingingTimeout \in BOOLEAN

(* tCapiState, without the two states a handler enters and leaves in one   *)
(* step (B_DisconnectRespPending and D_DisconnectRespPending).             *)
IdleStates == {"Released", "Registering", "Releasing", "Registered"}
CallStates == {"D_ConnectRequest", "D_ConnectIndication", "D_ConnectPending",
               "D_Connected", "B_ConnectPending", "Connected",
               "B_DisconnectPending", "D_DisconnectPending"}

Frames == 1 .. MaxFrames

(***************************************************************************)
(* The record c of a channel:                                              *)
(*   cs, plci, ncci, init   curState, PLCI, NCCI and initiator             *)
(*   timer                  hStateChangeTimer: what it is running for      *)
(*   appl, thr              ApplID is legal; the state of the CAPI thread  *)
(*   down                   messages put to the driver                     *)
(*   active, flags, inuse   m_ActiveController is legal, m_Reseting,       *)
(*                          m_CheckListenInUse                             *)
(*   msn, ddi               m_pMSNList is not empty, m_DDIPrefixLen > 0    *)
(*   block                  m_SendBlock: the frame under each handle       *)
(*   capi                   capi20_register would succeed                  *)
(*   resets                 IsReseted calls: posts of the semaphore of     *)
(*                          faxsend, deletions of the object in faxrecv    *)
(*   next, fin, sending     next frame to read, GetSendState() = 2, the    *)
(*                          SendData loop is running                       *)
(*   quit                   quitRecv                                       *)
(* and, to state properties, how often each frame's buffer was deleted,    *)
(* and the phase and number of the calls the application was told of.      *)
(***************************************************************************)
Channels ==
  [cs : IdleStates \cup CallStates, plci : Plcis \cup {0}, ncci : Plcis \cup {0},
   init : BOOLEAN, timer : {"none", "ringing", "bchannel", "disconnect"},
   appl : BOOLEAN, thr : {"none", "starting", "run", "late", "exit"},
   down : Seq(Messages(Requests)),
   active : BOOLEAN, flags : SUBSET {"WAIT_REGISTER", "WAIT_RELEASE", "RESET"},
   inuse : {0, 1}, msn : BOOLEAN, ddi : BOOLEAN,
   block : [Handles -> Frames \cup {0}], capi : BOOLEAN, resets : Nat,
   next : 1 .. MaxFrames + 1, fin : BOOLEAN, sending : BOOLEAN, quit : BOOLEAN,
   deleted : [Frames -> Nat],
   phase : {"idle", "unseen", "setup", "connected", "closing", "error"}, begun : Nat]

New(capi) ==
  [cs |-> "Released", plci |-> 0, ncci |-> 0, init |-> FALSE, timer |-> "none",
   appl |-> FALSE, thr |-> "none", down |-> <<>>, active |-> FALSE, flags |-> {},
   inuse |-> 0, msn |-> FALSE, ddi |-> FALSE, block |-> [h \in Handles |-> 0],
   capi |-> capi, resets |-> 0, next |-> 1, fin |-> TRUE, sending |-> FALSE,
   quit |-> FALSE, deleted |-> [f \in Frames |-> 0], phase |-> "idle", begun |-> 0]

-----------------------------------------------------------------------------
(* CCAPI20_MsgBase and CapiBase: messages, registration                    *)

(* EmptyPutMsgbufferQueue drops a message when the ApplID is illegal.      *)
Put(c, msg) == IF c.appl THEN [c EXCEPT !.down = Append(@, msg)] ELSE c

(* RELEASE makes the ApplID illegal and sets StopThread at once.  A CAPI   *)
(* thread that is not the caller may already be in capi20_get_message; one *)
(* that has left its loop is not affected.                                 *)
RELEASE(c) ==
  [c EXCEPT !.appl = FALSE, !.thr = IF @ = "exit" THEN "exit" ELSE "late"]

(* The PLCI claimed in the process-wide list is freed too; that list is    *)
(* external to one channel.                                                *)
ResetValues(c) == [c EXCEPT !.plci = 0, !.ncci = 0, !.init = FALSE]

(* Callers have excluded cs_Released.                                      *)
Release(c) ==
  LET d == [ResetValues(c) EXCEPT !.cs = "Releasing"]
  IN  CASE c.cs = "Releasing" -> c
        [] c.cs = "Registering" -> d
        [] OTHER -> RELEASE(d)

-----------------------------------------------------------------------------
(* Application callbacks that do not call back into the channel            *)

(* A call the application knows of begins, is connected, is asked to       *)
(* disconnect (DisconnectInquiry: StopSend, StopRecv).                     *)
CallBegins(c) ==
  [c EXCEPT !.begun = @ + 1,
            !.phase = IF @ \in {"idle", "unseen"} THEN "setup" ELSE "error"]
CallConnected(c) ==
  [c EXCEPT !.phase = IF @ = "setup" THEN "connected" ELSE "error"]
CallClosing(c) ==
  [c EXCEPT !.phase = IF @ \in {"setup", "connected"} THEN "closing" ELSE "error",
            !.fin = TRUE]
CallEnds(c) ==
  [c EXCEPT !.phase = IF @ = "idle" THEN "error" ELSE "idle", !.fin = TRUE]

(* faxsend posts its semaphore, faxrecv deletes the object.                *)
IsReseted(c) == [c EXCEPT !.resets = @ + 1]

Gone(c) == App = "recv" /\ c.resets > 0

(* PutDataComplete deletes the buffer; unless the connection is lost it    *)
(* enters SendData, where a running loop takes another turn.               *)
PutDataComplete(c, f, connected) ==
  [c EXCEPT !.deleted[f] = @ + 1, !.sending = @ \/ connected]

(* The loop over DelNextEntry, each with PutDataComplete (NotConnected).   *)
ResetSendBlock(c) ==
  [c EXCEPT !.block = [h \in Handles |-> 0],
            !.deleted = [f \in Frames |->
               @[f] + IF \E h \in Handles : c.block[h] = f THEN 1 ELSE 0]]

-----------------------------------------------------------------------------
(* Reset, listening, registration (Channel.cpp).  The order of the         *)
(* definitions follows the calls.                                          *)

(* Bug: resets without having been asked to.                               *)
CheckFinishResetAlways(c, new) == IsReseted([c EXCEPT !.flags = new])
CheckFinishReset(c, new) ==
  CASE "RESET" \notin c.flags -> [c EXCEPT !.flags = new]
    [] "RESET" \in c.flags /\ c.inuse = 0 -> IsReseted([c EXCEPT !.flags = {}])
    [] OTHER -> c

(* Bug: a reset does not give up the registration.                         *)
CheckListenResetIdles(c) == c

(* CheckListen while m_Reseting holds RESET.                               *)
CheckListenReset(c) ==
  IF c.cs = "Registered" THEN Release([c EXCEPT !.flags = @ \cup {"WAIT_RELEASE"}])
  ELSE c

(* ResetChannel in a state without a call, when Disconnect (Fast) finds    *)
(* nothing active.                                                         *)
ResetIdle(c) ==
  IF c.cs = "Released" /\ c.flags = {} /\ c.inuse = 0 THEN IsReseted(c)
  ELSE CheckListenReset([c EXCEPT !.flags = @ \cup {"RESET"}, !.msn = FALSE])

IsDisconnected(c) == IF App = "send" THEN ResetIdle(CallEnds(c)) ELSE CallEnds(c)

(* CFaxReceive::ListenError calls StopReceive.                             *)
ListenErrorIdle(c) == ResetIdle([c EXCEPT !.quit = TRUE])

(* Register_Complete with an error; the state is Released again.           *)
RegisterFailed(c) ==
  LET d == IF c.active THEN IsDisconnected([c EXCEPT !.active = FALSE]) ELSE c
      e == IF d.msn THEN ListenErrorIdle(d) ELSE d
  IN  CheckFinishReset(e, {})

(* capi20_register fails at once, or starts the CAPI thread, which then    *)
(* reports success.                                                        *)
Register(c) ==
  CASE c.cs # "Released" -> c
    [] c.cs = "Released" /\ c.capi ->
         [c EXCEPT !.cs = "Registering", !.appl = TRUE, !.thr = "starting"]
    [] OTHER -> RegisterFailed(c)

(* One turn of the loop in CheckListen.                                    *)
ListenTurn(c) ==
  CASE c.cs = "Released" /\ c.msn ->
         Register([c EXCEPT !.flags = @ \cup {"WAIT_REGISTER"}])
    [] c.cs = "Registered" /\ ~c.msn ->
         Release([c EXCEPT !.flags = @ \cup {"WAIT_RELEASE"}])
    [] c.cs \notin {"Released", "Registering"} /\ c.msn -> Put(c, Msg("LISTEN_REQ", 0))
    [] OTHER -> c

(* Nothing below ListenTurn calls CheckListen again except under RESET, so *)
(* m_CheckListenInUse is 0 on entry and the loop turns once.               *)
CheckListen(c) ==
  LET d == [ListenTurn([c EXCEPT !.inuse = 1]) EXCEPT !.inuse = 0]
  IN  CASE "RESET" \in c.flags -> CheckListenReset(c)
        [] "RESET" \notin c.flags /\ d.cs = "Released" -> CheckFinishReset(d, {})
        [] OTHER -> d

(* Bug: the call stays active.                                            *)
DisconnectIndStaysActive(c) ==
  LET d == ResetSendBlock([c EXCEPT !.ddi = FALSE])
  IN  IF ~c.active THEN c
      ELSE CheckListen(IF c.ddi THEN d ELSE IsDisconnected(d))

(* A call of which a DDI number is still awaited ends silently, but only   *)
(* where m_DDIPrefixLen is not 0; else IsDisconnected is called for a call *)
(* that the application has not been told of (phase "unseen").             *)
DisconnectInd(c) ==
  LET d == ResetSendBlock([c EXCEPT !.active = FALSE, !.ddi = FALSE])
  IN  IF ~c.active THEN c
      ELSE CheckListen(IF c.ddi THEN d ELSE IsDisconnected(d))

(* DisconnectReq in a state of a call.                                     *)
HangUp(c, fast) ==
  LET pending == [c EXCEPT !.cs = "D_DisconnectPending", !.timer = "disconnect"]
  IN  CASE c.cs = "D_ConnectRequest" -> pending
        [] c.cs = "D_ConnectIndication" -> Put(pending, No("CONNECT_RESP", c.plci))
        [] c.cs = "D_DisconnectPending" -> c
        [] c.cs = "B_DisconnectPending" /\ ~fast -> c
        [] c.cs \in {"B_ConnectPending", "Connected"} /\ ~fast ->
             Put([c EXCEPT !.cs = "B_DisconnectPending"], Msg("DISCONNECT_B3_REQ", c.ncci))
        [] OTHER -> Put(pending, Msg("DISCONNECT_REQ", c.plci))

DisconnectReq(c, fast) ==
  IF c.cs \in IdleStates THEN DisconnectInd(c) ELSE HangUp(c, fast)

ResetChannel(c) ==
  IF c.cs = "Released" /\ c.flags = {} /\ c.inuse = 0 THEN IsReseted(c)
  ELSE LET d == DisconnectReq([c EXCEPT !.flags = @ \cup {"RESET"}], TRUE)
       IN  CheckListenReset([d EXCEPT !.msn = FALSE])

StopReceive(c) == ResetChannel([c EXCEPT !.quit = TRUE])

(* Bug: a reset asked for while registering is overlooked.                 *)
RegisteredNoReset(c) ==
  LET d == [c EXCEPT !.cs = "D_ConnectRequest", !.init = TRUE]
  IN  CheckListen([IF c.active THEN Put(d, Msg("CONNECT_REQ", 0)) ELSE c
                   EXCEPT !.flags = {}])

(* Register_Complete without an error: dials a waiting call.               *)
Registered(c) ==
  LET d == [c EXCEPT !.cs = "D_ConnectRequest", !.init = TRUE]
  IN  IF "RESET" \in c.flags THEN Release([c EXCEPT !.flags = @ \cup {"WAIT_RELEASE"}])
      ELSE CheckListen([IF c.active THEN Put(d, Msg("CONNECT_REQ", 0)) ELSE c
                        EXCEPT !.flags = {}])

REGISTER_COMPLETE(c) ==
  IF c.cs = "Releasing" THEN RELEASE(ResetValues(c))
  ELSE Registered([c EXCEPT !.cs = "Registered"])

Release_Complete(c) ==
  LET d == CheckFinishReset(c, IF c.active \/ c.msn THEN {"WAIT_REGISTER"} ELSE {})
  IN  IF "RESET" \notin c.flags /\ (c.active \/ c.msn) THEN Register(d) ELSE d

-----------------------------------------------------------------------------
(* Calls and data (Channel.cpp, CapiChan.cpp, faxsend.cpp, faxrecv.cpp)    *)

(* CFaxSend::Send resets the fax to its first frame and dials; a call that *)
(* MakeCall refuses is not begun.                                          *)
MakeCall(c) ==
  LET d == CallBegins([c EXCEPT !.active = TRUE])
  IN  CASE "RESET" \in c.flags \/ c.active \/ c.cs \in CallStates -> c
        [] c.cs = "Released" -> Register([d EXCEPT !.flags = @ \cup {"WAIT_REGISTER"}])
        [] c.cs = "Registered" ->
             Put([d EXCEPT !.cs = "D_ConnectRequest", !.init = TRUE], Msg("CONNECT_REQ", 0))
        [] OTHER -> d

Send(c) ==
  MakeCall([c EXCEPT !.next = 1, !.fin = FALSE, !.sending = FALSE,
                     !.deleted = [f \in Frames |-> 0]])

QueueFull(c) == \A h \in Handles : c.block[h] # 0

(* Bug: the handle is not given back.                                      *)
DataB3ConfNoFree(c, h, connected) ==
  IF c.block[h] # 0 THEN PutDataComplete(c, c.block[h], connected)
  ELSE DisconnectReq(c, FALSE)

DataB3Conf(c, h, connected) ==
  IF c.block[h] # 0
  THEN PutDataComplete([c EXCEPT !.block[h] = 0], c.block[h], connected)
  ELSE DisconnectReq(c, FALSE)

(* Bug: every frame is sent under the same handle.                         *)
DataB3ReqSameHandle(c, h, f) ==
  LET d == [c EXCEPT !.block[h] = f]
      same == CHOOSE k \in Handles : TRUE
  IN  IF c.cs = "Connected"
      THEN Put(d, [m |-> "DATA_B3_REQ", id |-> c.ncci, ok |-> TRUE, h |-> same])
      ELSE DataB3Conf(d, h, FALSE)

(* New gives a handle that nobody holds; outside cs_Connected DataB3Req    *)
(* confirms at once.                                                       *)
DataB3Req(c, h, f) ==
  LET d == [c EXCEPT !.block[h] = f]
  IN  IF c.cs = "Connected"
      THEN Put(d, [m |-> "DATA_B3_REQ", id |-> c.ncci, ok |-> TRUE, h |-> h])
      ELSE DataB3Conf(d, h, FALSE)

(* The next frame is read; the last one sets GetSendState() to 2.          *)
SendSFF(c) == [c EXCEPT !.next = @ + 1, !.fin = c.next = MaxFrames]

(* One turn of the loop of SendData.  A frame that cannot be put or read   *)
(* is deleted on the spot and the call hung up, and the loop goes on.      *)
SendFrame(c, h) ==
  LET d == DataB3Req(SendSFF(c), h, c.next)
  IN  IF d.fin THEN DisconnectReq(d, FALSE) ELSE d
SendDropped(c) ==
  DisconnectReq([SendSFF(c) EXCEPT !.deleted[c.next] = @ + 1], TRUE)

(* Bug: the DDI prefix stays set when the number is complete.              *)
IncomingCallKeepsDDI(c) ==
  CallBegins(Put([c EXCEPT !.cs = "D_ConnectPending", !.active = TRUE],
                 Msg("CONNECT_RESP", c.plci)))

IncomingCall(c) ==
  CallBegins(Put([c EXCEPT !.cs = "D_ConnectPending", !.active = TRUE, !.ddi = FALSE],
                 Msg("CONNECT_RESP", c.plci)))

(* Bug: the driver is not told.                                            *)
RejectSilently(c) == [ResetValues(c) EXCEPT !.cs = "Registered"]

(* ConnectResp with a reject code.                                         *)
Reject(c) ==
  [ResetValues(Put(c, No("CONNECT_RESP", c.plci))) EXCEPT !.cs = "Registered"]

-----------------------------------------------------------------------------
(* Message handlers.  A handler that returns vFalse is followed by the     *)
(* automatic answer of CCAPI20_MsgBase (CapiMsg.h).                        *)

(* Bug: the ringing timer is never started.                                *)
CONNECT_CONF_NoTimer(c, msg) ==
  LET d == [c EXCEPT !.plci = msg.id]
      e == [c EXCEPT !.init = FALSE,
                     !.cs = IF @ \in {"D_ConnectRequest", "D_DisconnectPending"}
                            THEN "Registered" ELSE @]
  IN  CASE ~msg.ok -> DisconnectInd(e)
        [] msg.ok /\ c.cs = "D_ConnectRequest" -> [d EXCEPT !.cs = "D_ConnectPending"]
        [] OTHER -> Put(IF c.cs = "D_DisconnectPending" THEN d ELSE c,
                        Msg("DISCONNECT_REQ", msg.id))

CONNECT_CONF(c, msg) ==
  LET d == [c EXCEPT !.plci = msg.id]
      e == [c EXCEPT !.init = FALSE,
                     !.cs = IF @ \in {"D_ConnectRequest", "D_DisconnectPending"}
                            THEN "Registered" ELSE @]
  IN  CASE ~msg.ok -> DisconnectInd(e)
        [] msg.ok /\ c.cs = "D_ConnectRequest" ->
             [d EXCEPT !.cs = "D_ConnectPending",
                       !.timer = IF RingingTimeout THEN "ringing" ELSE @]
        [] OTHER -> Put(IF c.cs = "D_DisconnectPending"
                        THEN [d EXCEPT !.timer = "disconnect"] ELSE c,
                        Msg("DISCONNECT_REQ", msg.id))

CONNECT_B3_CONF(c, msg) ==
  IF msg.ok /\ msg.id = c.plci /\ c.cs = "D_Connected"
  THEN [c EXCEPT !.cs = "B_ConnectPending", !.ncci = msg.id]
  ELSE Put(c, Msg("DISCONNECT_REQ", msg.id))

DATA_B3_CONF(c, msg) ==
  IF msg.id # c.ncci THEN Put(c, Msg("DISCONNECT_B3_REQ", msg.id))
  ELSE DataB3Conf(c, msg.h, TRUE)

DISCONNECT_B3_CONF(c, msg) ==
  IF msg.id = c.ncci /\ msg.ok THEN c ELSE Put(c, Msg("DISCONNECT_REQ", msg.id))

(* Bug: the timer is not cancelled.                                        *)
DISCONNECT_CONF_NoCancel(c, msg) ==
  IF msg.id = c.plci /\ ~msg.ok THEN Release(c) ELSE c

DISCONNECT_CONF(c, msg) ==
  IF msg.id = c.plci /\ ~msg.ok THEN Release([c EXCEPT !.timer = "none"]) ELSE c

LISTEN_CONF(c, msg) == IF msg.ok THEN c ELSE StopReceive(c)

(* found: what FindCallInfo says of the called number (no MSN matches, an  *)
(* MSN matches, a DDI call whose number is not complete, "ddi" with the    *)
(* length of the prefix and "bare" with length 0, which FindCallInfo gives *)
(* when there is no prefix or it is not in the number); claimed: another   *)
(* channel of the process has claimed the PLCI first (AcceptIncomingCall). *)
CONNECT_IND(c, msg, found, claimed) ==
  LET d == [c EXCEPT !.cs = "D_ConnectIndication", !.plci = msg.id]
  IN  CASE c.cs # "Registered" -> Put(c, No("CONNECT_RESP", msg.id))
        [] c.cs = "Registered" /\ (~c.msn \/ found = "reject") -> Reject(d)
        [] c.cs = "Registered" /\ c.msn /\ found = "ddi" ->
             [d EXCEPT !.active = TRUE, !.ddi = TRUE]
        [] c.cs = "Registered" /\ c.msn /\ found = "bare" ->
             [d EXCEPT !.active = TRUE, !.phase = "unseen"]
        [] OTHER -> IF claimed THEN HangUp(d, FALSE) ELSE IncomingCall(d)

(* Digits of a DDI number; complete: TestDDINumber accepts the number.     *)
INFO_IND(c, msg, complete, claimed) ==
  IF msg.id # c.plci \/ c.cs # "D_ConnectIndication" \/ ~c.msn \/ ~complete THEN c
  ELSE IF claimed THEN HangUp(c, FALSE) ELSE IncomingCall(c)

CONNECT_ACTIVE_IND(c, msg) ==
  LET d == [c EXCEPT !.cs = "D_Connected", !.timer = "bchannel", !.init = FALSE]
  IN  CASE msg.id # c.plci \/ c.cs # "D_ConnectPending" ->
             Put(c, Msg("DISCONNECT_REQ", msg.id))
        [] OTHER -> IF c.init THEN Put(d, Msg("CONNECT_B3_REQ", c.plci)) ELSE d

CONNECT_B3_IND(c, msg) ==
  IF msg.id # c.plci \/ c.cs # "D_Connected" THEN Put(c, No("CONNECT_B3_RESP", msg.id))
  ELSE Put([c EXCEPT !.cs = "B_ConnectPending", !.ncci = msg.id],
           Msg("CONNECT_B3_RESP", msg.id))

(* IsConnected: faxsend starts to send; faxrecv hangs up when it cannot    *)
(* store this fax (ready is FALSE).                                        *)
IsConnected(c, ready) ==
  LET d == CallConnected(c)
  IN  CASE App = "send" -> [d EXCEPT !.sending = TRUE]
        [] App = "recv" /\ ~ready -> HangUp(d, TRUE)
        [] OTHER -> d

CONNECT_B3_ACTIVE_IND(c, msg, ready) ==
  IF msg.id # c.ncci \/ c.cs # "B_ConnectPending"
  THEN Put(c, Msg("DISCONNECT_B3_REQ", msg.id))
  ELSE IsConnected([c EXCEPT !.cs = "Connected", !.timer = "none"], ready)

(* GetData of faxrecv hangs up when the data cannot be stored.             *)
DATA_B3_IND(c, msg, ready) ==
  IF msg.id = c.ncci /\ ~ready THEN DisconnectReq(c, TRUE) ELSE c

(* DisconnectB3Ind, with DisconnectInquiry, which both applications answer *)
(* at once by DisconnectConfirm (DisconnectB3Resp).                        *)
DISCONNECT_B3_IND(c, msg) ==
  LET d == CallClosing(ResetSendBlock(c))
  IN  CASE msg.id # c.ncci -> c
        [] msg.id = c.ncci /\ c.cs = "D_DisconnectPending" -> d
        [] OTHER -> Put([d EXCEPT !.ncci = 0, !.cs = "D_DisconnectPending",
                                  !.timer = "disconnect"],
                        Msg("DISCONNECT_REQ", c.plci))

DISCONNECT_IND(c, msg) ==
  LET d == Put(c, Msg("DISCONNECT_RESP", msg.id))
  IN  IF msg.id # c.plci THEN d
      ELSE DisconnectInd([ResetValues(d) EXCEPT !.timer = "none", !.cs = "Registered"])

(* StateChangeTimer_CallBack, on the thread that takes SIGALRM.            *)
TimerCallBack(c) ==
  LET d == [c EXCEPT !.timer = "none"]
  IN  CASE c.cs \in {"B_ConnectPending", "D_Connected"} ->
             IF c.timer = "ringing" THEN d ELSE DisconnectReq(d, FALSE)
        [] c.cs \in {"D_ConnectPending", "D_ConnectRequest"} -> DisconnectReq(d, FALSE)
        [] c.cs = "D_DisconnectPending" -> Release(d)
        [] OTHER -> d
=============================================================================
