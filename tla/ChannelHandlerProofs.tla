----------------------- MODULE ChannelHandlerProofs --------------------------
(***************************************************************************)
(* Every handler of the channel keeps the invariant Fits of its members,   *)
(* for any number of connections, handles and data blocks, and of any      *)
(* driver as far as the lemma does not say otherwise.  The lemmas are about*)
(* the record of a channel before and after the handler; ChannelProofs     *)
(* puts them together with the driver and the threads.                     *)
(*                                                                         *)
(* First come the operations that the handlers are built from              *)
(* (CapiMsg.cpp, CapiBase.cpp, CapiChan.cpp): which members of the channel *)
(* each one writes and how, so that a proof about a handler need not open  *)
(* what the handler calls.  The members come in groups that most           *)
(* operations leave alone as a whole: the line to the driver, the call,    *)
(* what the application wants, and the fax.                                *)
(***************************************************************************)
EXTENDS Channel, SequenceTheorems, TLAPS

(* The names of a channel's members, kept as one set so that the provers   *)
(* need not look at all of them at every update.                           *)
Names ==
  {"cs", "plci", "ncci", "init", "timer", "appl", "thr", "down", "active", "flags",
   "inuse", "msn", "ddi", "block", "capi", "resets", "next", "fin", "sending", "quit",
   "deleted", "phase", "begun"}

NamesAreIn ==
  /\ "cs" \in Names /\ "plci" \in Names /\ "ncci" \in Names /\ "init" \in Names
  /\ "timer" \in Names /\ "appl" \in Names /\ "thr" \in Names /\ "down" \in Names
  /\ "active" \in Names /\ "flags" \in Names /\ "inuse" \in Names /\ "msn" \in Names
  /\ "ddi" \in Names /\ "block" \in Names /\ "capi" \in Names /\ "resets" \in Names
  /\ "next" \in Names /\ "fin" \in Names /\ "sending" \in Names /\ "quit" \in Names
  /\ "deleted" \in Names /\ "phase" \in Names /\ "begun" \in Names

Shaped(c) == c = [x \in Names |-> c[x]]

LineTyped(c) ==
  /\ c.cs \in IdleStates \cup CallStates
  /\ c.plci \in Plcis \cup {0} /\ c.ncci \in Plcis \cup {0} /\ c.init \in BOOLEAN
  /\ c.timer \in {"none", "ringing", "bchannel", "disconnect"}
  /\ c.appl \in BOOLEAN /\ c.thr \in {"none", "starting", "run", "late", "exit"}
  /\ c.down \in Seq(Messages(Requests))

CallTyped(c) ==
  /\ c.active \in BOOLEAN /\ c.flags \in SUBSET {"WAIT_REGISTER", "WAIT_RELEASE", "RESET"}
  /\ c.inuse \in {0, 1} /\ c.msn \in BOOLEAN /\ c.ddi \in BOOLEAN
  /\ c.capi \in BOOLEAN /\ c.resets \in Nat /\ c.quit \in BOOLEAN
  /\ c.phase \in {"idle", "unseen", "setup", "connected", "closing", "error"}
  /\ c.begun \in Nat

FaxTyped(c) ==
  /\ c.block \in [Handles -> Frames \cup {0}] /\ c.deleted \in [Frames -> Nat]
  /\ c.next \in 1 .. MaxFrames + 1 /\ c.fin \in BOOLEAN /\ c.sending \in BOOLEAN

Typed(c) == Shaped(c) /\ LineTyped(c) /\ CallTyped(c) /\ FaxTyped(c)

(* What an operation leaves as it was.                                     *)
SameLine(c, d) ==
  /\ d.cs = c.cs /\ d.plci = c.plci /\ d.ncci = c.ncci /\ d.init = c.init
  /\ d.timer = c.timer /\ d.appl = c.appl /\ d.thr = c.thr /\ d.down = c.down

SameCall(c, d) ==
  d.active = c.active /\ d.ddi = c.ddi /\ d.phase = c.phase /\ d.begun = c.begun

SameWish(c, d) ==
  d.msn = c.msn /\ d.quit = c.quit /\ d.flags = c.flags /\ d.resets = c.resets

SameFax(c, d) ==
  /\ d.block = c.block /\ d.deleted = c.deleted /\ d.next = c.next
  /\ d.fin = c.fin /\ d.sending = c.sending

(* The facts about Names that every update of a member needs.              *)
LEMMA NamesHold == NamesAreIn
BY DEF NamesAreIn, Names

(* Channels, said member by member.                                        *)
LEMMA ChannelIs ==
  ASSUME NEW c
  PROVE  c \in Channels <=> Typed(c)
<1>1. ASSUME Typed(c) PROVE c \in Channels
  BY <1>1 DEF Typed, Shaped, Names, LineTyped, CallTyped, FaxTyped, Channels
<1>2. ASSUME c \in Channels PROVE Typed(c)
  <2>1. Shaped(c)
    BY <1>2 DEF Shaped, Names, Channels
  <2>2. LineTyped(c)
    BY <1>2 DEF LineTyped, Channels
  <2>3. CallTyped(c)
    BY <1>2 DEF CallTyped, Channels
  <2>4. FaxTyped(c)
    BY <1>2 DEF FaxTyped, Channels
  <2> QED
    BY <2>1, <2>2, <2>3, <2>4 DEF Typed
<1> QED
  BY <1>1, <1>2

(* RELEASE as seen from a state that is not cs_Releasing.                  *)
GivesUp(c, d) ==
  /\ d.cs = "Releasing" /\ d.plci = 0 /\ d.ncci = 0 /\ d.init = FALSE
  /\ d.timer = c.timer /\ d.down = c.down /\ d.appl = FALSE
  /\ d.thr = (IF c.thr = "exit" THEN "exit" ELSE "late")

(* Release gives up the registration and leaves the call alone.            *)
LEMMA ReleaseIs ==
  ASSUME NEW c, Typed(c), c.cs \notin {"Released", "Registering", "Releasing"},
         NEW d, d = Release(c)
  PROVE  /\ Typed(d) /\ d.inuse = c.inuse /\ d.capi = c.capi
         /\ GivesUp(c, d) /\ SameCall(c, d) /\ SameWish(c, d) /\ SameFax(c, d)
<1>1. Shaped(d)
  BY NamesHold DEF NamesAreIn, Typed, Shaped, RELEASE, Release, ResetValues
<1>2. /\ d.inuse = c.inuse /\ d.capi = c.capi
      /\ GivesUp(c, d) /\ SameCall(c, d) /\ SameWish(c, d) /\ SameFax(c, d)
  BY NamesHold DEF NamesAreIn, Typed, Shaped, RELEASE, Release, ResetValues, GivesUp, SameCall,
     SameWish, SameFax
<1>3. Typed(d)
  BY <1>1, <1>2 DEF Typed, LineTyped, CallTyped, FaxTyped, GivesUp, SameCall, SameWish,
     SameFax, IdleStates
<1> QED
  BY <1>2, <1>3

Same(c, d) ==
  /\ d.inuse = c.inuse /\ d.capi = c.capi
  /\ SameCall(c, d) /\ SameWish(c, d) /\ SameFax(c, d)

(* The line but for the messages to the driver.                            *)
SameState(c, d) ==
  /\ d.cs = c.cs /\ d.plci = c.plci /\ d.ncci = c.ncci /\ d.init = c.init
  /\ d.timer = c.timer /\ d.appl = c.appl /\ d.thr = c.thr

SameIds(c, d) ==
  /\ d.plci = c.plci /\ d.ncci = c.ncci /\ d.init = c.init
  /\ d.appl = c.appl /\ d.thr = c.thr

Puts(c, d, msg) == d.down = (IF c.appl THEN Append(c.down, msg) ELSE c.down)

(* A message put to CAPI changes nothing but what is on its way.           *)
LEMMA PutIs ==
  ASSUME NEW c, Typed(c), NEW msg \in Messages(Requests), NEW d, d = Put(c, msg)
  PROVE  Typed(d) /\ Same(c, d) /\ SameState(c, d) /\ Puts(c, d, msg)
<1>1. Shaped(d) /\ Same(c, d) /\ SameState(c, d) /\ Puts(c, d, msg)
  BY NamesHold DEF NamesAreIn, Typed, Shaped, Put, Same, SameCall, SameWish, SameFax, SameState,
     Puts
<1>2. d.down \in Seq(Messages(Requests))
  BY <1>1 DEF Typed, LineTyped, Puts
<1>3. Typed(d)
  BY <1>1, <1>2 DEF Typed, LineTyped, CallTyped, FaxTyped, Same, SameCall, SameWish, SameFax,
     SameState
<1> QED
  BY <1>1, <1>3

(* RELEASE makes the id illegal and tells the CAPI thread to stop.         *)
LEMMA RELEASEIs ==
  ASSUME NEW c, Typed(c), NEW d, d = RELEASE(c)
  PROVE  /\ Typed(d) /\ Same(c, d)
         /\ d.cs = c.cs /\ d.plci = c.plci /\ d.ncci = c.ncci /\ d.init = c.init
         /\ d.timer = c.timer /\ d.down = c.down /\ d.appl = FALSE
         /\ d.thr = (IF c.thr = "exit" THEN "exit" ELSE "late")
<1>1. /\ Shaped(d) /\ Same(c, d)
      /\ d.cs = c.cs /\ d.plci = c.plci /\ d.ncci = c.ncci /\ d.init = c.init
      /\ d.timer = c.timer /\ d.down = c.down /\ d.appl = FALSE
      /\ d.thr = (IF c.thr = "exit" THEN "exit" ELSE "late")
  BY NamesHold DEF NamesAreIn, Typed, Shaped, RELEASE, Same, SameCall, SameWish, SameFax
<1>2. Typed(d)
  BY <1>1 DEF Typed, LineTyped, CallTyped, FaxTyped, Same, SameCall, SameWish, SameFax
<1> QED
  BY <1>1, <1>2

(* CheckListenReset releases a channel that is registered, and no other.   *)
LEMMA CheckListenResetIs ==
  ASSUME NEW c, Typed(c), NEW d, d = CheckListenReset(c)
  PROVE  /\ c.cs # "Registered" => d = c
         /\ c.cs = "Registered" =>
              /\ Typed(d) /\ d.inuse = c.inuse /\ d.capi = c.capi
              /\ GivesUp(c, d) /\ SameCall(c, d) /\ SameFax(c, d)
              /\ d.msn = c.msn /\ d.quit = c.quit /\ d.resets = c.resets
              /\ d.flags = c.flags \cup {"WAIT_RELEASE"}
<1>1. CASE c.cs # "Registered"
  BY <1>1 DEF CheckListenReset
<1>2. CASE c.cs = "Registered"
  <2> DEFINE e == [c EXCEPT !.flags = @ \cup {"WAIT_RELEASE"}]
  <2>1. /\ Shaped(e) /\ SameLine(c, e) /\ SameCall(c, e) /\ SameFax(c, e)
        /\ e.inuse = c.inuse /\ e.capi = c.capi
        /\ e.msn = c.msn /\ e.quit = c.quit /\ e.resets = c.resets
        /\ e.flags = c.flags \cup {"WAIT_RELEASE"}
    BY NamesHold DEF NamesAreIn, Typed, Shaped, SameLine, SameCall, SameFax
  <2>2. d = Release(e)
    BY <1>2 DEF CheckListenReset
  <2> HIDE DEF e
  <2>3. Typed(e) /\ e.cs = "Registered"
    BY <1>2, <2>1 DEF Typed, LineTyped, CallTyped, FaxTyped, SameLine, SameCall, SameFax
  <2>4. /\ Typed(d) /\ d.inuse = e.inuse /\ d.capi = e.capi
        /\ GivesUp(e, d) /\ SameCall(e, d) /\ SameWish(e, d) /\ SameFax(e, d)
    BY <2>2, <2>3, ReleaseIs
  <2> QED
    BY <1>2, <2>1, <2>4 DEF SameLine, SameCall, SameWish, SameFax, GivesUp
<1> QED
  BY <1>1, <1>2

(* ResetIdle posts at once, or remembers the reset.                        *)
LEMMA ResetIdlePosts ==
  ASSUME NEW c, Typed(c), c.cs = "Released", c.flags = {}, c.inuse = 0,
         NEW d, d = ResetIdle(c)
  PROVE  /\ Typed(d) /\ d.inuse = 0 /\ d.capi = c.capi
         /\ SameLine(c, d) /\ SameCall(c, d) /\ SameFax(c, d)
         /\ d.quit = c.quit /\ d.msn = c.msn /\ d.flags = {} /\ d.resets = c.resets + 1
<1>1. d = [c EXCEPT !.resets = @ + 1]
  BY DEF ResetIdle, IsReseted
<1>2. /\ Shaped(d) /\ d.inuse = 0 /\ d.capi = c.capi
      /\ SameCall(c, d) /\ SameFax(c, d) /\ SameLine(c, d)
      /\ d.quit = c.quit /\ d.msn = c.msn /\ d.flags = {}
      /\ d.resets = c.resets + 1
  BY <1>1, NamesHold DEF NamesAreIn, Typed, Shaped, SameCall, SameFax, SameLine
<1> QED
  BY <1>2 DEF Typed, LineTyped, CallTyped, FaxTyped, SameCall, SameFax, SameLine

(* A reset that cannot be finished at once waits in m_Reseting.            *)
LEMMA ResetIdleWaits ==
  ASSUME NEW c, Typed(c), c.cs # "Released" \/ c.flags # {} \/ c.inuse # 0,
         NEW d, d = ResetIdle(c)
  PROVE  /\ Typed(d) /\ d.inuse = c.inuse /\ d.capi = c.capi
         /\ SameCall(c, d) /\ SameFax(c, d)
         /\ d.quit = c.quit /\ d.msn = FALSE /\ d.resets = c.resets /\ "RESET" \in d.flags
         /\ c.cs # "Registered" => SameLine(c, d) /\ d.flags = c.flags \cup {"RESET"}
         /\ c.cs = "Registered" => GivesUp(c, d)
<1> DEFINE e == [c EXCEPT !.flags = @ \cup {"RESET"}, !.msn = FALSE]
<1>1. /\ Shaped(e) /\ e.inuse = c.inuse /\ e.capi = c.capi
      /\ SameCall(c, e) /\ SameFax(c, e) /\ SameLine(c, e)
      /\ e.quit = c.quit /\ e.msn = FALSE /\ e.flags = c.flags \cup {"RESET"}
      /\ e.resets = c.resets
  BY NamesHold DEF NamesAreIn, Typed, Shaped, SameCall, SameFax, SameLine
<1>2. d = CheckListenReset(e)
  BY DEF ResetIdle
<1> HIDE DEF e
<1>3. Typed(e)
  BY <1>1 DEF Typed, LineTyped, CallTyped, FaxTyped, SameCall, SameFax, SameLine
<1>4. CASE c.cs # "Registered"
  <2>1. d = e
    BY <1>1, <1>2, <1>3, <1>4, CheckListenResetIs DEF SameLine
  <2> QED
    BY <1>1, <1>3, <1>4, <2>1
<1>5. CASE c.cs = "Registered"
  <2>1. /\ Typed(d) /\ d.inuse = e.inuse /\ d.capi = e.capi
        /\ GivesUp(e, d) /\ SameCall(e, d) /\ SameFax(e, d)
        /\ d.msn = e.msn /\ d.quit = e.quit /\ d.resets = e.resets
        /\ d.flags = e.flags \cup {"WAIT_RELEASE"}
    BY <1>1, <1>2, <1>3, <1>5, CheckListenResetIs DEF SameLine
  <2> QED
    BY <1>1, <1>5, <2>1 DEF SameLine, SameCall, SameFax, GivesUp
<1> QED
  BY <1>4, <1>5

(* The member values of a call that is over.                               *)
Over(c, d) ==
  /\ d.active = FALSE /\ d.begun = c.begun
  /\ d.block = [h \in Handles |-> 0]
  /\ d.deleted = [f \in Frames |->
                    c.deleted[f] + IF \E h \in Handles : c.block[h] = f THEN 1 ELSE 0]
  /\ d.next = c.next /\ d.sending = c.sending

(* ListenTurn and CheckListen, from a state in which CheckListen does not  *)
(* run yet.                                                                *)
TakesUp(c, d) ==
  /\ d.cs = "Registering" /\ d.appl = TRUE /\ d.thr = "starting"
  /\ d.plci = c.plci /\ d.ncci = c.ncci /\ d.init = c.init
  /\ d.timer = c.timer /\ d.down = c.down

(* A register that fails with somebody waiting to listen: the receiver     *)
(* stops itself.                                                           *)
LEMMA ListenFailsIs ==
  ASSUME NEW c, Typed(c), c.cs = "Released", ~c.active, c.msn,
         "WAIT_REGISTER" \in c.flags, "RESET" \notin c.flags,
         NEW d, d = RegisterFailed(c)
  PROVE  /\ Typed(d) /\ d.inuse = c.inuse /\ d.capi = c.capi
         /\ SameLine(c, d) /\ SameCall(c, d) /\ SameFax(c, d)
         /\ d.msn = FALSE /\ d.quit = TRUE
         /\ c.inuse = 0 => d.resets = c.resets + 1 /\ d.flags = {}
         /\ c.inuse = 1 => d.resets = c.resets /\ "RESET" \in d.flags
<1> DEFINE e == [c EXCEPT !.quit = TRUE]
           f == ResetIdle(e)
<1>1. /\ Shaped(e) /\ e.inuse = c.inuse /\ e.capi = c.capi
      /\ SameLine(c, e) /\ SameCall(c, e) /\ SameFax(c, e)
      /\ e.msn = c.msn /\ e.flags = c.flags /\ e.resets = c.resets /\ e.quit = TRUE
  BY NamesHold DEF NamesAreIn, Typed, Shaped, SameCall, SameFax, SameLine
<1>2. d = CheckFinishReset(f, {})
  BY DEF RegisterFailed, ListenErrorIdle
<1> HIDE DEF e, f
<1>3. Typed(e)
  BY <1>1 DEF Typed, LineTyped, CallTyped, FaxTyped, SameCall, SameFax, SameLine
<1>4. /\ Typed(f) /\ f.inuse = c.inuse /\ f.capi = c.capi
      /\ SameLine(c, f) /\ SameCall(c, f) /\ SameFax(c, f)
      /\ f.msn = FALSE /\ f.quit = TRUE /\ f.resets = c.resets /\ "RESET" \in f.flags
  <2>1. e.inuse \in {0, 1} /\ e.cs = "Released" /\ e.flags # {}
    BY <1>1 DEF Typed, CallTyped, SameLine
  <2>2. /\ Typed(f) /\ f.inuse = e.inuse /\ f.capi = e.capi
        /\ SameCall(e, f) /\ SameFax(e, f) /\ f.quit = e.quit
        /\ f.msn = FALSE /\ f.resets = e.resets /\ "RESET" \in f.flags
        /\ SameLine(e, f)
    BY <1>3, <2>1, ResetIdleWaits DEF f
  <2> QED
    BY <1>1, <2>2 DEF SameLine, SameCall, SameFax
<1>5. CASE c.inuse = 0
  <2>1. d = [[f EXCEPT !.flags = {}] EXCEPT !.resets = @ + 1]
    BY <1>2, <1>4, <1>5 DEF CheckFinishReset, IsReseted
  <2>2. /\ Shaped(d) /\ d.inuse = f.inuse /\ d.capi = f.capi
        /\ SameLine(f, d) /\ SameCall(f, d) /\ SameFax(f, d)
        /\ d.msn = f.msn /\ d.quit = f.quit /\ d.flags = {} /\ d.resets = f.resets + 1
    BY <2>1, <1>4, NamesHold, ZenonT(40) DEF NamesAreIn, Typed, Shaped, SameCall, SameFax, SameLine
  <2>3. Typed(d)
    BY <1>4, <2>2 DEF Typed, LineTyped, CallTyped, FaxTyped, SameCall, SameFax, SameLine
  <2> QED
    BY <1>4, <1>5, <2>2, <2>3 DEF SameLine, SameCall, SameFax
<1>6. CASE c.inuse = 1
  <2>1. d = f
    BY <1>2, <1>4, <1>6 DEF CheckFinishReset
  <2> QED
    BY <1>4, <1>6, <2>1
<1> QED
  BY <1>5, <1>6 DEF Typed, CallTyped

Members(c, d) ==
  SameLine(c, d) /\ SameCall(c, d) /\ SameFax(c, d) /\ d.capi = c.capi

(* Register, when CAPI can be loaded.                                      *)
LEMMA RegisterIs ==
  ASSUME NEW c, Typed(c), c.cs = "Released", c.capi, NEW d, d = Register(c)
  PROVE  /\ Typed(d) /\ TakesUp(c, d) /\ Same(c, d)
<1>1. Shaped(d) /\ TakesUp(c, d) /\ Same(c, d)
  BY NamesHold DEF NamesAreIn, Typed, Shaped, Register, TakesUp, Same, SameCall, SameWish, SameFax
<1>2. Typed(d)
  BY <1>1 DEF Typed, LineTyped, CallTyped, FaxTyped, TakesUp, Same, SameCall, SameWish,
     SameFax, IdleStates
<1> QED
  BY <1>1, <1>2

(* What CallEnds does to the phase and to the fax.                         *)
LEMMA DialFailsIs ==
  ASSUME NEW c, Typed(c), c.cs = "Released", c.active, ~c.msn, c.inuse = 0, App = "send",
         "WAIT_REGISTER" \in c.flags, NEW d, d = RegisterFailed(c)
  PROVE  /\ Typed(d) /\ d.inuse = 0 /\ d.capi = c.capi /\ SameLine(c, d)
         /\ d.active = FALSE /\ d.ddi = c.ddi /\ d.begun = c.begun
         /\ d.phase = (IF c.phase = "idle" THEN "error" ELSE "idle")
         /\ d.block = c.block /\ d.deleted = c.deleted /\ d.next = c.next
         /\ d.fin = TRUE /\ d.sending = c.sending
         /\ d.msn = FALSE /\ d.quit = c.quit /\ d.flags = {} /\ d.resets = c.resets + 1
<1> DEFINE e == CallEnds([c EXCEPT !.active = FALSE])
           f == ResetIdle(e)
<1>1. /\ Shaped(e) /\ e.inuse = c.inuse /\ e.capi = c.capi /\ SameLine(c, e)
      /\ SameWish(c, e) /\ e.active = FALSE /\ e.ddi = c.ddi /\ e.begun = c.begun
      /\ e.phase = (IF c.phase = "idle" THEN "error" ELSE "idle")
      /\ e.block = c.block /\ e.deleted = c.deleted /\ e.next = c.next
      /\ e.fin = TRUE /\ e.sending = c.sending
  BY NamesHold DEF NamesAreIn, Typed, Shaped, SameWish, SameLine, CallEnds
<1>2. d = CheckFinishReset(IF f.msn THEN ListenErrorIdle(f) ELSE f, {})
  BY DEF RegisterFailed, IsDisconnected
<1> HIDE DEF e, f
<1>3. Typed(e)
  BY <1>1 DEF Typed, LineTyped, CallTyped, FaxTyped, SameWish, SameLine
<1>4. /\ Typed(f) /\ f.inuse = 0 /\ f.capi = c.capi
      /\ SameLine(c, f) /\ SameCall(e, f) /\ SameFax(e, f)
      /\ f.msn = FALSE /\ f.quit = c.quit /\ f.resets = c.resets /\ "RESET" \in f.flags
  <2>1. e.inuse \in {0, 1} /\ e.cs = "Released" /\ e.flags # {}
    BY <1>1 DEF Typed, CallTyped, SameLine, SameWish
  <2>2. /\ Typed(f) /\ f.inuse = e.inuse /\ f.capi = e.capi
        /\ SameCall(e, f) /\ SameFax(e, f) /\ f.quit = e.quit
        /\ f.msn = FALSE /\ f.resets = e.resets /\ "RESET" \in f.flags
        /\ SameLine(e, f)
    BY <1>3, <2>1, ResetIdleWaits DEF f
  <2> QED
    BY <1>1, <2>2 DEF SameLine, SameCall, SameFax, SameWish
<1>5. d = [[f EXCEPT !.flags = {}] EXCEPT !.resets = @ + 1]
  BY <1>2, <1>4 DEF CheckFinishReset, IsReseted
<1>6. /\ Shaped(d) /\ d.inuse = f.inuse /\ d.capi = f.capi
      /\ SameLine(f, d) /\ SameCall(f, d) /\ SameFax(f, d)
      /\ d.msn = f.msn /\ d.quit = f.quit /\ d.flags = {} /\ d.resets = f.resets + 1
  <2> DEFINE g == [f EXCEPT !.flags = {}]
  <2>1. /\ Shaped(g) /\ g.inuse = f.inuse /\ g.capi = f.capi
        /\ SameLine(f, g) /\ SameCall(f, g) /\ SameFax(f, g)
        /\ g.msn = f.msn /\ g.quit = f.quit /\ g.flags = {} /\ g.resets = f.resets
    <3>1. Shaped(f)
      BY <1>4 DEF Typed
    <3> QED
      BY <3>1, NamesHold DEF NamesAreIn, Shaped, SameCall, SameFax, SameLine
  <2>2. d = [g EXCEPT !.resets = @ + 1]
    BY <1>5
  <2> HIDE DEF g
  <2>3. /\ Shaped(d) /\ d.inuse = g.inuse /\ d.capi = g.capi
        /\ SameLine(g, d) /\ SameCall(g, d) /\ SameFax(g, d)
        /\ d.msn = g.msn /\ d.quit = g.quit /\ d.flags = g.flags /\ d.resets = g.resets + 1
    BY <2>1, <2>2, NamesHold DEF NamesAreIn, Shaped, SameCall, SameFax, SameLine
  <2> QED
    BY <2>1, <2>3 DEF SameCall, SameFax, SameLine
<1>7. Typed(d)
  BY <1>4, <1>6 DEF Typed, LineTyped, CallTyped, FaxTyped, SameCall, SameFax, SameLine
<1> QED
  BY <1>1, <1>4, <1>6, <1>7 DEF SameLine, SameCall, SameFax

(* CheckFinishReset, outside of CheckListen.                               *)
LEMMA CheckFinishResetIs ==
  ASSUME NEW c, Typed(c), c.inuse = 0,
         NEW new \in SUBSET {"WAIT_REGISTER", "WAIT_RELEASE", "RESET"},
         NEW d, d = CheckFinishReset(c, new)
  PROVE  /\ Typed(d) /\ d.inuse = 0 /\ d.capi = c.capi
         /\ SameLine(c, d) /\ SameCall(c, d) /\ SameFax(c, d)
         /\ d.msn = c.msn /\ d.quit = c.quit
         /\ "RESET" \in c.flags => d.flags = {} /\ d.resets = c.resets + 1
         /\ "RESET" \notin c.flags => d.flags = new /\ d.resets = c.resets
<1>1. CASE "RESET" \in c.flags
  <2>1. d = [[c EXCEPT !.flags = {}] EXCEPT !.resets = @ + 1]
    BY <1>1 DEF CheckFinishReset, IsReseted
  <2>2. /\ Shaped(d) /\ d.inuse = 0 /\ d.capi = c.capi
        /\ SameLine(c, d) /\ SameCall(c, d) /\ SameFax(c, d)
        /\ d.msn = c.msn /\ d.quit = c.quit
        /\ d.flags = {} /\ d.resets = c.resets + 1
    BY <2>1, NamesHold DEF NamesAreIn, Typed, Shaped, SameCall, SameFax, SameLine
  <2> QED
    BY <1>1, <2>2 DEF Typed, LineTyped, CallTyped, FaxTyped, SameCall, SameFax, SameLine
<1>2. CASE "RESET" \notin c.flags
  <2>1. d = [c EXCEPT !.flags = new]
    BY <1>2 DEF CheckFinishReset
  <2>2. /\ Shaped(d) /\ d.inuse = 0 /\ d.capi = c.capi
        /\ SameLine(c, d) /\ SameCall(c, d) /\ SameFax(c, d)
        /\ d.msn = c.msn /\ d.quit = c.quit
        /\ d.flags = new /\ d.resets = c.resets
    BY <2>1, NamesHold DEF NamesAreIn, Typed, Shaped, SameCall, SameFax, SameLine
  <2> QED
    BY <1>2, <2>2 DEF Typed, LineTyped, CallTyped, FaxTyped, SameCall, SameFax, SameLine
<1> QED
  BY <1>1, <1>2

(* CheckListen under RESET only gives a registration up.                   *)
LEMMA CheckListenUnderReset ==
  ASSUME NEW c, "RESET" \in c.flags
  PROVE  CheckListen(c) = CheckListenReset(c)
BY DEF CheckListen

(* The loop of CheckListen on a channel that is not registered.            *)
ListenBegins(c, d) ==
  /\ TakesUp(c, d) /\ d.flags = c.flags \cup {"WAIT_REGISTER"}
  /\ d.msn = TRUE /\ d.quit = c.quit /\ d.resets = c.resets

ListenFails(c, d) ==
  /\ SameLine(c, d) /\ d.msn = FALSE /\ d.quit = TRUE /\ d.flags = {}
  /\ d.resets = c.resets + 1

(* CheckListen of a released channel without a call, with no reset asked   *)
(* for.                                                                    *)
LEMMA CheckListenReleased ==
  ASSUME NEW c, Typed(c), c.inuse = 0, "RESET" \notin c.flags, c.cs = "Released", ~c.active,
         NEW d, d = CheckListen(c)
  PROVE  /\ Typed(d) /\ d.inuse = 0 /\ d.capi = c.capi /\ SameCall(c, d) /\ SameFax(c, d)
         /\ ~c.msn => /\ SameLine(c, d) /\ d.msn = c.msn /\ d.quit = c.quit
                      /\ d.flags = {} /\ d.resets = c.resets
         /\ c.msn => (c.capi /\ ListenBegins(c, d)) \/ (~c.capi /\ ListenFails(c, d))
<1> DEFINE e == [c EXCEPT !.inuse = 1]
           f == ListenTurn(e)
           g == [f EXCEPT !.inuse = 0]
           w == [e EXCEPT !.flags = @ \cup {"WAIT_REGISTER"}]
<1>1. /\ Typed(e) /\ e.inuse = 1 /\ e.capi = c.capi
      /\ SameLine(c, e) /\ SameCall(c, e) /\ SameFax(c, e) /\ SameWish(c, e)
  <2>1. /\ Shaped(e) /\ e.inuse = 1 /\ e.capi = c.capi
        /\ SameLine(c, e) /\ SameCall(c, e) /\ SameFax(c, e) /\ SameWish(c, e)
    BY NamesHold DEF NamesAreIn, Typed, Shaped, SameCall, SameFax, SameLine, SameWish
  <2> QED
    BY <2>1 DEF Typed, LineTyped, CallTyped, FaxTyped, SameCall, SameFax, SameLine, SameWish
<1>2. d = IF g.cs = "Released" THEN CheckFinishReset(g, {}) ELSE g
  BY DEF CheckListen
<1>3. f = IF c.msn THEN Register(w) ELSE e
  BY <1>1 DEF ListenTurn, SameLine, SameWish
<1>4. ASSUME c.msn
      PROVE  /\ Typed(w) /\ w.inuse = 1 /\ w.capi = c.capi
             /\ SameLine(c, w) /\ SameCall(c, w) /\ SameFax(c, w)
             /\ w.msn = TRUE /\ w.quit = c.quit /\ w.resets = c.resets
             /\ w.flags = c.flags \cup {"WAIT_REGISTER"}
  <2>1. /\ Shaped(w) /\ w.inuse = 1 /\ w.capi = c.capi
        /\ SameLine(e, w) /\ SameCall(e, w) /\ SameFax(e, w)
        /\ w.msn = e.msn /\ w.quit = e.quit /\ w.resets = e.resets
        /\ w.flags = e.flags \cup {"WAIT_REGISTER"}
    BY <1>1, NamesHold DEF NamesAreIn, Typed, Shaped, SameCall, SameFax, SameLine
  <2>2. Typed(w)
    BY <1>1, <2>1 DEF Typed, LineTyped, CallTyped, FaxTyped, SameCall, SameFax, SameLine
  <2>3. c.msn = TRUE
    BY <1>4 DEF Typed, CallTyped
  <2> QED
    BY <1>1, <2>1, <2>2, <2>3 DEF SameCall, SameFax, SameLine, SameWish
<1>5. ASSUME Typed(f)
      PROVE  /\ Typed(g) /\ g.inuse = 0 /\ g.capi = f.capi
             /\ SameLine(f, g) /\ SameCall(f, g) /\ SameFax(f, g) /\ SameWish(f, g)
  <2>1. /\ Shaped(g) /\ g.inuse = 0 /\ g.capi = f.capi
        /\ SameLine(f, g) /\ SameCall(f, g) /\ SameFax(f, g) /\ SameWish(f, g)
    BY <1>5, NamesHold DEF NamesAreIn, Typed, Shaped, SameCall, SameFax, SameLine, SameWish
  <2> QED
    BY <1>5, <2>1 DEF Typed, LineTyped, CallTyped, FaxTyped, SameCall, SameFax, SameLine,
       SameWish
<1> HIDE DEF e, f, g, w
<1>7. CASE ~c.msn
  <2>1. f = e
    BY <1>3, <1>7
  <2>2. /\ Typed(g) /\ g.inuse = 0 /\ g.capi = c.capi
        /\ SameLine(c, g) /\ SameCall(c, g) /\ SameFax(c, g) /\ SameWish(c, g)
    BY <1>1, <1>5, <2>1 DEF SameCall, SameFax, SameLine, SameWish
  <2>3. d = CheckFinishReset(g, {})
    BY <1>2, <2>2 DEF SameLine
  <2>4. "RESET" \notin g.flags
    BY <2>2 DEF SameWish
  <2>5. /\ Typed(d) /\ d.inuse = 0 /\ d.capi = g.capi
        /\ SameLine(g, d) /\ SameCall(g, d) /\ SameFax(g, d)
        /\ d.msn = g.msn /\ d.quit = g.quit /\ d.flags = {} /\ d.resets = g.resets
    BY <2>2, <2>3, <2>4, CheckFinishResetIs
  <2> QED
    BY <1>7, <2>2, <2>5 DEF SameCall, SameFax, SameLine, SameWish
<1>8. CASE c.msn /\ c.capi
  <2>1. f = Register(w)
    BY <1>3, <1>8
  <2>2. Typed(f) /\ TakesUp(w, f) /\ Same(w, f)
    BY <1>4, <1>8, <2>1, RegisterIs DEF SameLine
  <2>3. d = g
    BY <1>2, <1>5, <2>2 DEF SameLine, TakesUp
  <2>4. /\ Typed(g) /\ g.inuse = 0 /\ g.capi = f.capi
        /\ SameLine(f, g) /\ SameCall(f, g) /\ SameFax(f, g) /\ SameWish(f, g)
    BY <1>5, <2>2
  <2>5. TakesUp(c, d)
    BY <1>4, <1>8, <2>2, <2>3, <2>4 DEF SameLine, TakesUp
  <2>6. ListenBegins(c, d)
    BY <1>4, <1>8, <2>2, <2>3, <2>4, <2>5 DEF SameWish, Same, ListenBegins
  <2>7. SameCall(c, d) /\ SameFax(c, d)
    BY <1>4, <1>8, <2>2, <2>3, <2>4 DEF SameCall, SameFax, Same
  <2>8. Typed(d) /\ d.inuse = 0 /\ d.capi = c.capi
    BY <1>4, <1>8, <2>2, <2>3, <2>4 DEF Same
  <2> QED
    BY <1>8, <2>6, <2>7, <2>8
<1>9. CASE c.msn /\ ~c.capi
  <2>1. f = RegisterFailed(w)
    BY <1>3, <1>4, <1>9 DEF Register, SameLine
  <2>2. /\ Typed(f) /\ f.inuse = w.inuse /\ f.capi = w.capi
        /\ SameLine(w, f) /\ SameCall(w, f) /\ SameFax(w, f)
        /\ f.msn = FALSE /\ f.quit = TRUE
        /\ f.resets = w.resets /\ "RESET" \in f.flags
    <3>1. /\ Typed(w) /\ w.cs = "Released" /\ w.msn /\ w.inuse = 1 /\ ~w.active
          /\ "WAIT_REGISTER" \in w.flags /\ "RESET" \notin w.flags
      BY <1>4, <1>9 DEF SameLine, SameCall
    <3> QED
      BY <2>1, <3>1, ListenFailsIs
  <2>3. d = CheckFinishReset(g, {})
    BY <1>2, <1>4, <1>5, <1>9, <2>2 DEF SameLine
  <2>4. /\ Typed(d) /\ d.inuse = 0 /\ d.capi = g.capi
        /\ SameLine(g, d) /\ SameCall(g, d) /\ SameFax(g, d)
        /\ d.msn = g.msn /\ d.quit = g.quit /\ d.flags = {}
        /\ d.resets = g.resets + 1
    BY <1>5, <2>2, <2>3, CheckFinishResetIs DEF SameWish
  <2>5. ListenFails(c, d)
    BY <1>4, <1>5, <1>9, <2>2, <2>4 DEF SameLine, SameWish, ListenFails
  <2> QED
    BY <1>4, <1>5, <1>9, <2>2, <2>4, <2>5 DEF SameCall, SameFax
<1> QED
  BY <1>7, <1>8, <1>9

(* CheckListen of a channel that is not released.                          *)
LEMMA CheckListenTurns ==
  ASSUME NEW c, Typed(c), c.inuse = 0, "RESET" \notin c.flags, c.cs # "Released",
         NEW d, d = CheckListen(c)
  PROVE  /\ c.cs = "Registered" /\ ~c.msn =>
              /\ Typed(d) /\ d.inuse = 0 /\ d.capi = c.capi
              /\ GivesUp(c, d) /\ SameCall(c, d) /\ SameFax(c, d)
              /\ d.msn = c.msn /\ d.quit = c.quit /\ d.resets = c.resets
              /\ d.flags = c.flags \cup {"WAIT_RELEASE"}
         /\ c.cs # "Registering" /\ c.msn =>
              /\ Typed(d) /\ Same(c, d) /\ SameState(c, d)
              /\ Puts(c, d, Msg("LISTEN_REQ", 0))
         /\ c.cs = "Registering" \/ (c.cs # "Registered" /\ ~c.msn) =>
              Typed(d) /\ Same(c, d) /\ SameLine(c, d)
<1> DEFINE e == [c EXCEPT !.inuse = 1]
           f == ListenTurn(e)
           g == [f EXCEPT !.inuse = 0]
           w == [e EXCEPT !.flags = @ \cup {"WAIT_RELEASE"}]
<1>1. /\ Typed(e) /\ e.inuse = 1 /\ e.capi = c.capi
      /\ SameLine(c, e) /\ SameCall(c, e) /\ SameFax(c, e) /\ SameWish(c, e)
  <2>1. /\ Shaped(e) /\ e.inuse = 1 /\ e.capi = c.capi
        /\ SameLine(c, e) /\ SameCall(c, e) /\ SameFax(c, e) /\ SameWish(c, e)
    BY NamesHold DEF NamesAreIn, Typed, Shaped, SameCall, SameFax, SameLine, SameWish
  <2> QED
    BY <2>1 DEF Typed, LineTyped, CallTyped, FaxTyped, SameCall, SameFax, SameLine, SameWish
<1>2. g.cs # "Released" => d = g
  BY DEF CheckListen
<1>3. /\ e.cs = c.cs /\ e.msn = c.msn /\ e.cs # "Released"
  BY <1>1 DEF SameLine, SameWish
<1>4. /\ Typed(w) /\ w.inuse = 1 /\ w.capi = c.capi
      /\ SameLine(c, w) /\ SameCall(c, w) /\ SameFax(c, w)
      /\ w.msn = c.msn /\ w.quit = c.quit /\ w.resets = c.resets
      /\ w.flags = c.flags \cup {"WAIT_RELEASE"}
  <2>1. /\ Shaped(w) /\ w.inuse = 1 /\ w.capi = c.capi
        /\ SameLine(e, w) /\ SameCall(e, w) /\ SameFax(e, w)
        /\ w.msn = e.msn /\ w.quit = e.quit /\ w.resets = e.resets
        /\ w.flags = e.flags \cup {"WAIT_RELEASE"}
    BY <1>1, NamesHold DEF NamesAreIn, Typed, Shaped, SameCall, SameFax, SameLine
  <2>2. Typed(w)
    BY <1>1, <2>1 DEF Typed, LineTyped, CallTyped, FaxTyped, SameCall, SameFax, SameLine
  <2> QED
    BY <1>1, <2>1, <2>2 DEF SameCall, SameFax, SameLine, SameWish
<1>5. ASSUME Typed(f)
      PROVE  /\ Typed(g) /\ g.inuse = 0 /\ g.capi = f.capi
             /\ SameLine(f, g) /\ SameCall(f, g) /\ SameFax(f, g) /\ SameWish(f, g)
  <2>1. /\ Shaped(g) /\ g.inuse = 0 /\ g.capi = f.capi
        /\ SameLine(f, g) /\ SameCall(f, g) /\ SameFax(f, g) /\ SameWish(f, g)
    BY <1>5, NamesHold DEF NamesAreIn, Typed, Shaped, SameCall, SameFax, SameLine, SameWish
  <2> QED
    BY <1>5, <2>1 DEF Typed, LineTyped, CallTyped, FaxTyped, SameCall, SameFax, SameLine,
       SameWish
<1>6. CASE c.cs = "Registered" /\ ~c.msn
  <2>1. f = Release(w)
    BY <1>3, <1>6 DEF ListenTurn
  <2> HIDE DEF e, f, g, w
  <2>2. w.cs = "Registered"
    BY <1>4, <1>6 DEF SameLine
  <2>3. /\ Typed(f) /\ f.capi = w.capi
        /\ GivesUp(w, f) /\ SameCall(w, f) /\ SameWish(w, f) /\ SameFax(w, f)
    BY <1>4, <2>1, <2>2, ReleaseIs
  <2>4. /\ Typed(g) /\ g.inuse = 0 /\ g.capi = f.capi
        /\ SameLine(f, g) /\ SameCall(f, g) /\ SameFax(f, g) /\ SameWish(f, g)
    BY <1>5, <2>3
  <2>5. d = g
    BY <1>2, <2>3, <2>4 DEF SameLine, GivesUp
  <2>6. GivesUp(c, d)
    BY <1>4, <2>3, <2>4, <2>5 DEF SameLine, GivesUp
  <2> QED
    BY <1>4, <1>6, <2>3, <2>4, <2>5, <2>6 DEF SameCall, SameFax, SameWish
<1>7. CASE c.cs # "Registering" /\ c.msn
  <2> DEFINE m == Msg("LISTEN_REQ", 0)
  <2>1. f = Put(e, m)
    BY <1>3, <1>7 DEF ListenTurn
  <2>2. m \in Messages(Requests)
    BY DEF Msg, Messages, Requests
  <2> HIDE DEF e, f, g, w, m
  <2>3. Typed(f) /\ Same(e, f) /\ SameState(e, f) /\ Puts(e, f, m)
    BY <1>1, <2>1, <2>2, PutIs
  <2>4. /\ Typed(g) /\ g.inuse = 0 /\ g.capi = f.capi
        /\ SameLine(f, g) /\ SameCall(f, g) /\ SameFax(f, g) /\ SameWish(f, g)
    BY <1>5, <2>3
  <2>5. d = g
    BY <1>2, <1>3, <2>3, <2>4 DEF SameLine, SameState
  <2>6. SameState(c, d) /\ Puts(c, d, m)
    BY <1>1, <2>3, <2>4, <2>5 DEF SameLine, SameState, Puts
  <2>7. Same(c, d)
    BY <1>1, <2>3, <2>4, <2>5 DEF SameCall, SameFax, SameWish, Same
  <2> QED
    BY <1>7, <2>4, <2>5, <2>6, <2>7 DEF m
<1>8. CASE c.cs = "Registering" \/ (c.cs # "Registered" /\ ~c.msn)
  <2>1. f = e
    BY <1>3, <1>8 DEF ListenTurn
  <2> HIDE DEF e, f, g, w
  <2>2. /\ Typed(g) /\ g.inuse = 0 /\ g.capi = f.capi
        /\ SameLine(f, g) /\ SameCall(f, g) /\ SameFax(f, g) /\ SameWish(f, g)
    BY <1>1, <1>5, <2>1
  <2>3. d = g
    BY <1>2, <1>3, <2>1, <2>2 DEF SameLine
  <2>4. SameLine(c, d)
    BY <1>1, <2>1, <2>2, <2>3 DEF SameLine
  <2>5. Same(c, d)
    BY <1>1, <2>1, <2>2, <2>3 DEF SameCall, SameFax, SameWish, Same
  <2> QED
    BY <1>8, <2>2, <2>3, <2>4, <2>5
<1> QED
  BY <1>6, <1>7, <1>8

(* DisconnectInd of an active call, up to the call of CheckListen.         *)
Ended(c, d) ==
  /\ Typed(d) /\ d.inuse = 0 /\ d.capi = c.capi /\ Over(c, d) /\ d.ddi = FALSE
  /\ d.phase = (IF c.ddi THEN c.phase ELSE IF c.phase = "idle" THEN "error" ELSE "idle")
  /\ d.fin = (IF c.ddi THEN c.fin ELSE TRUE)

(* What DisconnectInd does to the call that ends, before CheckListen.      *)
LEMMA OverIs ==
  ASSUME NEW c, Typed(c), c.inuse = 0,
         NEW e, e = ResetSendBlock([c EXCEPT !.active = FALSE, !.ddi = FALSE]),
         NEW f, f = IF c.ddi THEN e ELSE CallEnds(e)
  PROVE  Ended(c, f) /\ SameLine(c, f) /\ SameWish(c, f)
<1>1. /\ Shaped(e) /\ e.inuse = 0 /\ e.capi = c.capi /\ Over(c, e) /\ e.ddi = FALSE
      /\ e.phase = c.phase /\ e.fin = c.fin /\ SameLine(c, e) /\ SameWish(c, e)
  BY NamesHold DEF NamesAreIn, Typed, Shaped, ResetSendBlock, Over, SameLine, SameWish
<1>2. /\ Shaped(f) /\ f.inuse = 0 /\ f.capi = c.capi /\ Over(c, f) /\ f.ddi = FALSE
      /\ f.phase = (IF c.ddi THEN c.phase ELSE IF c.phase = "idle" THEN "error" ELSE "idle")
      /\ f.fin = (IF c.ddi THEN c.fin ELSE TRUE) /\ SameLine(c, f) /\ SameWish(c, f)
  <2>1. CASE c.ddi
    BY <1>1, <2>1
  <2>2. CASE ~c.ddi
    <3>1. f = CallEnds(e)
      BY <2>2
    <3>2. /\ Shaped(f) /\ f.inuse = e.inuse /\ f.capi = e.capi /\ f.ddi = e.ddi
          /\ f.active = e.active /\ f.begun = e.begun /\ f.block = e.block
          /\ f.deleted = e.deleted /\ f.next = e.next /\ f.sending = e.sending
          /\ f.phase = (IF e.phase = "idle" THEN "error" ELSE "idle") /\ f.fin = TRUE
      BY <3>1, <1>1, NamesHold DEF NamesAreIn, Shaped, CallEnds
    <3>7. SameLine(e, f) /\ SameWish(e, f)
      BY <3>1, <1>1, NamesHold DEF NamesAreIn, Shaped, CallEnds, SameLine, SameWish
    <3>3. Over(c, f)
      BY <1>1, <3>2 DEF Over
    <3>4. SameLine(c, f) /\ SameWish(c, f)
      BY <1>1, <3>7 DEF SameLine, SameWish
    <3>5. f.phase = IF c.phase = "idle" THEN "error" ELSE "idle"
      BY <1>1, <3>2
    <3> QED
      BY <2>2, <1>1, <3>2, <3>3, <3>4, <3>5
  <2> QED
    BY <2>1, <2>2
<1>3. f.block \in [Handles -> Frames \cup {0}]
  BY <1>2 DEF Over
<1>4. f.deleted \in [Frames -> Nat]
  <2>1. ASSUME NEW i \in Frames
        PROVE  c.deleted[i] + (IF \E h \in Handles : c.block[h] = i THEN 1 ELSE 0) \in Nat
    BY DEF Typed, FaxTyped
  <2> QED
    BY <1>2, <2>1 DEF Over
<1>5. Typed(f)
  <2>1. LineTyped(f)
    BY <1>2 DEF Typed, LineTyped, SameLine
  <2>2. CallTyped(f)
    BY <1>2 DEF Typed, CallTyped, SameWish, Over
  <2>3. FaxTyped(f)
    BY <1>2, <1>3, <1>4 DEF Typed, FaxTyped, Over
  <2> QED
    BY <1>2, <2>1, <2>2, <2>3 DEF Typed
<1> QED
  BY <1>2, <1>5 DEF Ended

(* The end of a call in faxsend: the channel is to be reset.               *)
LEMMA SendCallEnds ==
  ASSUME NEW c, Typed(c), c.inuse = 0, App = "send", c.active, ~c.ddi, ~c.msn,
         "RESET" \notin c.flags, c.cs \in {"Released", "Registered", "Releasing"},
         NEW d, d = DisconnectInd(c)
  PROVE  /\ Ended(c, d) /\ d.quit = c.quit /\ ~d.msn
         /\ c.cs = "Released" /\ c.flags = {} =>
              SameLine(c, d) /\ d.flags = {} /\ d.resets = c.resets + 1
         /\ ~(c.cs = "Released" /\ c.flags = {}) =>
              /\ "RESET" \in d.flags /\ d.resets = c.resets
              /\ c.cs = "Registered" => GivesUp(c, d)
              /\ c.cs # "Registered" => SameLine(c, d)
<1> DEFINE e == ResetSendBlock([c EXCEPT !.active = FALSE, !.ddi = FALSE])
           f == CallEnds(e)
           g == ResetIdle(f)
<1>1. d = CheckListen(g)
  BY DEF DisconnectInd, IsDisconnected
<1>2. Ended(c, f) /\ SameLine(c, f) /\ SameWish(c, f)
  BY OverIs
<1> HIDE DEF e, f
<1>3. Typed(f) /\ f.inuse = 0 /\ f.cs = c.cs /\ f.flags = c.flags
  BY <1>2 DEF Ended, SameLine, SameWish
<1>4. CASE c.cs = "Released" /\ c.flags = {}
  <2>1. /\ Typed(g) /\ g.inuse = f.inuse /\ g.capi = f.capi
        /\ SameCall(f, g) /\ SameFax(f, g) /\ g.quit = f.quit
        /\ SameLine(f, g) /\ g.msn = f.msn /\ g.flags = {}
        /\ g.resets = f.resets + 1
    BY <1>3, <1>4, ResetIdlePosts
  <2> HIDE DEF g
  <2>2. g.inuse = 0 /\ "RESET" \notin g.flags /\ g.cs = "Released" /\ ~g.active /\ ~g.msn
    BY <1>2, <1>3, <1>4, <2>1 DEF Ended, Over, SameLine, SameCall, SameWish
  <2>3. /\ Typed(d) /\ d.inuse = 0 /\ d.capi = g.capi /\ SameCall(g, d) /\ SameFax(g, d)
        /\ SameLine(g, d) /\ d.msn = g.msn /\ d.quit = g.quit
        /\ d.flags = {} /\ d.resets = g.resets
    BY <1>1, <2>1, <2>2, CheckListenReleased
  <2>4. Ended(c, d)
    BY <1>2, <2>1, <2>3 DEF Ended, Over, SameCall, SameFax
  <2> QED
    BY <1>2, <1>4, <2>1, <2>3, <2>4 DEF SameLine, SameWish
<1>5. CASE ~(c.cs = "Released" /\ c.flags = {})
  <2>1. /\ Typed(g) /\ g.inuse = f.inuse /\ g.capi = f.capi
        /\ SameCall(f, g) /\ SameFax(f, g) /\ g.quit = f.quit
        /\ g.msn = FALSE /\ g.resets = f.resets /\ "RESET" \in g.flags
        /\ f.cs # "Registered" => SameLine(f, g)
        /\ f.cs = "Registered" => GivesUp(f, g)
    BY <1>3, <1>5, ResetIdleWaits
  <2> HIDE DEF g
  <2>2. g.cs # "Registered"
    BY <1>3, <2>1 DEF SameLine, GivesUp
  <2>3. d = g
    BY <1>1, <2>1, <2>2, CheckListenUnderReset, CheckListenResetIs
  <2>4. Ended(c, d)
    BY <1>2, <2>1, <2>3 DEF Ended, Over, SameCall, SameFax
  <2> QED
    BY <1>2, <1>3, <1>5, <2>1, <2>3, <2>4 DEF SameLine, SameWish, GivesUp
<1> QED
  BY <1>4, <1>5

(* The end of a call in faxrecv: the channel listens again, unless it is   *)
(* to be reset or nobody wants it to listen.                               *)
LEMMA RecvCallEnds ==
  ASSUME NEW c, Typed(c), c.inuse = 0, App = "recv", c.active,
         c.cs \in {"Released", "Registered"},
         NEW d, d = DisconnectInd(c)
  PROVE  /\ Ended(c, d)
         /\ "RESET" \in c.flags =>
              /\ d.msn = c.msn /\ d.quit = c.quit /\ d.resets = c.resets
              /\ "RESET" \in d.flags
              /\ c.cs = "Registered" => GivesUp(c, d)
              /\ c.cs = "Released" => SameLine(c, d)
         /\ "RESET" \notin c.flags /\ c.cs = "Released" /\ ~c.msn =>
              /\ SameLine(c, d) /\ d.msn = c.msn /\ d.quit = c.quit
              /\ d.flags = {} /\ d.resets = c.resets
         /\ "RESET" \notin c.flags /\ c.cs = "Released" /\ c.msn =>
              ListenBegins(c, d) \/ ListenFails(c, d)
         /\ "RESET" \notin c.flags /\ c.cs = "Registered" /\ ~c.msn =>
              /\ GivesUp(c, d) /\ d.msn = c.msn /\ d.quit = c.quit
              /\ d.resets = c.resets /\ "RESET" \notin d.flags
         /\ "RESET" \notin c.flags /\ c.cs = "Registered" /\ c.msn =>
              SameState(c, d) /\ Puts(c, d, Msg("LISTEN_REQ", 0)) /\ SameWish(c, d)
<1> DEFINE e == ResetSendBlock([c EXCEPT !.active = FALSE, !.ddi = FALSE])
           f == IF c.ddi THEN e ELSE CallEnds(e)
<1>1. d = CheckListen(f)
  BY DEF DisconnectInd, IsDisconnected
<1>2. Ended(c, f) /\ SameLine(c, f) /\ SameWish(c, f)
  BY OverIs
<1> HIDE DEF e, f
<1>3. Typed(f) /\ f.inuse = 0 /\ f.cs = c.cs /\ f.flags = c.flags /\ f.msn = c.msn /\ ~f.active
  BY <1>2 DEF Ended, SameLine, SameWish, Over
<1>4. ASSUME Typed(d), d.inuse = 0, d.capi = f.capi, SameCall(f, d), SameFax(f, d)
      PROVE  Ended(c, d)
  BY <1>2, <1>4 DEF Ended, Over, SameCall, SameFax
<1>5. CASE "RESET" \in c.flags
  <2>1. d = CheckListenReset(f)
    BY <1>1, <1>3, <1>5, CheckListenUnderReset
  <2>2. CASE c.cs = "Registered"
    <3>1. /\ Typed(d) /\ d.inuse = f.inuse /\ d.capi = f.capi
          /\ GivesUp(f, d) /\ SameCall(f, d) /\ SameFax(f, d)
          /\ d.msn = f.msn /\ d.quit = f.quit /\ d.resets = f.resets
          /\ d.flags = f.flags \cup {"WAIT_RELEASE"}
      BY <1>3, <2>1, <2>2, CheckListenResetIs
    <3>2. Ended(c, d)
      BY <1>3, <1>4, <3>1
    <3> QED
      BY <1>2, <1>3, <1>5, <2>2, <3>1, <3>2 DEF SameLine, SameWish, GivesUp
  <2>3. CASE c.cs = "Released"
    <3>1. d = f
      BY <1>3, <2>1, <2>3, CheckListenResetIs
    <3> QED
      BY <1>2, <1>5, <2>3, <3>1 DEF SameWish
  <2> QED
    BY <2>2, <2>3
<1>6. CASE "RESET" \notin c.flags /\ c.cs = "Released"
  <2>1. /\ Typed(d) /\ d.inuse = 0 /\ d.capi = f.capi /\ SameCall(f, d) /\ SameFax(f, d)
        /\ ~f.msn => /\ SameLine(f, d) /\ d.msn = f.msn /\ d.quit = f.quit
                     /\ d.flags = {} /\ d.resets = f.resets
        /\ f.msn => (f.capi /\ ListenBegins(f, d)) \/ (~f.capi /\ ListenFails(f, d))
    BY <1>1, <1>3, <1>6, CheckListenReleased
  <2>2. Ended(c, d)
    BY <1>4, <2>1
  <2>3. ListenBegins(f, d) => ListenBegins(c, d)
    BY <1>2 DEF ListenBegins, TakesUp, SameLine, SameWish
  <2>4. ListenFails(f, d) => ListenFails(c, d)
    BY <1>2 DEF ListenFails, SameLine, SameWish
  <2>5. SameLine(f, d) => SameLine(c, d)
    BY <1>2 DEF SameLine
  <2> QED
    BY <1>2, <1>3, <1>6, <2>1, <2>2, <2>3, <2>4, <2>5 DEF SameWish
<1>7. CASE "RESET" \notin c.flags /\ c.cs = "Registered" /\ ~c.msn
  <2>1. /\ Typed(d) /\ d.inuse = 0 /\ d.capi = f.capi
        /\ GivesUp(f, d) /\ SameCall(f, d) /\ SameFax(f, d)
        /\ d.msn = f.msn /\ d.quit = f.quit /\ d.resets = f.resets
        /\ d.flags = f.flags \cup {"WAIT_RELEASE"}
    BY <1>1, <1>3, <1>7, CheckListenTurns
  <2>2. Ended(c, d)
    BY <1>4, <2>1
  <2>3. GivesUp(c, d)
    BY <1>2, <2>1 DEF GivesUp, SameLine
  <2> QED
    BY <1>2, <1>7, <2>1, <2>2, <2>3 DEF SameWish
<1>8. CASE "RESET" \notin c.flags /\ c.cs = "Registered" /\ c.msn
  <2>1. /\ Typed(d) /\ Same(f, d) /\ SameState(f, d)
        /\ Puts(f, d, Msg("LISTEN_REQ", 0))
    BY <1>1, <1>3, <1>8, CheckListenTurns
  <2>2. Ended(c, d)
    BY <1>3, <1>4, <2>1 DEF Same
  <2>3. SameState(c, d) /\ Puts(c, d, Msg("LISTEN_REQ", 0))
    BY <1>2, <2>1 DEF SameState, Puts, SameLine
  <2> QED
    BY <1>2, <1>8, <2>1, <2>2, <2>3 DEF SameWish, Same
<1> QED
  BY <1>5, <1>6, <1>7, <1>8

-----------------------------------------------------------------------------
(* The invariant of the channel, handler by handler                        *)

(* The driver neither stays silent after a hang-up nor refuses one.        *)
Prompt == ~DisconnectTimeout /\ ~StrictDriver

NoDial(q) == \A i \in DOMAIN q : q[i].m # "CONNECT_REQ"

(* The CAPI thread is where the state says, and the id is valid until the  *)
(* thread is told to stop.                                                 *)
ThreadFits(c) ==
  /\ c.cs = "Released" <=> c.thr = "none"
  /\ c.cs = "Registering" => c.thr = "starting"
  /\ c.cs = "Releasing" => c.thr \in {"starting", "late", "exit"}
  /\ c.cs \in CallStates \cup {"Registered"} => c.thr \in {"run", "late", "exit"}
  /\ c.appl <=> c.thr \in {"starting", "run"}

(* The identifiers and the timer fit the state.                            *)
IdsFit(c) ==
  /\ c.cs \in IdleStates \cup {"D_ConnectRequest"} <=> c.plci = 0
  /\ c.ncci # 0 => c.ncci = c.plci
  /\ c.cs \in {"B_ConnectPending", "Connected", "B_DisconnectPending"} => c.ncci # 0
  /\ c.ncci # 0 => c.cs \in {"B_ConnectPending", "Connected", "B_DisconnectPending",
                             "D_DisconnectPending"}
  /\ c.init => c.cs \in {"D_ConnectRequest", "D_ConnectPending", "D_DisconnectPending"}
  /\ c.timer # "none" => c.cs \in CallStates \ {"D_ConnectRequest", "D_ConnectIndication"}
  /\ c.timer = "ringing" => c.cs = "D_ConnectPending"
  /\ c.timer = "disconnect" => c.cs = "D_DisconnectPending"
  /\ c.cs = "D_DisconnectPending" => c.timer \in {"none", "disconnect"}

(* What is asked of the driver names its connection, and a call is dialled *)
(* once.                                                                   *)
AskFits(c) ==
  /\ \A i \in DOMAIN c.down :
       /\ c.down[i].id = 0 => c.down[i].m \in {"LISTEN_REQ", "CONNECT_REQ"}
       /\ c.down[i].m = "LISTEN_REQ" => App = "recv"
       /\ c.down[i].m = "CONNECT_REQ" => c.cs = "D_ConnectRequest"
       /\ c.down[i].m = "DATA_B3_REQ" => c.down[i].h \in Handles
  /\ \A i, j \in DOMAIN c.down :
       c.down[i].m = "CONNECT_REQ" /\ c.down[j].m = "CONNECT_REQ" => i = j

(* Which of its members each application uses, and what a reset excludes.  *)
CallFits(c) ==
  /\ App = "send" =>
       /\ ~c.msn /\ ~c.ddi /\ ~c.quit /\ c.cs # "D_ConnectIndication"
       /\ c.cs \in CallStates \cup {"Registering"} => c.active
       /\ c.active => c.cs # "Registered"
  /\ App = "recv" => ~c.init /\ c.cs # "D_ConnectRequest"
  /\ "RESET" \in c.flags =>
       /\ ~c.msn
       /\ c.cs = "Registered" => App = "recv" /\ ~c.active
       /\ c.cs \in CallStates => c.cs = "D_DisconnectPending"
       /\ App = "send" => ~c.active
  /\ c.active /\ ~c.ddi <=> c.phase # "idle"

FaxFits(c) ==
  /\ c.sending => App = "send" /\ c.thr \in {"run", "late"} /\ c.cs # "D_ConnectRequest"
  /\ ~c.fin => c.next \in Frames
  /\ App = "recv" => \A h \in Handles : c.block[h] = 0

Fits(c) ==
  /\ Typed(c) /\ c.inuse = 0
  /\ ThreadFits(c) /\ IdsFit(c) /\ AskFits(c) /\ CallFits(c) /\ FaxFits(c)

(* The send block and the deletions account for every frame read.          *)
BlockFits(c) ==
  /\ ~c.active => \A h \in Handles : c.block[h] = 0
  /\ \A h, k \in Handles : c.block[h] # 0 /\ c.block[h] = c.block[k] => h = k
  /\ \A h \in Handles : c.block[h] < c.next
  /\ \A f \in Frames :
       c.deleted[f] = IF f < c.next /\ \A h \in Handles : c.block[h] # f THEN 1 ELSE 0

(* The call belongs to the state.                                          *)
OwnerFits(c) ==
  /\ c.active /\ c.cs \notin CallStates =>
       App = "send" /\ \A h \in Handles : c.block[h] = 0
  /\ c.cs \in CallStates =>
       c.active \/ (OtherClaims /\ App = "recv" /\ c.cs = "D_DisconnectPending")
  /\ c.ddi => c.active /\ c.cs \in {"D_ConnectIndication", "D_DisconnectPending"}
  /\ c.phase = "unseen" => c.cs \in {"D_ConnectIndication", "D_DisconnectPending"}
  /\ c.cs = "D_ConnectIndication" => c.ddi \/ c.phase = "unseen"
  /\ c.ncci # 0 => c.active /\ ~c.ddi /\ c.phase # "unseen"

Owned(c) == BlockFits(c) /\ OwnerFits(c)

(* A Send on its way is an active call or a reset; one that has returned   *)
(* is neither.                                                             *)
Busy(c) == c.resets = 0 /\ (c.active <=> "RESET" \notin c.flags)
Idle(c) == ~c.active /\ c.cs \in {"Released", "Releasing"} /\ c.flags = {}
Done(c) == c.resets = 1 /\ Idle(c)

Answers(c, d) ==
  IF App = "send"
  THEN /\ Busy(c) => Busy(d) \/ Done(d)
       /\ Idle(c) => Idle(d) /\ d.resets = c.resets
  ELSE d.resets \in {c.resets, c.resets + 1}

Sticks(c, d) ==
  "RESET" \in c.flags =>
    d.begun = c.begun /\ ("RESET" \in d.flags \/ d.resets = c.resets + 1)

KeepsDial(c, d) ==
  c.cs = "D_ConnectRequest" =>
    d.cs = "D_ConnectRequest" /\ (NoDial(c.down) => NoDial(d.down))

(* The states in which a connection is set up, and those it may be in when *)
(* the application has been told of it.                                    *)
Opening == {"D_ConnectPending", "D_Connected", "B_ConnectPending"}
Joined == {"Connected", "B_DisconnectPending", "D_DisconnectPending"}

IsData(msg) == msg.m \in {"DATA_B3_REQ", "DATA_B3_CONF"}

(* Requests are only added to p, and none of them is a data block.         *)
Calm(p, q) ==
  /\ DOMAIN p \subseteq DOMAIN q
  /\ \A i \in DOMAIN p : q[i] = p[i]
  /\ \A i \in DOMAIN q \ DOMAIN p : ~IsData(q[i]) /\ \A j \in DOMAIN p : j < i

(* The call goes on or ends, and so does the sending of its fax: the state *)
(* stays, or comes nearer to the end of the call, or is idle again.        *)
StateOnward(c, d) ==
  \/ d.cs \in IdleStates /\ (d.sending => d.cs \in {"Releasing", c.cs})
  \/ /\ d.block = c.block
     /\ \/ d.cs = c.cs /\ d.timer \in {c.timer, "none"}
        \/ d.cs = "D_DisconnectPending"
        \/ /\ d.cs = "B_DisconnectPending" /\ c.cs \in {"Connected", "B_ConnectPending"}
           /\ d.timer \in {c.timer, "none"}
           /\ c.cs = "Connected" \/ d.timer = "none" \/ c.sending

LineOnward(c, d) ==
  /\ StateOnward(c, d) /\ Calm(c.down, d.down)
  /\ d.ncci \in {0, c.ncci} /\ (d.sending => c.sending)
  /\ d.thr = "late" => d.cs = "Releasing" \/ (c.thr = "late" /\ c.cs # "Releasing")

(* A call that the application was told of ends when its state does, with  *)
(* a prompt driver.                                                        *)
CallOnward(c, d) ==
  /\ d.begun = c.begun /\ d.phase \in {c.phase, "idle"}
  /\ Prompt /\ d.phase # "idle" => d.cs \in Joined \/ c.cs \notin Joined

Onward(c, d) == LineOnward(c, d) /\ CallOnward(c, d)

(* A call begins, or its connection comes one step nearer.                 *)
Opens(c, d) ==
  /\ d.cs \in Opening \cup {"D_ConnectRequest", "D_ConnectIndication"}
  /\ c.cs \notin Joined \cup {"Releasing"}
  /\ c.cs \in Opening \cup {"D_ConnectRequest"} \/ d.cs = "D_ConnectRequest" \/ App = "recv"
  /\ Calm(c.down, d.down) /\ d.block = c.block
  /\ d.sending = c.sending /\ (d.thr = "late" => c.thr = "late")
  /\ \/ d.phase = c.phase /\ d.begun = c.begun
     \/ c.phase = "idle" /\ d.phase = "unseen" /\ d.begun = c.begun
     \/ c.phase \in {"idle", "unseen"} /\ d.phase = "setup" /\ d.begun = c.begun + 1

Moves(c, d) == Onward(c, d) \/ Opens(c, d)

(* The call is connected, and perhaps hung up at once.                     *)
Joins(c, d) ==
  /\ c.cs = "B_ConnectPending" /\ d.cs \in {"Connected", "D_DisconnectPending"}
  /\ d.cs = "Connected" => d.timer = "none"
  /\ Calm(c.down, d.down) /\ d.block = c.block /\ d.ncci = c.ncci
  /\ d.thr = c.thr /\ d.begun = c.begun
  /\ d.phase = IF c.phase = "setup" THEN "connected" ELSE "error"

(* A frame is confirmed, and its handle free.                               *)
Confirms(c, d, h) ==
  /\ SameLine(c, d) /\ SameCall(c, d) /\ c.ncci # 0
  /\ c.block[h] # 0 /\ d.block = [c.block EXCEPT ![h] = 0]

(* The connection of the call is closed, from either side.                 *)
Closes(c, d) ==
  /\ c.ncci # 0 /\ d.cs = "D_DisconnectPending" /\ d.ncci \in {0, c.ncci}
  /\ Calm(c.down, d.down) /\ \A h \in Handles : d.block[h] = 0
  /\ d.sending = c.sending /\ d.thr = c.thr /\ d.begun = c.begun
  /\ d.phase = IF c.phase \in {"setup", "connected"} THEN "closing" ELSE "error"

(* A frame is put to CAPI under handle h.                                  *)
Frame(c, h) == [m |-> "DATA_B3_REQ", id |-> c.ncci, ok |-> TRUE, h |-> h]

PutsFrame(c, d, h) ==
  /\ c.cs = "Connected" /\ SameState(c, d) /\ SameCall(c, d) /\ d.sending = c.sending
  /\ c.block[h] = 0 /\ d.block = [c.block EXCEPT ![h] = c.next] /\ c.next # 0
  /\ Puts(c, d, Frame(c, h))

(* The registration ends or begins, and perhaps the call of the            *)
(* application.                                                            *)
Rests(c, d) ==
  /\ d.cs \in IdleStates /\ d.down \in {c.down, <<>>}
  /\ d.sending => c.sending /\ d.cs = c.cs
  /\ d.thr = "late" => c.thr = "late" /\ d.cs = c.cs
  /\ \/ d.phase \in {c.phase, "idle"} /\ d.begun = c.begun
     \/ c.phase = "idle" /\ d.phase \in {"idle", "setup"} /\ d.begun = c.begun + 1

(* What every handler does to the channel but those that set up a call.    *)
Turn(c, d) ==
  /\ Fits(d) /\ Answers(c, d) /\ Sticks(c, d)
  /\ d.cs = "Released" => c.cs = "Released"
  /\ Prompt /\ Owned(c) => Owned(d)

(* The messages that any handler may put.                                  *)
Plain(msg) ==
  /\ msg \in Messages(Requests) /\ msg.m # "CONNECT_REQ"
  /\ msg.id = 0 => msg.m = "LISTEN_REQ"
  /\ msg.m = "LISTEN_REQ" => App = "recv"
  /\ msg.m = "DATA_B3_REQ" => msg.h \in Handles

(* A message put to CAPI that fits the state leaves the requests fitting.  *)
LEMMA AskPut ==
  ASSUME NEW c, NEW d, Typed(c), AskFits(c),
         c.cs = "D_ConnectRequest" => d.cs = c.cs \/ NoDial(c.down),
         \/ d.down = c.down
         \/ \E msg : Plain(msg) /\ d.down = Append(c.down, msg)
  PROVE  AskFits(d) /\ (NoDial(c.down) => NoDial(d.down))
<1>1. c.down \in Seq(Messages(Requests))
  BY DEF Typed, LineTyped
<1>2. CASE d.down = c.down
  BY <1>2 DEF AskFits, NoDial
<1>3. ASSUME NEW msg, Plain(msg), d.down = Append(c.down, msg)
      PROVE  AskFits(d) /\ (NoDial(c.down) => NoDial(d.down))
  <2>1. msg \in Messages(Requests)
    BY <1>3 DEF Plain
  <2>2. /\ Len(d.down) = Len(c.down) + 1 /\ d.down \in Seq(Messages(Requests))
        /\ d.down[Len(c.down) + 1] = msg
        /\ \A i \in 1 .. Len(c.down) : d.down[i] = c.down[i]
    BY <1>1, <1>3, <2>1, AppendProperties
  <2>3. DOMAIN d.down = 1 .. Len(c.down) + 1 /\ DOMAIN c.down = 1 .. Len(c.down)
    BY <1>1, <2>2
  <2>4. \A i \in DOMAIN d.down : i \in DOMAIN c.down \/ d.down[i] = msg
    BY <1>1, <2>2, <2>3
  <2>5. \A i \in DOMAIN d.down : i \in DOMAIN c.down => d.down[i] = c.down[i]
    BY <2>2, <2>3
  <2>6. msg.m # "CONNECT_REQ" /\ (msg.id = 0 => msg.m = "LISTEN_REQ")
        /\ (msg.m = "LISTEN_REQ" => App = "recv")
        /\ (msg.m = "DATA_B3_REQ" => msg.h \in Handles)
    BY <1>3 DEF Plain
  <2>7. ASSUME NEW i \in DOMAIN d.down
        PROVE  /\ d.down[i].id = 0 => d.down[i].m \in {"LISTEN_REQ", "CONNECT_REQ"}
               /\ d.down[i].m = "LISTEN_REQ" => App = "recv"
               /\ d.down[i].m = "DATA_B3_REQ" => d.down[i].h \in Handles
               /\ d.down[i].m = "CONNECT_REQ" => i \in DOMAIN c.down /\ d.cs = "D_ConnectRequest"
    BY <2>4, <2>5, <2>6 DEF AskFits, NoDial
  <2>8. ASSUME NEW i \in DOMAIN d.down, NEW j \in DOMAIN d.down,
               d.down[i].m = "CONNECT_REQ", d.down[j].m = "CONNECT_REQ"
        PROVE  i = j
    BY <2>5, <2>7, <2>8 DEF AskFits
  <2>9. AskFits(d)
    BY <2>7, <2>8 DEF AskFits
  <2> QED
    BY <2>5, <2>7, <2>9 DEF NoDial
<1> QED
  BY <1>2, <1>3

(* Calm is what puts that are not of data make of the requests.            *)
LEMMA CalmPut ==
  ASSUME NEW c, Typed(c), NEW msg, Plain(msg), ~IsData(msg), NEW d,
         d.down = c.down \/ d.down = Append(c.down, msg)
  PROVE  Calm(c.down, d.down)
<1>1. c.down \in Seq(Messages(Requests)) /\ msg \in Messages(Requests)
  BY DEF Typed, LineTyped, Plain
<1>2. CASE d.down = c.down
  BY <1>2 DEF Calm
<1>3. CASE d.down = Append(c.down, msg)
  <2>1. /\ Len(d.down) = Len(c.down) + 1 /\ d.down \in Seq(Messages(Requests))
        /\ d.down[Len(c.down) + 1] = msg /\ Len(c.down) \in Nat
        /\ \A i \in 1 .. Len(c.down) : d.down[i] = c.down[i]
    BY <1>1, <1>3, AppendProperties
  <2>2. DOMAIN d.down = 1 .. Len(c.down) + 1 /\ DOMAIN c.down = 1 .. Len(c.down)
    BY <1>1, <2>1
  <2> QED
    BY <2>1, <2>2 DEF Calm
<1> QED
  BY <1>2, <1>3

LEMMA CalmSame ==
  ASSUME NEW p
  PROVE  Calm(p, p)
BY DEF Calm

(* The requests between two steps are added in order.                      *)
LEMMA CalmJoins ==
  ASSUME NEW c, Typed(c), NEW e, Typed(e), NEW d, Typed(d),
         Calm(c.down, e.down), Calm(e.down, d.down)
  PROVE  Calm(c.down, d.down)
<1>1. c.down \in Seq(Messages(Requests)) /\ e.down \in Seq(Messages(Requests))
      /\ d.down \in Seq(Messages(Requests))
  BY DEF Typed, LineTyped
<1>2. \A i \in DOMAIN d.down \ DOMAIN e.down, j \in DOMAIN c.down : j < i
  BY DEF Calm
<1> QED
  BY <1>2 DEF Calm

(* A step that leaves the state of the channel, or ends nothing but it.    *)
LEMMA StaysOnward ==
  ASSUME NEW c, Typed(c), NEW d, Same(c, d), SameState(c, d), Calm(c.down, d.down)
  PROVE  Onward(c, d)
BY DEF Onward, LineOnward, StateOnward, CallOnward, Same, SameState, SameCall, SameFax

LEMMA NothingOnward ==
  ASSUME NEW c
  PROVE  Onward(c, c)
BY CalmSame DEF Onward, LineOnward, StateOnward, CallOnward

(* The line as it was fits as it did.                                      *)
LEMMA SameLineFits ==
  ASSUME NEW c, NEW d, SameLine(c, d)
  PROVE  /\ ThreadFits(c) => ThreadFits(d)
         /\ IdsFit(c) => IdsFit(d)
         /\ AskFits(c) => AskFits(d)
<1>1. ThreadFits(c) => ThreadFits(d)
  BY DEF ThreadFits, SameLine
<1>2. IdsFit(c) => IdsFit(d)
  BY DEF IdsFit, SameLine
<1>3. d.down = c.down /\ d.cs = c.cs
  BY DEF SameLine
<1>4. AskFits(c) => AskFits(d)
  BY <1>3 DEF AskFits
<1> QED
  BY <1>1, <1>2, <1>4

(* The messages that fit every state: they name their connection.          *)
LEMMA PlainMessages ==
  ASSUME NEW p \in Plcis \cup {0}
  PROVE  /\ \A m \in {"CONNECT_RESP", "CONNECT_B3_REQ", "CONNECT_B3_RESP",
                      "DISCONNECT_B3_REQ", "DISCONNECT_REQ", "DISCONNECT_RESP"} :
              /\ p # 0 => Plain(Msg(m, p)) /\ Plain(No(m, p))
              /\ ~IsData(Msg(m, p)) /\ ~IsData(No(m, p))
         /\ App = "recv" => Plain(Msg("LISTEN_REQ", 0)) /\ ~IsData(Msg("LISTEN_REQ", 0))
         /\ \A h \in Handles :
              p # 0 => Plain([m |-> "DATA_B3_REQ", id |-> p, ok |-> TRUE, h |-> h])
BY DEF Plain, Msg, No, Messages, Requests, IsData

(* A step that moves the line alone.                                       *)
LEMMA LineTurn ==
  ASSUME NEW c, NEW d, Fits(c), Typed(d), Same(c, d),
         ThreadFits(d), IdsFit(d), AskFits(d),
         App = "send" => /\ d.cs # "D_ConnectIndication"
                         /\ d.cs \in CallStates \cup {"Registering"} => c.active
                         /\ c.active => d.cs # "Registered",
         d.cs = "Released" => c.cs = "Released",
         App = "recv" => d.init = FALSE /\ d.cs # "D_ConnectRequest",
         "RESET" \in c.flags =>
           /\ d.cs = "Registered" => App = "recv" /\ ~c.active
           /\ d.cs \in CallStates => d.cs = "D_DisconnectPending",
         c.sending => d.thr \in {"run", "late"} /\ d.cs # "D_ConnectRequest",
         Idle(c) => d.cs \in {"Released", "Releasing"},
         Prompt /\ Owned(c) => OwnerFits(d)
  PROVE  Turn(c, d)
<1>1. CallFits(d) /\ FaxFits(d) /\ d.inuse = 0
  BY DEF Fits, CallFits, FaxFits, Same, SameCall, SameWish, SameFax
<1>2. Answers(c, d) /\ Sticks(c, d)
  BY DEF Answers, Sticks, Busy, Done, Idle, Same, SameCall, SameWish
<1>3. Owned(c) => BlockFits(d)
  BY DEF Owned, BlockFits, Same, SameCall, SameFax
<1> QED
  BY <1>1, <1>2, <1>3 DEF Turn, Fits, Owned

(* A step that only puts messages, or tells the thread to stop.            *)
LEMMA SameTurn ==
  ASSUME NEW c, NEW d, Fits(c), Typed(d), Same(c, d),
         d.cs = c.cs, d.plci = c.plci, d.ncci = c.ncci, d.init = c.init, d.timer = c.timer,
         ThreadFits(d), AskFits(d), NoDial(c.down) => NoDial(d.down),
         c.sending => d.thr \in {"run", "late"}
  PROVE  Turn(c, d) /\ KeepsDial(c, d)
<1>1. IdsFit(d)
  BY DEF Fits, IdsFit
<1>2. Owned(c) => OwnerFits(d)
  BY DEF Owned, OwnerFits, Same, SameCall, SameFax
<1>3. KeepsDial(c, d)
  BY DEF KeepsDial
<1>4. /\ App = "send" => /\ d.cs # "D_ConnectIndication"
                         /\ d.cs \in CallStates \cup {"Registering"} => c.active
                         /\ c.active => d.cs # "Registered"
      /\ App = "recv" => d.init = FALSE /\ d.cs # "D_ConnectRequest"
      /\ "RESET" \in c.flags =>
           /\ d.cs = "Registered" => App = "recv" /\ ~c.active
           /\ d.cs \in CallStates => d.cs = "D_DisconnectPending"
  BY DEF Fits, CallFits, Typed, LineTyped
<1>5. c.sending => d.cs # "D_ConnectRequest"
  BY DEF Fits, FaxFits
<1>6. Idle(c) => d.cs \in {"Released", "Releasing"}
  BY DEF Idle
<1> QED
  BY <1>1, <1>2, <1>3, <1>4, <1>5, <1>6, LineTurn

(* A handler that only puts a plain message.                               *)
LEMMA PutTurn ==
  ASSUME NEW c, Fits(c), NEW msg, Plain(msg), NEW d, d = Put(c, msg)
  PROVE  /\ Turn(c, d) /\ KeepsDial(c, d) /\ Same(c, d) /\ SameState(c, d)
         /\ AskFits(d) /\ (NoDial(c.down) => NoDial(d.down))
         /\ ~IsData(msg) => Onward(c, d)
<1>1. Typed(c) /\ AskFits(c) /\ msg \in Messages(Requests)
  BY DEF Fits, Plain
<1>2. Typed(d) /\ Same(c, d) /\ SameState(c, d) /\ Puts(c, d, msg)
  BY <1>1, PutIs
<1>3. AskFits(d) /\ (NoDial(c.down) => NoDial(d.down))
  BY <1>1, <1>2, AskPut DEF Puts, SameState
<1>4. ThreadFits(d) /\ (c.sending => d.thr \in {"run", "late"})
  BY <1>2 DEF SameState, Fits, ThreadFits, FaxFits
<1>5. ~IsData(msg) => Onward(c, d)
  BY <1>1, <1>2, CalmPut, StaysOnward DEF Puts
<1> QED
  BY <1>2, <1>3, <1>4, <1>5, SameTurn DEF SameState

(* A handler changes the call no more than Turn says, and a call that is   *)
(* being dialled stays so.                                                 *)
TurnDial(c, d) == Turn(c, d) /\ KeepsDial(c, d)

(* The line after DisconnectReq in a state of a call.                      *)
HungUp(c, d) ==
  /\ d.plci = c.plci /\ d.ncci = c.ncci /\ d.init = c.init
  /\ d.appl = c.appl /\ d.thr = c.thr
  /\ AskFits(d) /\ Calm(c.down, d.down)
  /\ \/ d.cs = c.cs /\ d.timer = c.timer
     \/ d.cs = "D_DisconnectPending" /\ d.timer = "disconnect"
     \/ /\ c.cs \in {"B_ConnectPending", "Connected"}
        /\ d.cs = "B_DisconnectPending" /\ d.timer = c.timer

(* DisconnectReq in the states of a call.                                  *)
LEMMA HangUpIs ==
  ASSUME NEW c, Typed(c), AskFits(c), IdsFit(c), c.cs \in CallStates \ {"D_ConnectRequest"},
         NEW fast \in BOOLEAN, NEW d, d = HangUp(c, fast)
  PROVE  /\ Typed(d) /\ Same(c, d) /\ HungUp(c, d)
         /\ fast => d.cs = "D_DisconnectPending"
         /\ c.cs \in {"D_ConnectIndication", "D_DisconnectPending"} =>
              d.cs = "D_DisconnectPending"
         /\ c.cs = "B_DisconnectPending" => d.cs \in {c.cs, "D_DisconnectPending"}
<1> DEFINE e == [c EXCEPT !.cs = "D_DisconnectPending", !.timer = "disconnect"]
           b == [c EXCEPT !.cs = "B_DisconnectPending"]
<1>1. /\ Shaped(e) /\ Same(c, e) /\ SameIds(c, e) /\ e.down = c.down
      /\ e.cs = "D_DisconnectPending" /\ e.timer = "disconnect"
  BY NamesHold DEF NamesAreIn, Typed, Shaped, Same, SameCall, SameWish, SameFax, SameIds
<1>2. /\ Shaped(b) /\ Same(c, b) /\ SameIds(c, b) /\ b.down = c.down
      /\ b.cs = "B_DisconnectPending" /\ b.timer = c.timer
  BY NamesHold DEF NamesAreIn, Typed, Shaped, Same, SameCall, SameWish, SameFax, SameIds
<1>3. \/ /\ d = c
         /\ c.cs = "D_DisconnectPending" \/ (c.cs = "B_DisconnectPending" /\ ~fast)
      \/ \E m \in {"CONNECT_RESP", "DISCONNECT_REQ"} :
           d = Put(e, Msg(m, c.plci)) \/ d = Put(e, No(m, c.plci))
      \/ /\ c.cs \in {"B_ConnectPending", "Connected"} /\ ~fast
         /\ d = Put(b, Msg("DISCONNECT_B3_REQ", c.ncci))
  BY DEF HangUp
<1> HIDE DEF e, b
<1>4. c.plci \in Plcis /\ (c.cs \in {"B_ConnectPending", "Connected"} => c.ncci \in Plcis)
  BY DEF Typed, LineTyped, IdsFit, CallStates, IdleStates
<1>5. 0 \notin Plcis
  BY DriverAssumption
<1>6. Typed(e) /\ Typed(b)
  BY <1>1, <1>2 DEF Typed, LineTyped, CallTyped, FaxTyped, Same, SameCall, SameWish, SameFax,
     SameIds, CallStates
<1>7. AskFits(e) /\ AskFits(b)
  BY <1>1, <1>2 DEF AskFits
<1>8. CASE d = c /\ (c.cs = "D_DisconnectPending" \/ (c.cs = "B_DisconnectPending" /\ ~fast))
  <2>1. Same(c, d) /\ HungUp(c, d)
    BY <1>8, CalmSame DEF Same, SameCall, SameWish, SameFax, HungUp
  <2> QED
    BY <1>8, <2>1
<1>9. ASSUME NEW msg, Plain(msg), ~IsData(msg), d = Put(e, msg)
      PROVE  /\ Typed(d) /\ Same(c, d) /\ HungUp(c, d)
             /\ d.cs = "D_DisconnectPending"
  <2>1. msg \in Messages(Requests)
    BY <1>9 DEF Plain
  <2>2. Typed(d) /\ Same(e, d) /\ SameState(e, d) /\ Puts(e, d, msg)
    BY <1>6, <1>9, <2>1, PutIs
  <2>3. AskFits(d)
    BY <1>6, <1>7, <1>9, <2>2, AskPut DEF Puts, SameState
  <2>4. Same(c, d)
    BY <1>1, <2>2 DEF Same, SameCall, SameWish, SameFax
  <2>5. Calm(c.down, d.down)
    BY <1>1, <1>6, <1>9, <2>2, CalmPut DEF Puts
  <2>6. HungUp(c, d)
    BY <1>1, <2>2, <2>3, <2>5 DEF HungUp, SameState, SameIds
  <2> QED
    BY <1>1, <2>2, <2>4, <2>6 DEF SameState
<1>10. ASSUME c.cs \in {"B_ConnectPending", "Connected"}, NEW msg, Plain(msg),
              ~IsData(msg), d = Put(b, msg)
       PROVE  /\ Typed(d) /\ Same(c, d) /\ HungUp(c, d)
              /\ d.cs = "B_DisconnectPending"
  <2>1. msg \in Messages(Requests)
    BY <1>10 DEF Plain
  <2>2. Typed(d) /\ Same(b, d) /\ SameState(b, d) /\ Puts(b, d, msg)
    BY <1>6, <1>10, <2>1, PutIs
  <2>3. AskFits(d)
    BY <1>6, <1>7, <1>10, <2>2, AskPut DEF Puts, SameState
  <2>4. Same(c, d)
    BY <1>2, <2>2 DEF Same, SameCall, SameWish, SameFax
  <2>5. Calm(c.down, d.down)
    BY <1>2, <1>6, <1>10, <2>2, CalmPut DEF Puts
  <2>6. HungUp(c, d)
    BY <1>2, <1>10, <2>2, <2>3, <2>5 DEF HungUp, SameState, SameIds
  <2> QED
    BY <1>2, <2>2, <2>4, <2>6 DEF SameState
<1>11. \A m \in {"CONNECT_RESP", "DISCONNECT_REQ"} :
         /\ Plain(Msg(m, c.plci)) /\ Plain(No(m, c.plci))
         /\ ~IsData(Msg(m, c.plci)) /\ ~IsData(No(m, c.plci))
  BY <1>4, <1>5, PlainMessages
<1>12. c.cs \in {"B_ConnectPending", "Connected"} =>
         Plain(Msg("DISCONNECT_B3_REQ", c.ncci)) /\ ~IsData(Msg("DISCONNECT_B3_REQ", c.ncci))
  BY <1>4, <1>5, PlainMessages
<1> QED
  BY <1>3, <1>8, <1>9, <1>10, <1>11, <1>12

(* DisconnectReq in the states of a call keeps the invariant.              *)
LEMMA HangUpTurn ==
  ASSUME NEW c, Fits(c), c.cs \in CallStates \ {"D_ConnectRequest"},
         NEW fast \in BOOLEAN, NEW d, d = HangUp(c, fast)
  PROVE  /\ TurnDial(c, d) /\ Same(c, d) /\ HungUp(c, d)
         /\ (c.cs = "B_ConnectPending" /\ ~fast => c.timer = "none" \/ c.sending) =>
              Onward(c, d)
<1>1. Typed(c) /\ AskFits(c) /\ IdsFit(c) /\ ThreadFits(c) /\ CallFits(c) /\ FaxFits(c)
  BY DEF Fits
<1>2. /\ Typed(d) /\ Same(c, d) /\ HungUp(c, d)
      /\ c.cs \in {"D_ConnectIndication", "D_DisconnectPending"} =>
           d.cs = "D_DisconnectPending"
      /\ c.cs = "B_DisconnectPending" => d.cs \in {c.cs, "D_DisconnectPending"}
      /\ fast => d.cs = "D_DisconnectPending"
  BY <1>1, HangUpIs
<1>3. d.cs \in CallStates \ {"D_ConnectRequest", "D_ConnectIndication"}
  BY <1>2 DEF HungUp, CallStates
<1>4. IdsFit(d)
  BY <1>1, <1>2, <1>3 DEF IdsFit, HungUp, CallStates, IdleStates
<1>5. ThreadFits(d)
  BY <1>1, <1>2, <1>3 DEF ThreadFits, HungUp, CallStates
<1>6. AskFits(d)
  BY <1>2 DEF HungUp
<1>7. /\ App = "send" => /\ d.cs # "D_ConnectIndication"
                         /\ d.cs \in CallStates \cup {"Registering"} => c.active
                         /\ c.active => d.cs # "Registered"
      /\ App = "recv" => d.init = FALSE /\ d.cs # "D_ConnectRequest"
      /\ "RESET" \in c.flags =>
           /\ d.cs = "Registered" => App = "recv" /\ ~c.active
           /\ d.cs \in CallStates => d.cs = "D_DisconnectPending"
      /\ d.cs = "Released" => c.cs = "Released"
  BY <1>1, <1>2, <1>3 DEF CallFits, HungUp, CallStates, Typed, LineTyped
<1>8. c.sending => d.thr \in {"run", "late"} /\ d.cs # "D_ConnectRequest"
  BY <1>1, <1>2, <1>3 DEF FaxFits, HungUp
<1>9. ~Idle(c)
  BY DEF Idle, CallStates
<1>10. Owned(c) => OwnerFits(d)
  BY <1>2, <1>3 DEF Owned, OwnerFits, HungUp, Same, SameCall
<1>11. Turn(c, d)
  BY <1>2, <1>4, <1>5, <1>6, <1>7, <1>8, <1>9, <1>10, LineTurn
<1>12. ASSUME c.cs = "B_ConnectPending" /\ ~fast => c.timer = "none" \/ c.sending
       PROVE  Onward(c, d)
  <2>1. StateOnward(c, d)
    BY <1>2, <1>3, <1>12 DEF StateOnward, HungUp, Same, SameFax
  <2>2. LineOnward(c, d)
    BY <1>2, <2>1 DEF LineOnward, HungUp, Same, SameFax, CallStates
  <2>3. CallOnward(c, d)
    BY <1>2 DEF CallOnward, HungUp, Same, SameCall, Joined
  <2> QED
    BY <2>2, <2>3 DEF Onward
<1> QED
  BY <1>2, <1>11, <1>12 DEF TurnDial, KeepsDial

(* Two turns, one after the other, are a turn.                             *)
LEMMA TurnJoins ==
  ASSUME NEW c, NEW e, NEW d, TurnDial(c, e), TurnDial(e, d),
         e.flags = c.flags, e.resets = c.resets, e.begun = c.begun
  PROVE  TurnDial(c, d)
<1>1. KeepsDial(c, d)
  BY DEF TurnDial, KeepsDial
<1>2. Answers(c, d)
  BY DEF TurnDial, Turn, Answers, Busy, Done
<1> QED
  BY <1>1, <1>2 DEF TurnDial, Turn, Sticks

(* Doing nothing is a turn.                                                *)
LEMMA TurnsNot ==
  ASSUME NEW c, Fits(c)
  PROVE  TurnDial(c, c)
BY DEF TurnDial, Turn, KeepsDial, Answers, Sticks, Busy, Done, Idle

(* The frames of a call that is over are accounted for.                    *)
LEMMA ClearedBlock ==
  ASSUME NEW c, NEW d, Typed(c), BlockFits(c), d.next = c.next,
         d.block = [h \in Handles |-> 0],
         d.deleted = [f \in Frames |->
                        c.deleted[f] + IF \E h \in Handles : c.block[h] = f THEN 1 ELSE 0]
  PROVE  BlockFits(d)
<1>1. \A h \in Handles : d.block[h] = 0
  OBVIOUS
<1>2. \A h \in Handles : c.block[h] < c.next
  BY DEF BlockFits
<1>3. c.next \in Nat /\ 0 < c.next
  BY ChannelAssumption DEF Typed, FaxTyped
<1>4. ASSUME NEW f \in Frames
      PROVE  d.deleted[f] = IF f < d.next /\ \A h \in Handles : d.block[h] # f THEN 1 ELSE 0
  <2>1. d.deleted[f] = c.deleted[f] + IF \E h \in Handles : c.block[h] = f THEN 1 ELSE 0
    OBVIOUS
  <2>2. c.deleted[f] = IF f < c.next /\ \A h \in Handles : c.block[h] # f THEN 1 ELSE 0
    BY DEF BlockFits
  <2>3. f # 0
    BY DEF Frames
  <2>4. d.next = c.next
    OBVIOUS
  <2> QED
    BY <1>1, <1>2, <2>1, <2>2, <2>3, <2>4
<1>5. \A h \in Handles : d.block[h] < d.next
  BY <1>1, <1>3
<1> QED
  BY <1>1, <1>4, <1>5 DEF BlockFits

(* The end of a call empties the send block.                               *)
LEMMA OverBlock ==
  ASSUME NEW c, NEW d, Typed(c), BlockFits(c), Over(c, d)
  PROVE  BlockFits(d)
BY ClearedBlock DEF Over

(* DisconnectReq, called while faxsend sends.                              *)
LEMMA SenderHangsUp ==
  ASSUME NEW c, Fits(c), App = "send", c.sending,
         NEW fast \in BOOLEAN, NEW d, d = DisconnectReq(c, fast)
  PROVE  TurnDial(c, d) /\ d.plci \in {0, c.plci} /\ Onward(c, d)
<1>1. Typed(c) /\ ThreadFits(c) /\ CallFits(c) /\ FaxFits(c) /\ c.inuse = 0
      /\ IdsFit(c) /\ AskFits(c)
  BY DEF Fits
<1>2. c.cs \in IdleStates \cup CallStates /\ c.cs \notin {"Released", "Registering"}
      /\ c.cs # "D_ConnectRequest"
  BY <1>1 DEF FaxFits, ThreadFits, Typed, LineTyped
<1>3. CASE c.cs \notin IdleStates
  BY <1>2, <1>3, HangUpTurn DEF DisconnectReq, HungUp
<1>4. CASE c.cs \in IdleStates /\ ~c.active
  BY <1>4, TurnsNot, NothingOnward DEF DisconnectReq, DisconnectInd
<1>5. CASE c.cs \in IdleStates /\ c.active
  <2>1. d = DisconnectInd(c)
    BY <1>5 DEF DisconnectReq
  <2>2. c.cs = "Releasing"
    BY <1>1, <1>2, <1>5 DEF CallFits, IdleStates
  <2>3. ~c.ddi /\ ~c.msn /\ "RESET" \notin c.flags
    BY <1>1, <1>5 DEF CallFits
  <2>4. /\ Ended(c, d) /\ d.quit = c.quit /\ ~d.msn
        /\ "RESET" \in d.flags /\ d.resets = c.resets /\ SameLine(c, d)
    BY <1>1, <1>5, <2>1, <2>2, <2>3, SendCallEnds
  <2>5. /\ Typed(d) /\ d.inuse = 0 /\ d.active = FALSE /\ d.ddi = FALSE /\ d.phase = "idle"
        /\ d.fin = TRUE /\ d.sending = c.sending /\ d.begun = c.begun
    BY <1>1, <1>5, <2>3, <2>4 DEF Ended, Over, CallFits
  <2>6. ThreadFits(d) /\ IdsFit(d) /\ AskFits(d)
    BY <1>1, <2>4, SameLineFits
  <2>7. CallFits(d) /\ FaxFits(d)
    BY <1>1, <2>2, <2>4, <2>5 DEF CallFits, FaxFits, SameLine, CallStates
  <2>8. Answers(c, d) /\ Sticks(c, d)
    BY <1>5, <2>3, <2>4, <2>5 DEF Answers, Sticks, Busy, Idle
  <2>9. OwnerFits(d)
    BY <1>1, <2>2, <2>4, <2>5 DEF OwnerFits, IdsFit, SameLine, CallStates
  <2>10. BlockFits(c) => BlockFits(d)
    BY <1>1, <2>4, OverBlock DEF Ended
  <2>11. Onward(c, d)
    BY <2>2, <2>4, <2>5, CalmSame
       DEF Onward, LineOnward, StateOnward, CallOnward, SameLine, IdleStates
  <2> QED
    BY <2>2, <2>4, <2>5, <2>6, <2>7, <2>8, <2>9, <2>10, <2>11
       DEF TurnDial, Turn, Owned, Fits, KeepsDial, SameLine
<1> QED
  BY <1>3, <1>4, <1>5

(* The reset of a receiver, in any state but that of a call which has lost *)
(* its connection (below).                                                 *)
LEMMA StopTurn ==
  ASSUME NEW c, Fits(c), App = "recv", OwnerFits(c), NEW d, d = StopReceive(c)
  PROVE  /\ Turn(c, d) /\ (c.cs = "Released" => d.cs = "Released")
         /\ d.ddi = c.ddi /\ d.plci \in {0, c.plci} /\ Onward(c, d)
<1> DEFINE q == [c EXCEPT !.quit = TRUE]
           e == [q EXCEPT !.flags = @ \cup {"RESET"}]
           f == DisconnectReq(e, TRUE)
           g == [f EXCEPT !.msn = FALSE]
<1>1. Typed(c) /\ c.inuse = 0 /\ ThreadFits(c) /\ CallFits(c) /\ FaxFits(c)
      /\ IdsFit(c) /\ AskFits(c)
  BY DEF Fits
<1>2. /\ Shaped(q) /\ q.inuse = c.inuse /\ q.capi = c.capi
      /\ SameLine(c, q) /\ SameCall(c, q) /\ SameFax(c, q)
      /\ q.msn = c.msn /\ q.quit = TRUE /\ q.flags = c.flags /\ q.resets = c.resets
  BY <1>1, NamesHold DEF NamesAreIn, Typed, Shaped, SameLine, SameCall, SameFax
<1>3. d = IF q.cs = "Released" /\ q.flags = {} /\ q.inuse = 0 THEN IsReseted(q)
          ELSE CheckListenReset(g)
  BY DEF StopReceive, ResetChannel
<1> HIDE DEF q
<1>4. Typed(q)
  BY <1>1, <1>2 DEF Typed, LineTyped, CallTyped, FaxTyped, SameLine, SameCall, SameFax
<1>5. ~c.sending /\ c.cs # "D_ConnectRequest"
  BY <1>1 DEF FaxFits, CallFits
<1>6. CASE q.cs = "Released" /\ q.flags = {} /\ q.inuse = 0
  <2>1. d = IsReseted(q)
    BY <1>3, <1>6
  <2>2. /\ Shaped(d) /\ d.inuse = 0 /\ d.capi = q.capi
        /\ SameLine(q, d) /\ SameCall(q, d) /\ SameFax(q, d)
        /\ d.msn = q.msn /\ d.quit = q.quit /\ d.flags = {} /\ d.resets = q.resets + 1
    BY <1>4, <1>6, <2>1, NamesHold DEF NamesAreIn, IsReseted, Typed, Shaped, SameLine, SameCall,
       SameFax
  <2>3. /\ SameLine(c, d) /\ SameCall(c, d) /\ SameFax(c, d)
        /\ d.resets = c.resets + 1 /\ d.flags = {} /\ c.flags = {} /\ c.cs = "Released"
    BY <1>2, <1>6, <2>2 DEF SameLine, SameCall, SameFax
  <2>4. Typed(d)
    BY <1>4, <2>2 DEF Typed, LineTyped, CallTyped, FaxTyped, SameLine, SameCall, SameFax
  <2>5. ThreadFits(d) /\ IdsFit(d) /\ AskFits(d)
    BY <1>1, <2>3, SameLineFits
  <2>6. CallFits(d) /\ FaxFits(d)
    BY <1>1, <1>5, <2>3 DEF CallFits, FaxFits, SameLine, SameCall, SameFax
  <2>7. Answers(c, d) /\ Sticks(c, d)
    BY <2>3 DEF Answers, Sticks
  <2>8. Owned(c) => Owned(d)
    BY <2>3 DEF Owned, BlockFits, OwnerFits, SameLine, SameCall, SameFax
  <2>9. Onward(c, d)
    BY <2>3, CalmSame DEF Onward, LineOnward, StateOnward, CallOnward, SameLine, SameCall, SameFax
  <2> QED
    BY <2>2, <2>3, <2>4, <2>5, <2>6, <2>7, <2>8, <2>9 DEF Turn, Fits, SameLine, SameCall
<1>7. CASE ~(q.cs = "Released" /\ q.flags = {} /\ q.inuse = 0)
  <2>1. d = CheckListenReset(g)
    BY <1>3, <1>7
  <2>2. /\ Shaped(e) /\ e.inuse = 0 /\ e.capi = q.capi
        /\ SameLine(q, e) /\ SameCall(q, e) /\ SameFax(q, e)
        /\ e.msn = q.msn /\ e.quit = q.quit /\ e.flags = q.flags \cup {"RESET"}
        /\ e.resets = q.resets
    BY <1>1, <1>2, <1>4, NamesHold DEF NamesAreIn, Typed, Shaped, SameLine, SameCall, SameFax
  <2> HIDE DEF e
  <2>3. /\ SameLine(c, e) /\ SameCall(c, e) /\ SameFax(c, e)
        /\ e.flags = c.flags \cup {"RESET"} /\ e.resets = c.resets
    BY <1>2, <2>2 DEF SameLine, SameCall, SameFax
  <2>4. Typed(e) /\ IdsFit(e) /\ AskFits(e)
    BY <1>1, <1>4, <2>2, <2>3 DEF Typed, LineTyped, CallTyped, FaxTyped, IdsFit, AskFits,
       SameLine, SameCall, SameFax
  <2>5. e.cs = c.cs /\ e.active = c.active
    BY <2>3 DEF SameLine, SameCall
  <2>6. /\ Typed(f) /\ Same(e, f) /\ HungUp(e, f)
        /\ f.cs = IF c.cs \in IdleStates THEN c.cs ELSE "D_DisconnectPending"
    <3>1. CASE c.cs \in IdleStates
      <4>1. ~e.active
        BY <2>5, <3>1 DEF OwnerFits, IdleStates, CallStates
      <4>2. f = e
        BY <2>5, <3>1, <4>1 DEF DisconnectReq, DisconnectInd
      <4> QED
        BY <2>4, <2>5, <3>1, <4>2, CalmSame DEF Same, SameCall, SameWish, SameFax, HungUp
    <3>2. CASE c.cs \notin IdleStates
      <4>1. e.cs \in CallStates \ {"D_ConnectRequest"}
        BY <1>1, <1>5, <2>5, <3>2 DEF Typed, LineTyped
      <4>2. f = HangUp(e, TRUE)
        BY <2>5, <3>2 DEF DisconnectReq
      <4> HIDE DEF f
      <4>3. Typed(f) /\ Same(e, f) /\ HungUp(e, f) /\ f.cs = "D_DisconnectPending"
        BY <2>4, <4>1, <4>2, HangUpIs
      <4> QED
        BY <3>2, <4>3
    <3> QED
      BY <3>1, <3>2
  <2> HIDE DEF f
  <2>7. /\ Shaped(g) /\ g.inuse = 0 /\ g.capi = f.capi
        /\ SameLine(f, g) /\ SameCall(f, g) /\ SameFax(f, g)
        /\ g.msn = FALSE /\ g.quit = f.quit /\ g.flags = f.flags /\ g.resets = f.resets
    BY <2>2, <2>6, NamesHold DEF NamesAreIn, Typed, Shaped, Same, SameLine, SameCall, SameFax
  <2> HIDE DEF g
  <2>8. Typed(g)
    BY <2>6, <2>7 DEF Typed, LineTyped, CallTyped, FaxTyped, SameLine, SameCall, SameFax
  <2>9. /\ SameCall(c, g) /\ SameFax(c, g) /\ g.flags = c.flags \cup {"RESET"}
        /\ g.resets = c.resets
    BY <2>3, <2>6, <2>7 DEF Same, SameCall, SameFax, SameWish
  <2>10. /\ IdsFit(g) /\ AskFits(g) /\ ThreadFits(g) /\ g.init = FALSE
         /\ g.cs = IF c.cs \in IdleStates THEN c.cs ELSE "D_DisconnectPending"
    <3>1. g.cs = IF c.cs \in IdleStates THEN c.cs ELSE "D_DisconnectPending"
      BY <2>6, <2>7 DEF SameLine
    <3>2. /\ g.plci = c.plci /\ g.ncci = c.ncci /\ g.init = c.init
          /\ g.appl = c.appl /\ g.thr = c.thr
      BY <2>3, <2>6, <2>7 DEF SameLine, HungUp
    <3>3. \/ g.timer = c.timer /\ g.cs = c.cs
          \/ g.cs = "D_DisconnectPending" /\ g.timer = "disconnect"
      BY <2>3, <2>6, <2>7, <3>1 DEF SameLine, HungUp, CallStates, IdleStates
    <3>4. AskFits(g)
      BY <2>6, <2>7 DEF HungUp, AskFits, SameLine
    <3>5. c.cs \in IdleStates \/ c.cs \in CallStates \ {"D_ConnectRequest"}
      BY <1>1, <1>5 DEF Typed, LineTyped
    <3>6. IdsFit(g)
      BY <1>1, <3>1, <3>2, <3>3, <3>5 DEF IdsFit, IdleStates, CallStates
    <3>7. ThreadFits(g)
      BY <1>1, <3>1, <3>2, <3>5 DEF ThreadFits, IdleStates, CallStates
    <3> QED
      BY <1>1, <3>1, <3>2, <3>4, <3>6, <3>7 DEF CallFits
  <2>11. /\ Typed(d) /\ d.inuse = g.inuse /\ SameCall(g, d) /\ SameFax(g, d)
         /\ d.msn = g.msn /\ d.resets = g.resets /\ "RESET" \in d.flags
         /\ IdsFit(d) /\ AskFits(d) /\ ThreadFits(d) /\ d.init = FALSE
         /\ d.cs = IF g.cs = "Registered" THEN "Releasing" ELSE g.cs
         /\ d.plci \in {0, g.plci} /\ d.ncci \in {0, g.ncci} /\ d.down = g.down
         /\ d.cs # "Releasing" => d.thr = g.thr
    <3>1. CASE g.cs # "Registered"
      <4>1. d = g
        BY <2>1, <2>8, <3>1, CheckListenResetIs
      <4> QED
        BY <2>8, <2>9, <2>10, <3>1, <4>1 DEF SameCall, SameFax
    <3>2. CASE g.cs = "Registered"
      <4>1. /\ Typed(d) /\ d.inuse = g.inuse /\ d.capi = g.capi
            /\ GivesUp(g, d) /\ SameCall(g, d) /\ SameFax(g, d)
            /\ d.msn = g.msn /\ d.quit = g.quit /\ d.resets = g.resets
            /\ d.flags = g.flags \cup {"WAIT_RELEASE"}
        BY <2>1, <2>8, <3>2, CheckListenResetIs
      <4>2. IdsFit(d) /\ ThreadFits(d)
        BY <2>10, <3>2, <4>1 DEF IdsFit, ThreadFits, GivesUp, IdleStates, CallStates
      <4>3. AskFits(d)
        BY <2>10, <3>2, <4>1 DEF AskFits, GivesUp
      <4> QED
        BY <2>9, <3>2, <4>1, <4>2, <4>3 DEF GivesUp
    <3> QED
      BY <3>1, <3>2
  <2>12. /\ SameCall(c, d) /\ SameFax(c, d) /\ d.inuse = 0 /\ d.resets = c.resets
         /\ "RESET" \in d.flags /\ d.msn = FALSE
    BY <2>7, <2>9, <2>11 DEF SameCall, SameFax
  <2>13. d.cs \in {"Released", "Registering", "Releasing", "D_DisconnectPending"}
         /\ (d.cs = "D_DisconnectPending" <=> c.cs \notin IdleStates)
         /\ (c.cs = "Released" <=> d.cs = "Released")
    BY <2>10, <2>11 DEF IdleStates
  <2>14. CallFits(d)
    BY <1>1, <2>11, <2>12, <2>13 DEF CallFits, SameCall, CallStates
  <2>15. FaxFits(d)
    BY <1>1, <1>5, <2>12 DEF FaxFits, SameFax
  <2>16. OwnerFits(d)
    <3>1. c.cs \in IdleStates \/ c.cs \in CallStates
      BY <1>1 DEF Typed, LineTyped
    <3>2. d.active = c.active /\ d.ddi = c.ddi /\ d.phase = c.phase
      BY <2>12 DEF SameCall
    <3>3. d.ncci # 0 => d.active /\ ~d.ddi /\ d.phase # "unseen"
      <4>1. d.ncci # 0 => c.ncci # 0
        <5>1. d.ncci # 0 => d.cs = "D_DisconnectPending"
          BY <2>11, <2>13 DEF IdsFit
        <5>2. d.ncci # 0 => d.ncci = g.ncci
          BY <2>11, <5>1, <2>1, <2>10, <2>8, CheckListenResetIs
        <5> QED
          BY <5>2, <2>3, <2>6, <2>7 DEF HungUp, SameLine
      <4> QED
        BY <3>2, <4>1 DEF OwnerFits
    <3>4. c.cs \in IdleStates => ~c.active /\ ~c.ddi /\ c.phase # "unseen"
      BY DEF OwnerFits, IdleStates, CallStates
    <3>5. c.cs \in CallStates => c.active \/ (OtherClaims /\ App = "recv")
      BY DEF OwnerFits
    <3> QED
      BY <2>13, <3>1, <3>2, <3>3, <3>4, <3>5 DEF OwnerFits, CallStates
  <2>17. BlockFits(c) => BlockFits(d)
    BY <2>12 DEF BlockFits, SameCall, SameFax
  <2>18. Answers(c, d) /\ Sticks(c, d)
    BY <2>12 DEF Answers, Sticks, SameCall
  <2>19. d.plci \in {0, c.plci}
    BY <2>3, <2>6, <2>7, <2>11 DEF SameLine, HungUp
  <2>20. Onward(c, d)
    <3>1. c.cs \in IdleStates \/ c.cs \in CallStates
      BY <1>1 DEF Typed, LineTyped
    <3>2. /\ Calm(c.down, d.down) /\ d.ncci \in {0, c.ncci}
          /\ d.cs # "Releasing" => d.thr = c.thr
      BY <2>3, <2>6, <2>7, <2>11 DEF SameLine, HungUp
    <3>3. d.cs = "Releasing" \/ d.cs = c.cs \/ (d.cs = "D_DisconnectPending" /\ c.cs \in CallStates)
      BY <2>10, <2>11, <3>1
    <3>4. StateOnward(c, d)
      BY <1>5, <2>12, <2>13 DEF StateOnward, SameFax, IdleStates
    <3>5. LineOnward(c, d)
      BY <1>5, <2>12, <3>2, <3>3, <3>4 DEF LineOnward, SameFax, CallStates
    <3>6. CallOnward(c, d)
      BY <2>12, <2>13 DEF CallOnward, SameCall, Joined, IdleStates
    <3> QED
      BY <3>5, <3>6 DEF Onward
  <2> QED
    BY <2>11, <2>12, <2>13, <2>14, <2>15, <2>16, <2>17, <2>18, <2>19, <2>20
       DEF Turn, Fits, Owned, SameCall
<1> QED
  BY <1>6, <1>7

(* The same for a call whose connection is lost but whose end is not yet   *)
(* reported.                                                               *)
LEMMA StopEndedCall ==
  ASSUME NEW c, Fits(c), App = "recv", c.cs = "Released", c.active, NEW d, d = StopReceive(c)
  PROVE  /\ Fits(d) /\ Answers(c, d) /\ Sticks(c, d) /\ d.cs = "Released"
         /\ BlockFits(c) => BlockFits(d)
         /\ (c.ddi => c.active) => (d.ddi => d.active)
         /\ Onward(c, d)
<1> DEFINE q == [c EXCEPT !.quit = TRUE]
           e == [q EXCEPT !.flags = @ \cup {"RESET"}]
           f == DisconnectInd(e)
           g == [f EXCEPT !.msn = FALSE]
<1>1. Typed(c) /\ c.inuse = 0 /\ ThreadFits(c) /\ CallFits(c) /\ FaxFits(c)
      /\ IdsFit(c) /\ AskFits(c)
  BY DEF Fits
<1>2. /\ Shaped(q) /\ q.inuse = c.inuse /\ q.capi = c.capi
      /\ SameLine(c, q) /\ SameCall(c, q) /\ SameFax(c, q)
      /\ q.msn = c.msn /\ q.quit = TRUE /\ q.flags = c.flags /\ q.resets = c.resets
  BY <1>1, NamesHold DEF NamesAreIn, Typed, Shaped, SameLine, SameCall, SameFax
<1>3. d = IF q.flags = {} THEN IsReseted(q) ELSE CheckListenReset(g)
  <2>1. q.cs = "Released" /\ q.inuse = 0 /\ e.cs = "Released"
    BY <1>1, <1>2, NamesHold DEF SameLine, NamesAreIn, Shaped
  <2>2. d = ResetChannel(q)
    BY DEF StopReceive
  <2> HIDE DEF q
  <2>3. d = IF q.cs = "Released" /\ q.flags = {} /\ q.inuse = 0 THEN IsReseted(q)
            ELSE CheckListenReset([DisconnectReq(e, TRUE) EXCEPT !.msn = FALSE])
    BY <2>2 DEF ResetChannel
  <2> HIDE DEF e
  <2>4. DisconnectReq(e, TRUE) = f
    BY <2>1 DEF DisconnectReq, IdleStates
  <2> QED
    BY <2>1, <2>3, <2>4
<1> HIDE DEF q
<1>4. Typed(q)
  BY <1>1, <1>2 DEF Typed, LineTyped, CallTyped, FaxTyped, SameLine, SameCall, SameFax
<1>5. CASE q.flags = {}
  <2>1. /\ Shaped(d) /\ d.inuse = 0 /\ d.capi = q.capi
        /\ SameLine(q, d) /\ SameCall(q, d) /\ SameFax(q, d)
        /\ d.msn = q.msn /\ d.quit = q.quit /\ d.flags = {} /\ d.resets = q.resets + 1
    BY <1>1, <1>2, <1>3, <1>4, <1>5, NamesHold DEF NamesAreIn, IsReseted, Typed, Shaped,
       SameLine, SameCall, SameFax
  <2>2. /\ SameLine(c, d) /\ SameCall(c, d) /\ SameFax(c, d)
        /\ d.resets = c.resets + 1 /\ d.flags = {} /\ c.flags = {}
    BY <1>2, <1>5, <2>1 DEF SameLine, SameCall, SameFax
  <2>3. Typed(d)
    BY <1>4, <2>1 DEF Typed, LineTyped, CallTyped, FaxTyped, SameLine, SameCall, SameFax
  <2>4. ThreadFits(d) /\ IdsFit(d) /\ AskFits(d)
    BY <1>1, <2>2, SameLineFits
  <2>5. CallFits(d) /\ FaxFits(d)
    BY <1>1, <2>2 DEF CallFits, FaxFits, SameLine, SameCall, SameFax
  <2>6. BlockFits(c) => BlockFits(d)
    BY <2>2 DEF BlockFits, SameCall, SameFax
  <2>7. Onward(c, d)
    BY <2>2, CalmSame DEF Onward, LineOnward, StateOnward, CallOnward, SameLine, SameCall, SameFax
  <2> QED
    BY <2>1, <2>2, <2>3, <2>4, <2>5, <2>6, <2>7 DEF Fits, Answers, Sticks, SameLine, SameCall
<1>6. CASE q.flags # {}
  <2>1. /\ Shaped(e) /\ e.inuse = 0 /\ e.capi = q.capi
        /\ SameLine(q, e) /\ SameCall(q, e) /\ SameFax(q, e)
        /\ e.msn = q.msn /\ e.quit = q.quit /\ e.flags = q.flags \cup {"RESET"}
        /\ e.resets = q.resets
    BY <1>1, <1>2, <1>4, NamesHold DEF NamesAreIn, Typed, Shaped, SameLine, SameCall, SameFax
  <2> HIDE DEF e
  <2>2. /\ SameLine(c, e) /\ SameCall(c, e) /\ SameFax(c, e)
        /\ e.flags = c.flags \cup {"RESET"} /\ e.resets = c.resets
    BY <1>2, <2>1 DEF SameLine, SameCall, SameFax
  <2>3. Typed(e) /\ e.active /\ e.cs = "Released" /\ "RESET" \in e.flags
    BY <1>1, <1>4, <2>1, <2>2 DEF Typed, LineTyped, CallTyped, FaxTyped, SameLine, SameCall,
       SameFax
  <2>4. /\ Ended(e, f) /\ f.msn = e.msn /\ f.quit = e.quit /\ f.resets = e.resets
        /\ "RESET" \in f.flags /\ SameLine(e, f)
    BY <2>1, <2>3, RecvCallEnds
  <2> HIDE DEF f
  <2>5. /\ Shaped(g) /\ g.inuse = 0 /\ g.capi = f.capi
        /\ SameLine(f, g) /\ SameCall(f, g) /\ SameFax(f, g)
        /\ g.msn = FALSE /\ g.quit = f.quit /\ g.flags = f.flags /\ g.resets = f.resets
    BY <2>4, NamesHold DEF NamesAreIn, Ended, Typed, Shaped, SameLine, SameCall, SameFax
  <2> HIDE DEF g
  <2>6. Typed(g)
    BY <2>4, <2>5 DEF Ended, Typed, LineTyped, CallTyped, FaxTyped, SameLine, SameCall, SameFax
  <2>7. d = g
    BY <1>3, <1>6, <2>3, <2>4, <2>5, <2>6, CheckListenResetIs DEF SameLine
  <2>8. SameLine(c, d) /\ Over(c, d) /\ d.ddi = FALSE /\ d.resets = c.resets
        /\ "RESET" \in d.flags /\ d.msn = FALSE
    BY <2>2, <2>4, <2>5, <2>7 DEF SameLine, SameCall, SameFax, Ended, Over
  <2>9. d.phase = "idle"
    BY <1>1, <2>2, <2>3, <2>4, <2>5, <2>7 DEF Ended, SameCall, CallFits
  <2>10. d.fin = TRUE \/ d.fin = c.fin
    BY <2>2, <2>4, <2>5, <2>7 DEF Ended, SameFax
  <2>11. ThreadFits(d) /\ IdsFit(d) /\ AskFits(d)
    BY <1>1, <2>8, SameLineFits
  <2>12. CallFits(d)
    BY <1>1, <2>8, <2>9 DEF CallFits, Over, SameLine, CallStates
  <2>13. FaxFits(d)
    BY <1>1, <2>8, <2>10 DEF FaxFits, Over
  <2>14. BlockFits(c) => BlockFits(d)
    BY <1>1, <2>8, OverBlock
  <2>15. Onward(c, d)
    BY <1>1, <2>8, <2>9, CalmSame, ChannelAssumption
       DEF Onward, LineOnward, StateOnward, CallOnward, SameLine, Over, FaxFits, IdleStates
  <2> QED
    BY <2>5, <2>6, <2>7, <2>8, <2>11, <2>12, <2>13, <2>14, <2>15 DEF Fits, Answers, Sticks, Over,
       SameLine
<1> QED
  BY <1>5, <1>6

(* A call of faxsend is over and the channel gives up its registration.    *)
LEMMA CallOverTurn ==
  ASSUME NEW c, Fits(c), App = "send", c.active, NEW e, SameCall(c, e), SameWish(c, e),
         SameFax(c, e), NEW d, Ended(e, d), d.msn = FALSE, d.quit = e.quit,
         "RESET" \in d.flags, d.resets = e.resets, d.cs = "Releasing",
         ThreadFits(d), IdsFit(d), AskFits(d), c.sending => d.thr \in {"run", "late"}
  PROVE  Turn(c, d) /\ (Calm(c.down, d.down) => Onward(c, d))
<1>1. Typed(c) /\ c.inuse = 0 /\ CallFits(c) /\ FaxFits(c)
  BY DEF Fits
<1>2. /\ Typed(d) /\ d.inuse = 0 /\ d.active = FALSE /\ d.ddi = FALSE /\ d.phase = "idle"
      /\ d.fin = TRUE /\ d.sending = c.sending /\ d.begun = c.begun /\ Over(c, d)
  BY <1>1 DEF Ended, Over, CallFits, SameCall, SameFax
<1>3. d.resets = c.resets /\ d.quit = c.quit
  BY DEF SameWish
<1>4. CallFits(d) /\ FaxFits(d)
  BY <1>1, <1>2, <1>3 DEF CallFits, FaxFits, CallStates
<1>5. Answers(c, d) /\ Sticks(c, d)
  BY <1>2, <1>3 DEF Answers, Sticks, Busy, Idle
<1>6. OwnerFits(d)
  BY <1>2 DEF OwnerFits, IdsFit, CallStates, IdleStates
<1>7. BlockFits(c) => BlockFits(d)
  BY <1>1, <1>2, OverBlock
<1>8. d.ncci = 0
  BY DEF IdsFit
<1>9. Calm(c.down, d.down) => Onward(c, d)
  BY <1>2, <1>8 DEF Onward, LineOnward, StateOnward, CallOnward, IdleStates
<1> QED
  BY <1>2, <1>4, <1>5, <1>6, <1>7, <1>9 DEF Turn, Fits, Owned

(* A channel that gives up its registration has members that agree.        *)
LEMMA GivesUpFits ==
  ASSUME NEW c, NEW d, Typed(c), GivesUp(c, d), c.timer = "none", AskFits(c), NoDial(c.down)
  PROVE  ThreadFits(d) /\ IdsFit(d) /\ AskFits(d)
<1>1. ThreadFits(d)
  BY DEF ThreadFits, GivesUp, CallStates
<1>2. IdsFit(d)
  BY DEF IdsFit, GivesUp, IdleStates, CallStates
<1> QED
  BY <1>1, <1>2 DEF AskFits, GivesUp, NoDial

-----------------------------------------------------------------------------
(* Message handlers                                                        *)

(* CONNECT_CONF.                                                           *)
LEMMA ConnectConfTurn ==
  ASSUME NEW c, Fits(c), c.cs = "D_ConnectRequest", NoDial(c.down),
         NEW msg \in Messages(Reports), msg.ok => msg.id # 0,
         NEW d, d = CONNECT_CONF(c, msg)
  PROVE  /\ Turn(c, d) /\ d.plci \in {0, msg.id}
         /\ d.cs \in {"D_ConnectPending", "Releasing"} /\ NoDial(d.down)
         /\ Moves(c, d) /\ d.down = c.down
<1>1. Typed(c) /\ c.inuse = 0 /\ ThreadFits(c) /\ CallFits(c) /\ FaxFits(c)
      /\ IdsFit(c) /\ AskFits(c)
  BY DEF Fits
<1>2. /\ App = "send" /\ c.active /\ ~c.ddi /\ ~c.msn /\ "RESET" \notin c.flags
      /\ c.timer = "none" /\ ~c.sending /\ c.ncci = 0 /\ c.plci = 0
  BY <1>1, ChannelAssumption DEF CallFits, FaxFits, IdsFit, CallStates, Typed, LineTyped,
     CallTyped
<1>3. CASE msg.ok
  <2>1. d = [c EXCEPT !.plci = msg.id, !.cs = "D_ConnectPending",
                      !.timer = IF RingingTimeout THEN "ringing" ELSE c.timer]
    BY <1>1, <1>3, NamesHold DEF CONNECT_CONF, NamesAreIn, Typed, Shaped
  <2>2. /\ Shaped(d) /\ Same(c, d) /\ d.plci = msg.id /\ d.cs = "D_ConnectPending"
        /\ d.timer \in {"ringing", "none"} /\ d.ncci = c.ncci /\ d.init = c.init
        /\ d.down = c.down /\ d.appl = c.appl /\ d.thr = c.thr
    BY <1>1, <1>2, <2>1, NamesHold, ZenonT(40) DEF NamesAreIn, Typed, Shaped, Same, SameCall, SameWish,
       SameFax
  <2>3. msg.id \in Plcis
    BY <1>3 DEF Messages
  <2>4. Typed(d)
    BY <1>1, <2>2, <2>3 DEF Typed, LineTyped, CallTyped, FaxTyped, Same, SameCall, SameWish,
       SameFax, CallStates
  <2>5. ThreadFits(d) /\ IdsFit(d)
    BY <1>1, <1>2, <1>3, <2>2, <2>3 DEF ThreadFits, IdsFit, CallStates, IdleStates
  <2>6. AskFits(d) /\ NoDial(d.down)
    BY <1>1, <2>2 DEF AskFits, NoDial
  <2>7. Owned(c) => OwnerFits(d)
    BY <1>2, <2>2 DEF Owned, OwnerFits, CallStates, Same, SameCall
  <2>8. ~Idle(c)
    BY <1>2 DEF Idle
  <2>9. Turn(c, d)
    BY <1>2, <2>2, <2>4, <2>5, <2>6, <2>7, <2>8, LineTurn
  <2>10. Opens(c, d)
    BY <2>2, CalmSame DEF Opens, Opening, Joined, Same, SameCall, SameFax
  <2> QED
    BY <2>2, <2>6, <2>9, <2>10 DEF Moves
<1>4. CASE ~msg.ok
  <2> DEFINE e == [c EXCEPT !.init = FALSE, !.cs = "Registered"]
  <2>1. d = DisconnectInd(e)
    BY <1>4 DEF CONNECT_CONF
  <2>2. /\ Shaped(e) /\ Same(c, e) /\ e.init = FALSE /\ e.cs = "Registered"
        /\ e.plci = c.plci /\ e.ncci = c.ncci /\ e.timer = c.timer
        /\ e.down = c.down /\ e.appl = c.appl /\ e.thr = c.thr
    BY <1>1, NamesHold DEF NamesAreIn, Typed, Shaped, Same, SameCall, SameWish, SameFax
  <2> HIDE DEF e
  <2>3. Typed(e)
    BY <1>1, <2>2 DEF Typed, LineTyped, CallTyped, FaxTyped, Same, SameCall, SameWish,
       SameFax, IdleStates
  <2>4. e.inuse = 0 /\ e.active /\ ~e.ddi /\ ~e.msn /\ "RESET" \notin e.flags
    BY <1>1, <1>2, <2>2 DEF Same, SameCall, SameWish
  <2>5. /\ Ended(e, d) /\ d.quit = e.quit /\ ~d.msn
        /\ "RESET" \in d.flags /\ d.resets = e.resets /\ GivesUp(e, d)
    BY <1>2, <2>1, <2>2, <2>3, <2>4, SendCallEnds
  <2>6. AskFits(e) /\ NoDial(e.down) /\ e.timer = "none"
    BY <1>1, <1>2, <2>2 DEF AskFits, NoDial
  <2>7. ThreadFits(d) /\ IdsFit(d) /\ AskFits(d)
    BY <2>3, <2>5, <2>6, GivesUpFits
  <2>8. d.msn = FALSE /\ d.cs = "Releasing" /\ d.plci = 0 /\ d.down = c.down
    BY <2>2, <2>5 DEF GivesUp, Ended, Typed, CallTyped
  <2>9. Turn(c, d) /\ Onward(c, d)
    BY <1>2, <2>2, <2>5, <2>7, <2>8, CallOverTurn, CalmSame DEF Same
  <2> QED
    BY <2>6, <2>8, <2>9 DEF Moves, NoDial
<1> QED
  BY <1>3, <1>4

(* CONNECT_B3_CONF.                                                        *)
LEMMA ConnectB3ConfTurn ==
  ASSUME NEW c, Fits(c), NEW msg \in Messages(Reports), msg.id # 0,
         NEW d, d = CONNECT_B3_CONF(c, msg)
  PROVE  TurnDial(c, d) /\ d.plci = c.plci /\ Moves(c, d)
<1>1. Typed(c) /\ c.inuse = 0 /\ ThreadFits(c) /\ CallFits(c) /\ FaxFits(c)
      /\ IdsFit(c) /\ AskFits(c) /\ msg.id \in Plcis
  BY DEF Fits, Messages
<1>2. CASE msg.ok /\ msg.id = c.plci /\ c.cs = "D_Connected"
  <2>1. d = [c EXCEPT !.cs = "B_ConnectPending", !.ncci = msg.id]
    BY <1>2 DEF CONNECT_B3_CONF
  <2>2. /\ Shaped(d) /\ Same(c, d) /\ d.plci = c.plci /\ d.cs = "B_ConnectPending"
        /\ d.timer = c.timer /\ d.ncci = c.plci /\ d.init = c.init
        /\ d.down = c.down /\ d.appl = c.appl /\ d.thr = c.thr
    BY <1>1, <1>2, <2>1, NamesHold, ZenonT(40) DEF NamesAreIn, Typed, Shaped, Same, SameCall, SameWish,
       SameFax
  <2>3. Typed(d)
    BY <1>1, <2>2 DEF Typed, LineTyped, CallTyped, FaxTyped, Same, SameCall, SameWish,
       SameFax, CallStates
  <2>4. ThreadFits(d) /\ IdsFit(d)
    BY <1>1, <1>2, <2>2 DEF ThreadFits, IdsFit, CallStates, IdleStates
  <2>5. AskFits(d)
    BY <1>1, <1>2, <2>2 DEF AskFits
  <2>6. Owned(c) => OwnerFits(d)
    BY <1>2, <2>2 DEF Owned, OwnerFits, CallStates, Same, SameCall
  <2>7. ~Idle(c) /\ "RESET" \notin c.flags /\ (App = "send" => c.active)
        /\ (App = "recv" => c.init = FALSE)
    BY <1>1, <1>2 DEF Idle, CallFits, CallStates, Typed, LineTyped
  <2>8. c.sending => c.thr \in {"run", "late"}
    BY <1>1 DEF FaxFits
  <2>9. Turn(c, d)
    BY <2>2, <2>3, <2>4, <2>5, <2>6, <2>7, <2>8, LineTurn
  <2>10. Opens(c, d)
    BY <1>2, <2>2, CalmSame DEF Opens, Opening, Joined, Same, SameCall, SameFax
  <2> QED
    BY <1>2, <2>2, <2>9, <2>10 DEF TurnDial, KeepsDial, Moves
<1>3. CASE ~(msg.ok /\ msg.id = c.plci /\ c.cs = "D_Connected")
  <2>1. d = Put(c, Msg("DISCONNECT_REQ", msg.id))
    BY <1>3 DEF CONNECT_B3_CONF
  <2>2. Plain(Msg("DISCONNECT_REQ", msg.id)) /\ ~IsData(Msg("DISCONNECT_REQ", msg.id))
    BY <1>1, PlainMessages
  <2> QED
    BY <2>1, <2>2, PutTurn DEF TurnDial, SameState, Moves
<1> QED
  BY <1>2, <1>3

(* DISCONNECT_B3_CONF.                                                     *)
LEMMA DisconnectB3ConfTurn ==
  ASSUME NEW c, Fits(c), NEW msg \in Messages(Reports), msg.id # 0,
         NEW d, d = DISCONNECT_B3_CONF(c, msg)
  PROVE  TurnDial(c, d) /\ d.plci = c.plci /\ Onward(c, d)
<1>1. Plain(Msg("DISCONNECT_REQ", msg.id)) /\ ~IsData(Msg("DISCONNECT_REQ", msg.id))
  BY PlainMessages DEF Messages
<1>2. d = c \/ d = Put(c, Msg("DISCONNECT_REQ", msg.id))
  BY DEF DISCONNECT_B3_CONF
<1> QED
  BY <1>1, <1>2, PutTurn, TurnsNot, NothingOnward DEF TurnDial, SameState

(* Release, in a state of a call.                                          *)
LEMMA ReleaseTurn ==
  ASSUME NEW c, Fits(c), App = "send", ~Prompt,
         c.cs \in CallStates \ {"D_ConnectRequest"},
         NEW d, d = Release([c EXCEPT !.timer = "none"])
  PROVE  TurnDial(c, d) /\ d.plci = 0 /\ Onward(c, d)
<1> DEFINE e == [c EXCEPT !.timer = "none"]
<1>1. Typed(c) /\ c.inuse = 0 /\ ThreadFits(c) /\ CallFits(c) /\ FaxFits(c)
      /\ IdsFit(c) /\ AskFits(c)
  BY DEF Fits
<1>2. /\ Shaped(e) /\ Same(c, e) /\ SameIds(c, e) /\ e.cs = c.cs /\ e.timer = "none"
      /\ e.down = c.down
  BY <1>1, NamesHold DEF NamesAreIn, Typed, Shaped, Same, SameCall, SameWish, SameFax, SameIds
<1> HIDE DEF e
<1>3. Typed(e)
  BY <1>1, <1>2 DEF Typed, LineTyped, CallTyped, FaxTyped, Same, SameCall, SameWish,
     SameFax, SameIds
<1>4. d = Release(e) /\ e.cs \notin {"Released", "Registering", "Releasing"}
  BY <1>2 DEF e, CallStates
<1>5. /\ Typed(d) /\ d.inuse = e.inuse /\ d.capi = e.capi
      /\ GivesUp(e, d) /\ SameCall(e, d) /\ SameWish(e, d) /\ SameFax(e, d)
  BY <1>3, <1>4, ReleaseIs
<1>6. Same(c, d)
  BY <1>2, <1>5 DEF Same, SameCall, SameWish, SameFax
<1>7. AskFits(e) /\ NoDial(e.down)
  BY <1>1, <1>2, <1>4 DEF AskFits, NoDial
<1>8. ThreadFits(d) /\ IdsFit(d) /\ AskFits(d)
  BY <1>2, <1>3, <1>5, <1>7, GivesUpFits
<1>9. d.cs = "Releasing" /\ d.plci = 0
  BY <1>5 DEF GivesUp
<1>10. c.sending => d.thr \in {"run", "late"}
  BY <1>1, <1>2, <1>5 DEF FaxFits, GivesUp, SameIds
<1>11. Turn(c, d)
  BY <1>5, <1>6, <1>8, <1>9, <1>10, LineTurn DEF CallStates
<1>12. d.down = c.down /\ d.ncci = 0
  BY <1>2, <1>5 DEF GivesUp
<1>13. Onward(c, d)
  BY <1>6, <1>9, <1>12, CalmSame
     DEF Onward, LineOnward, StateOnward, CallOnward, Same, SameCall, SameFax, IdleStates
<1> QED
  BY <1>9, <1>11, <1>13 DEF TurnDial, KeepsDial

(* DISCONNECT_CONF.                                                        *)
LEMMA DisconnectConfTurn ==
  ASSUME NEW c, Fits(c), App = "send" \/ Prompt, NEW msg, msg.id # 0,
         Prompt /\ ~msg.ok => msg.id # c.plci,
         NEW d, d = DISCONNECT_CONF(c, msg)
  PROVE  TurnDial(c, d) /\ d.plci \in {0, c.plci} /\ Onward(c, d)
<1>1. CASE ~(msg.id = c.plci /\ ~msg.ok)
  BY <1>1, TurnsNot, NothingOnward DEF DISCONNECT_CONF
<1>2. CASE msg.id = c.plci /\ ~msg.ok
  <2>1. App = "send" /\ ~Prompt /\ d = Release([c EXCEPT !.timer = "none"])
    BY <1>2 DEF DISCONNECT_CONF
  <2>2. c.cs \in CallStates \ {"D_ConnectRequest"}
    BY <1>2 DEF Fits, IdsFit, Typed, LineTyped
  <2> QED
    BY <2>1, <2>2, ReleaseTurn
<1> QED
  BY <1>1, <1>2

(* LISTEN_CONF.                                                            *)
LEMMA ListenConfTurn ==
  ASSUME NEW c, Fits(c), App = "recv", OwnerFits(c), NEW msg, NEW d, d = LISTEN_CONF(c, msg)
  PROVE  TurnDial(c, d) /\ d.plci \in {0, c.plci} /\ Onward(c, d)
<1>1. c.cs # "D_ConnectRequest"
  BY DEF Fits, CallFits
<1>2. d = c \/ d = StopReceive(c)
  BY DEF LISTEN_CONF
<1> QED
  BY <1>1, <1>2, StopTurn, TurnsNot, NothingOnward DEF TurnDial, KeepsDial

(* IncomingCall: the channel takes the call that is announced.             *)
LEMMA IncomingCallTurn ==
  ASSUME NEW c, Fits(c), App = "recv", c.cs = "D_ConnectIndication", c.msn,
         c.active => c.ddi \/ c.phase = "unseen", NEW d, d = IncomingCall(c)
  PROVE  Turn(c, d) /\ (BlockFits(c) => Owned(d)) /\ d.plci = c.plci /\ Opens(c, d)
<1> DEFINE e == [c EXCEPT !.cs = "D_ConnectPending", !.active = TRUE, !.ddi = FALSE]
           p == Put(e, Msg("CONNECT_RESP", c.plci))
<1>1. Typed(c) /\ c.inuse = 0 /\ ThreadFits(c) /\ CallFits(c) /\ FaxFits(c)
      /\ IdsFit(c) /\ AskFits(c)
  BY DEF Fits
<1>2. c.plci \in Plcis /\ c.plci # 0 /\ c.ncci = 0 /\ c.timer = "none" /\ c.init = FALSE
      /\ "RESET" \notin c.flags /\ c.phase \in {"idle", "unseen"}
  BY <1>1 DEF IdsFit, CallFits, Typed, LineTyped, CallStates, IdleStates
<1>3. /\ Shaped(e) /\ SameIds(c, e) /\ SameWish(c, e) /\ SameFax(c, e)
      /\ e.inuse = 0 /\ e.capi = c.capi
      /\ e.cs = "D_ConnectPending" /\ e.active = TRUE /\ e.ddi = FALSE
      /\ e.phase = c.phase /\ e.begun = c.begun /\ e.timer = c.timer /\ e.down = c.down
  BY <1>1, NamesHold DEF NamesAreIn, Typed, Shaped, SameIds, SameWish, SameFax
<1>4. d = CallBegins(p)
  BY DEF IncomingCall
<1> HIDE DEF e
<1>5. Typed(e) /\ AskFits(e)
  <2>1. Typed(e)
    BY <1>1, <1>3 DEF Typed, LineTyped, CallTyped, FaxTyped, SameIds, SameWish, SameFax,
       CallStates
  <2>2. AskFits(e)
    BY <1>1, <1>3 DEF AskFits
  <2> QED
    BY <2>1, <2>2
<1>6. Plain(Msg("CONNECT_RESP", c.plci)) /\ ~IsData(Msg("CONNECT_RESP", c.plci))
  BY <1>2, PlainMessages
<1>7. Msg("CONNECT_RESP", c.plci) \in Messages(Requests)
  BY <1>6 DEF Plain
<1>8. /\ Typed(p) /\ Same(e, p) /\ SameState(e, p)
      /\ Puts(e, p, Msg("CONNECT_RESP", c.plci))
  BY <1>5, <1>7, PutIs
<1> HIDE DEF p
<1>9. AskFits(p)
  BY <1>5, <1>6, <1>8, AskPut DEF Puts, SameState
<1>10. /\ Shaped(d) /\ SameLine(p, d) /\ SameWish(p, d) /\ SameFax(p, d)
       /\ d.inuse = p.inuse /\ d.capi = p.capi /\ d.active = p.active /\ d.ddi = p.ddi
       /\ d.begun = p.begun + 1
       /\ d.phase = IF p.phase \in {"idle", "unseen"} THEN "setup" ELSE "error"
  <2>1. Shaped(p)
    BY <1>8 DEF Typed
  <2>2. /\ Shaped(d) /\ d.inuse = p.inuse /\ d.capi = p.capi
        /\ d.active = p.active /\ d.ddi = p.ddi /\ d.begun = p.begun + 1
        /\ d.phase = IF p.phase \in {"idle", "unseen"} THEN "setup" ELSE "error"
    BY <1>4, <2>1, NamesHold DEF NamesAreIn, CallBegins, Shaped
  <2>3. SameLine(p, d) /\ SameWish(p, d) /\ SameFax(p, d)
    BY <1>4, <2>1, NamesHold DEF NamesAreIn, CallBegins, Shaped, SameLine, SameWish, SameFax
  <2> QED
    BY <2>2, <2>3
<1>11. Typed(d)
  BY <1>8, <1>10 DEF Typed, LineTyped, CallTyped, FaxTyped, SameLine, SameWish, SameFax
<1>12. /\ d.cs = "D_ConnectPending" /\ SameIds(c, d) /\ d.timer = c.timer
       /\ SameWish(c, d) /\ SameFax(c, d) /\ d.inuse = 0
       /\ d.active = TRUE /\ d.ddi = FALSE /\ d.phase = "setup"
  BY <1>2, <1>3, <1>8, <1>10 DEF SameLine, SameState, Same, SameIds, SameCall, SameWish, SameFax
<1>13. AskFits(d)
  BY <1>9, <1>10 DEF AskFits, SameLine
<1>14. ThreadFits(d) /\ IdsFit(d)
  BY <1>1, <1>2, <1>12 DEF ThreadFits, IdsFit, SameIds, CallStates, IdleStates
<1>15. CallFits(d) /\ FaxFits(d)
  BY <1>1, <1>2, <1>12 DEF CallFits, FaxFits, SameIds, SameWish, SameFax
<1>16. OwnerFits(d) /\ (BlockFits(c) => BlockFits(d))
  BY <1>2, <1>12 DEF OwnerFits, BlockFits, SameIds, SameFax, CallStates
<1>17. Answers(c, d) /\ Sticks(c, d)
  BY <1>2, <1>12 DEF Answers, Sticks, SameWish
<1>18. Calm(c.down, d.down)
  <2> DEFINE msg == Msg("CONNECT_RESP", c.plci)
  <2>0. /\ Typed(e) /\ Plain(msg) /\ ~IsData(msg)
        /\ p.down = e.down \/ p.down = Append(e.down, msg)
    BY <1>5, <1>6, <1>8 DEF Puts
  <2> HIDE DEF msg
  <2>1. Calm(e.down, p.down)
    BY <2>0, CalmPut
  <2>2. e.down = c.down /\ d.down = p.down
    BY <1>3, <1>10 DEF SameLine
  <2> QED
    BY <2>1, <2>2
<1>19. d.begun = c.begun + 1
  BY <1>3, <1>8, <1>10 DEF Same, SameCall
<1>20. Opens(c, d)
  BY <1>2, <1>12, <1>18, <1>19 DEF Opens, Opening, Joined, SameIds, SameFax
<1> QED
  BY <1>11, <1>12, <1>13, <1>14, <1>15, <1>16, <1>17, <1>20 DEF Turn, Fits, Owned, SameIds

(* INFO_IND.                                                               *)
LEMMA InfoIndTurn ==
  ASSUME NEW c, Fits(c), App = "send" \/ (Prompt /\ OwnerFits(c)), NEW msg,
         NEW complete \in BOOLEAN, NEW claimed \in {FALSE, OtherClaims},
         NEW d, d = INFO_IND(c, msg, complete, claimed)
  PROVE  TurnDial(c, d) /\ d.plci = c.plci /\ Moves(c, d)
<1>1. CASE d = c
  BY <1>1, TurnsNot, NothingOnward DEF Moves
<1>2. CASE d # c
  <2>1. c.cs = "D_ConnectIndication" /\ c.msn
        /\ d = IF claimed THEN HangUp(c, FALSE) ELSE IncomingCall(c)
    BY <1>2 DEF INFO_IND
  <2>2. App = "recv" /\ OwnerFits(c)
    BY <2>1, ChannelAssumption DEF Fits, CallFits
  <2>3. c.ddi \/ c.phase = "unseen"
    BY <2>1, <2>2 DEF OwnerFits
  <2>4. CASE claimed
    BY <2>1, <2>4, HangUpTurn DEF HungUp, CallStates, Moves
  <2>5. CASE ~claimed
    BY <2>1, <2>2, <2>3, <2>5, IncomingCallTurn DEF TurnDial, KeepsDial, Moves
  <2> QED
    BY <2>4, <2>5
<1> QED
  BY <1>1, <1>2

(* CONNECT_IND.                                                            *)
LEMMA ConnectIndTurn ==
  ASSUME NEW c, Fits(c), App = "send" \/ (Prompt /\ Owned(c)),
         NEW msg \in Messages(Reports), msg.id # 0, NEW found,
         NEW claimed \in {FALSE, OtherClaims},
         NEW d, d = CONNECT_IND(c, msg, found, claimed)
  PROVE  TurnDial(c, d) /\ d.plci \in {c.plci, 0, msg.id} /\ Moves(c, d)
<1> DEFINE e == [c EXCEPT !.cs = "D_ConnectIndication", !.plci = msg.id]
           a == [e EXCEPT !.active = TRUE, !.ddi = TRUE]
           b == [e EXCEPT !.active = TRUE, !.phase = "unseen"]
<1>1. Typed(c) /\ c.inuse = 0 /\ ThreadFits(c) /\ CallFits(c) /\ FaxFits(c)
      /\ IdsFit(c) /\ AskFits(c) /\ msg.id \in Plcis
  BY DEF Fits, Messages
<1>2. CASE c.cs # "Registered"
  <2>1. Plain(No("CONNECT_RESP", msg.id)) /\ ~IsData(No("CONNECT_RESP", msg.id))
    BY <1>1, PlainMessages
  <2>2. d = Put(c, No("CONNECT_RESP", msg.id))
    BY <1>2 DEF CONNECT_IND
  <2> QED
    BY <2>1, <2>2, PutTurn DEF TurnDial, SameState, Moves
<1>3. /\ Shaped(e) /\ Same(c, e) /\ e.cs = "D_ConnectIndication" /\ e.plci = msg.id
      /\ e.ncci = c.ncci /\ e.init = c.init /\ e.timer = c.timer
      /\ e.appl = c.appl /\ e.thr = c.thr /\ e.down = c.down
  BY <1>1, NamesHold DEF NamesAreIn, Typed, Shaped, Same, SameCall, SameWish, SameFax
<1>4. CASE c.cs = "Registered"
  <2>1. Typed(e)
    BY <1>1, <1>3 DEF Typed, LineTyped, CallTyped, FaxTyped, Same, SameCall, SameWish,
       SameFax, CallStates
  <2>2. c.ncci = 0 /\ c.init = FALSE /\ c.timer = "none" /\ c.plci = 0
    BY <1>1, <1>4 DEF IdsFit, CallStates, Typed, LineTyped, IdleStates
  <2>3. CASE ~c.msn \/ found = "reject"
    <3> DEFINE p == Put(e, No("CONNECT_RESP", e.plci))
    <3>1. d = [ResetValues(p) EXCEPT !.cs = "Registered"]
      BY <1>4, <2>3 DEF CONNECT_IND, Reject
    <3> HIDE DEF e
    <3>2. /\ Plain(No("CONNECT_RESP", e.plci)) /\ No("CONNECT_RESP", e.plci) \in Messages(Requests)
          /\ ~IsData(No("CONNECT_RESP", e.plci))
      BY <1>1, <1>3, PlainMessages DEF Plain
    <3>3. Typed(p) /\ Same(e, p) /\ SameState(e, p) /\ Puts(e, p, No("CONNECT_RESP", e.plci))
      BY <2>1, <3>2, PutIs
    <3> HIDE DEF p
    <3>4. /\ Shaped(d) /\ Same(p, d) /\ d.cs = "Registered" /\ d.plci = 0 /\ d.ncci = 0
          /\ d.init = FALSE /\ d.timer = p.timer /\ d.appl = p.appl /\ d.thr = p.thr
          /\ d.down = p.down
      BY ZenonT(60), <3>1, <3>3, NamesHold DEF NamesAreIn, ResetValues, Typed, Shaped, Same, SameCall,
         SameWish, SameFax
    <3>5. Typed(d)
      BY <3>3, <3>4 DEF Typed, LineTyped, CallTyped, FaxTyped, Same, SameCall, SameWish,
         SameFax, IdleStates
    <3>6. AskFits(e)
      BY <1>1, <1>3, <1>4 DEF AskFits
    <3>7. AskFits(p)
      BY <1>3, <2>1, <3>2, <3>3, <3>6, AskPut DEF Puts, SameState
    <3>8. AskFits(d)
      BY <1>3, <3>3, <3>4, <3>7 DEF AskFits, SameState
    <3>9. /\ Same(c, d) /\ d.timer = c.timer /\ d.appl = c.appl /\ d.thr = c.thr
      BY <1>3, <3>3, <3>4 DEF Same, SameState, SameCall, SameWish, SameFax
    <3>10. ThreadFits(d) /\ IdsFit(d)
      BY <1>1, <1>4, <2>2, <3>4, <3>9 DEF ThreadFits, IdsFit, CallStates, IdleStates
    <3>11. Owned(c) => OwnerFits(d)
      BY <1>4, <3>4, <3>9 DEF Owned, OwnerFits, Same, SameCall, SameFax, CallStates
    <3>12. ~Idle(c) /\ (App = "send" => ~c.active)
           /\ ("RESET" \in c.flags => App = "recv" /\ ~c.active)
           /\ (c.sending => c.thr \in {"run", "late"})
      BY <1>1, <1>4 DEF Idle, CallFits, FaxFits
    <3>13. Turn(c, d)
      BY <3>4, <3>5, <3>8, <3>9, <3>10, <3>11, <3>12, LineTurn DEF CallStates
    <3>14. Calm(c.down, d.down)
      BY <1>3, <2>1, <3>2, <3>3, <3>4, CalmPut DEF Puts
    <3>15. Onward(c, d)
      BY <1>4, <3>4, <3>9, <3>14 DEF Onward, LineOnward, StateOnward, CallOnward, Same, SameCall,
         SameFax, IdleStates, Joined
    <3> QED
      BY <1>4, <3>4, <3>13, <3>15 DEF TurnDial, KeepsDial, Moves
  <2>4. CASE c.msn /\ found # "reject"
    <3>1. App = "recv" /\ Owned(c) /\ ~c.active /\ "RESET" \notin c.flags /\ ~c.ddi
          /\ c.phase = "idle" /\ ~c.sending
      BY <1>1, <1>4, <2>4, ChannelAssumption
         DEF CallFits, FaxFits, Owned, OwnerFits, CallStates
    <3>2. Fits(e)
      <4>1. ThreadFits(e) /\ IdsFit(e) /\ AskFits(e)
        BY <1>1, <1>3, <1>4, <2>2 DEF ThreadFits, IdsFit, AskFits, CallStates, IdleStates
      <4>2. CallFits(e) /\ FaxFits(e)
        BY <1>1, <1>3, <3>1 DEF CallFits, FaxFits, Same, SameCall, SameWish, SameFax
      <4> QED
        BY <1>1, <1>3, <2>1, <4>1, <4>2 DEF Fits, Same
    <3>3. BlockFits(e)
      BY <1>3, <3>1 DEF Owned, BlockFits, Same, SameCall, SameFax
    <3>4. CASE found = "ddi"
      <4>1. d = a
        BY <1>4, <2>4, <3>4 DEF CONNECT_IND
      <4> HIDE DEF e
      <4>2. /\ Shaped(a) /\ SameLine(e, a) /\ SameWish(e, a) /\ SameFax(e, a)
            /\ a.inuse = e.inuse /\ a.capi = e.capi
            /\ a.active = TRUE /\ a.ddi = TRUE /\ a.phase = e.phase /\ a.begun = e.begun
        BY <2>1, NamesHold DEF NamesAreIn, Typed, Shaped, SameLine, SameWish, SameFax
      <4> HIDE DEF a
      <4>3. Typed(a)
        BY <2>1, <4>2 DEF Typed, LineTyped, CallTyped, FaxTyped, SameLine, SameWish, SameFax
      <4>4. ThreadFits(a) /\ IdsFit(a) /\ AskFits(a)
        BY <3>2, <4>2 DEF Fits, ThreadFits, IdsFit, AskFits, SameLine
      <4>5. CallFits(a) /\ FaxFits(a) /\ a.inuse = 0
        BY <1>3, <3>1, <3>2, <4>2 DEF Fits, CallFits, FaxFits, SameLine, SameWish, SameFax, Same,
           SameCall
      <4>6. OwnerFits(a) /\ BlockFits(a)
        BY <1>3, <2>2, <3>3, <4>2 DEF OwnerFits, BlockFits, SameLine, SameFax, CallStates
      <4>7. Answers(c, a) /\ Sticks(c, a)
        BY <1>3, <3>1, <4>2 DEF Answers, Sticks, Same, SameWish
      <4>8. Opens(c, a)
        BY <1>3, <1>4, <3>1, <4>2, CalmSame DEF Opens, Joined, Same, SameCall, SameFax, SameLine
      <4> QED
        BY <1>3, <1>4, <4>1, <4>2, <4>3, <4>4, <4>5, <4>6, <4>7, <4>8
           DEF Moves, TurnDial, Turn, KeepsDial, Fits, Owned, SameLine
    <3>7. CASE found = "bare"
      <4>1. d = b
        BY <1>4, <2>4, <3>7 DEF CONNECT_IND
      <4> HIDE DEF e
      <4>2. /\ Shaped(b) /\ SameLine(e, b) /\ SameWish(e, b) /\ SameFax(e, b)
            /\ b.inuse = e.inuse /\ b.capi = e.capi
            /\ b.active = TRUE /\ b.ddi = e.ddi /\ b.phase = "unseen" /\ b.begun = e.begun
        BY <2>1, NamesHold DEF NamesAreIn, Typed, Shaped, SameLine, SameWish, SameFax
      <4> HIDE DEF b
      <4>3. Typed(b)
        BY <2>1, <4>2 DEF Typed, LineTyped, CallTyped, FaxTyped, SameLine, SameWish, SameFax
      <4>4. ThreadFits(b) /\ IdsFit(b) /\ AskFits(b)
        BY <3>2, <4>2 DEF Fits, ThreadFits, IdsFit, AskFits, SameLine
      <4>5. CallFits(b) /\ FaxFits(b) /\ b.inuse = 0
        BY <1>3, <3>1, <3>2, <4>2 DEF Fits, CallFits, FaxFits, SameLine, SameWish, SameFax, Same,
           SameCall
      <4>6. OwnerFits(b) /\ BlockFits(b)
        BY <1>3, <2>2, <3>1, <3>3, <4>2
           DEF OwnerFits, BlockFits, SameLine, SameFax, Same, SameCall, CallStates
      <4>7. Answers(c, b) /\ Sticks(c, b)
        BY <1>3, <3>1, <4>2 DEF Answers, Sticks, Same, SameWish
      <4>8. Opens(c, b)
        BY <1>3, <1>4, <3>1, <4>2, CalmSame DEF Opens, Joined, Same, SameCall, SameFax, SameLine
      <4> QED
        BY <1>3, <1>4, <4>1, <4>2, <4>3, <4>4, <4>5, <4>6, <4>7, <4>8
           DEF Moves, TurnDial, Turn, KeepsDial, Fits, Owned, SameLine
    <3>5. CASE found \notin {"ddi", "bare"} /\ claimed
      <4>1. d = HangUp(e, FALSE)
        BY <1>4, <2>4, <3>5 DEF CONNECT_IND
      <4> HIDE DEF e
      <4>2. TurnDial(e, d) /\ Same(e, d) /\ HungUp(e, d)
        BY <1>3, <3>2, <4>1, HangUpTurn DEF CallStates
      <4>3. d.cs = "D_DisconnectPending"
        BY <1>3, <2>1, <3>2, <4>1, HangUpIs DEF Fits, CallStates
      <4>4. OwnerFits(d)
        BY <1>3, <2>2, <3>1, <3>5, <4>2, <4>3
           DEF OwnerFits, HungUp, Same, SameCall, CallStates
      <4>5. BlockFits(d)
        BY <3>3, <4>2 DEF BlockFits, Same, SameCall, SameFax
      <4>6. Answers(c, d) /\ Sticks(c, d)
        BY <1>3, <3>1, <4>2 DEF Answers, Sticks, Same, SameWish
      <4>7. Onward(c, d)
        BY <1>3, <1>4, <4>2, <4>3 DEF Onward, LineOnward, StateOnward, CallOnward, HungUp, Same,
           SameCall, SameFax, Joined
      <4> QED
        BY <1>3, <1>4, <4>2, <4>4, <4>5, <4>6, <4>7 DEF Moves, TurnDial, Turn, KeepsDial, Owned, HungUp
    <3>6. CASE found \notin {"ddi", "bare"} /\ ~claimed
      <4>1. d = IncomingCall(e)
        BY <1>4, <2>4, <3>6 DEF CONNECT_IND
      <4>2. ~e.active /\ e.msn
        BY <1>3, <2>4, <3>1 DEF Same, SameCall, SameWish
      <4> HIDE DEF e
      <4>3. Turn(e, d) /\ Owned(d) /\ d.plci = e.plci /\ Opens(e, d)
        BY <1>3, <3>1, <3>2, <3>3, <4>1, <4>2, IncomingCallTurn
      <4>4. Answers(c, d) /\ Sticks(c, d)
        BY <1>3, <3>1, <4>3 DEF Turn, Answers, Sticks, Same, SameWish
      <4>5. Opens(c, d)
        BY <1>3, <1>4, <3>1, <4>3 DEF Opens, Joined, Same, SameCall, SameFax
      <4> QED
        BY <1>3, <1>4, <4>3, <4>4, <4>5 DEF TurnDial, Turn, KeepsDial, Moves
    <3> QED
      BY <3>4, <3>5, <3>6, <3>7
  <2> QED
    BY <2>3, <2>4
<1> QED
  BY <1>2, <1>4

(* CONNECT_ACTIVE_IND.                                                     *)
LEMMA ConnectActiveIndTurn ==
  ASSUME NEW c, Fits(c), NEW msg \in Messages(Reports), msg.id # 0,
         NEW d, d = CONNECT_ACTIVE_IND(c, msg)
  PROVE  TurnDial(c, d) /\ d.plci = c.plci /\ Moves(c, d)
<1> DEFINE e == [c EXCEPT !.cs = "D_Connected", !.timer = "bchannel", !.init = FALSE]
<1>1. Typed(c) /\ c.inuse = 0 /\ ThreadFits(c) /\ CallFits(c) /\ FaxFits(c)
      /\ IdsFit(c) /\ AskFits(c) /\ msg.id \in Plcis
  BY DEF Fits, Messages
<1>2. CASE msg.id # c.plci \/ c.cs # "D_ConnectPending"
  <2>1. Plain(Msg("DISCONNECT_REQ", msg.id)) /\ ~IsData(Msg("DISCONNECT_REQ", msg.id))
    BY <1>1, PlainMessages
  <2> QED
    BY <1>2, <2>1, PutTurn DEF CONNECT_ACTIVE_IND, TurnDial, SameState, Moves
<1>3. CASE msg.id = c.plci /\ c.cs = "D_ConnectPending"
  <2>1. d = e \/ d = Put(e, Msg("CONNECT_B3_REQ", c.plci))
    BY <1>3 DEF CONNECT_ACTIVE_IND
  <2>2. /\ Shaped(e) /\ Same(c, e) /\ e.cs = "D_Connected" /\ e.plci = c.plci
        /\ e.ncci = c.ncci /\ e.init = FALSE /\ e.timer = "bchannel"
        /\ e.appl = c.appl /\ e.thr = c.thr /\ e.down = c.down
    BY <1>1, NamesHold DEF NamesAreIn, Typed, Shaped, Same, SameCall, SameWish, SameFax
  <2> HIDE DEF e
  <2>3. Typed(e)
    BY <1>1, <2>2 DEF Typed, LineTyped, CallTyped, FaxTyped, Same, SameCall, SameWish,
       SameFax, CallStates
  <2>4. AskFits(e)
    BY <1>1, <1>3, <2>2 DEF AskFits
  <2>5. ThreadFits(e) /\ IdsFit(e)
    BY <1>1, <1>3, <2>2 DEF ThreadFits, IdsFit, CallStates, IdleStates
  <2>6. Owned(c) => OwnerFits(e)
    BY <1>3, <2>2 DEF Owned, OwnerFits, Same, SameCall, CallStates
  <2>7. /\ ~Idle(c) /\ (App = "send" => c.active) /\ "RESET" \notin c.flags
        /\ (c.sending => c.thr \in {"run", "late"})
    BY <1>1, <1>3 DEF Idle, CallFits, FaxFits, CallStates
  <2>8. Turn(c, e)
    BY <2>2, <2>3, <2>4, <2>5, <2>6, <2>7, LineTurn
  <2>9. TurnDial(c, e) /\ Fits(e)
    BY <1>3, <2>8 DEF TurnDial, Turn, KeepsDial
  <2>10. Plain(Msg("CONNECT_B3_REQ", c.plci)) /\ ~IsData(Msg("CONNECT_B3_REQ", c.plci))
    BY <1>1, <1>3, PlainMessages
  <2>11. TurnDial(e, d) /\ Onward(e, d) /\ Same(e, d) /\ SameState(e, d)
    BY <2>1, <2>9, <2>10, PutTurn, TurnsNot, NothingOnward
       DEF TurnDial, SameState, Same, SameCall, SameWish, SameFax
  <2>12. TurnDial(c, d)
    BY <2>2, <2>9, <2>11, TurnJoins DEF Same, SameCall, SameWish
  <2>13. Opens(c, d)
    BY <1>3, <2>2, <2>11 DEF Onward, LineOnward, Opens, Opening, Joined, Same, SameCall, SameFax,
       SameState
  <2> QED
    BY <2>2, <2>11, <2>12, <2>13 DEF Moves, SameState
<1> QED
  BY <1>2, <1>3

(* CONNECT_B3_IND.                                                         *)
LEMMA ConnectB3IndTurn ==
  ASSUME NEW c, Fits(c), NEW msg \in Messages(Reports), msg.id # 0,
         NEW d, d = CONNECT_B3_IND(c, msg)
  PROVE  TurnDial(c, d) /\ d.plci = c.plci /\ Moves(c, d)
<1> DEFINE e == [c EXCEPT !.cs = "B_ConnectPending", !.ncci = msg.id]
<1>1. Typed(c) /\ c.inuse = 0 /\ ThreadFits(c) /\ CallFits(c) /\ FaxFits(c)
      /\ IdsFit(c) /\ AskFits(c) /\ msg.id \in Plcis
  BY DEF Fits, Messages
<1>2. /\ Plain(No("CONNECT_B3_RESP", msg.id)) /\ Plain(Msg("CONNECT_B3_RESP", msg.id))
      /\ ~IsData(No("CONNECT_B3_RESP", msg.id)) /\ ~IsData(Msg("CONNECT_B3_RESP", msg.id))
  BY <1>1, PlainMessages
<1>3. CASE msg.id # c.plci \/ c.cs # "D_Connected"
  BY <1>2, <1>3, PutTurn DEF CONNECT_B3_IND, TurnDial, SameState, Moves
<1>4. CASE msg.id = c.plci /\ c.cs = "D_Connected"
  <2>1. d = Put(e, Msg("CONNECT_B3_RESP", msg.id))
    BY <1>4 DEF CONNECT_B3_IND
  <2>2. /\ Shaped(e) /\ Same(c, e) /\ e.cs = "B_ConnectPending" /\ e.plci = c.plci
        /\ e.ncci = c.plci /\ e.init = c.init /\ e.timer = c.timer
        /\ e.appl = c.appl /\ e.thr = c.thr /\ e.down = c.down
    BY <1>1, <1>4, NamesHold DEF NamesAreIn, Typed, Shaped, Same, SameCall, SameWish, SameFax
  <2> HIDE DEF e
  <2>3. Typed(e)
    BY <1>1, <2>2 DEF Typed, LineTyped, CallTyped, FaxTyped, Same, SameCall, SameWish,
       SameFax, CallStates
  <2>4. AskFits(e)
    BY <1>1, <1>4, <2>2 DEF AskFits
  <2>5. ThreadFits(e) /\ IdsFit(e) /\ e.init = FALSE
    BY <1>1, <1>4, <2>2 DEF ThreadFits, IdsFit, CallStates, IdleStates, Typed, LineTyped
  <2>6. Owned(c) => OwnerFits(e)
    BY <1>4, <2>2 DEF Owned, OwnerFits, Same, SameCall, CallStates
  <2>7. /\ ~Idle(c) /\ (App = "send" => c.active) /\ "RESET" \notin c.flags
        /\ (c.sending => c.thr \in {"run", "late"})
    BY <1>1, <1>4 DEF Idle, CallFits, FaxFits, CallStates
  <2>8. Turn(c, e)
    BY <2>2, <2>3, <2>4, <2>5, <2>6, <2>7, LineTurn
  <2>9. TurnDial(c, e) /\ Fits(e)
    BY <1>4, <2>8 DEF TurnDial, Turn, KeepsDial
  <2>10. TurnDial(e, d) /\ Onward(e, d) /\ Same(e, d) /\ SameState(e, d)
    BY <1>2, <2>1, <2>9, PutTurn DEF TurnDial
  <2>11. TurnDial(c, d)
    BY <2>2, <2>9, <2>10, TurnJoins DEF Same, SameCall, SameWish
  <2>12. Opens(c, d)
    BY <1>4, <2>2, <2>10 DEF Onward, LineOnward, Opens, Opening, Joined, Same, SameCall, SameFax,
       SameState
  <2> QED
    BY <2>2, <2>10, <2>11, <2>12 DEF Moves, SameState
<1> QED
  BY <1>3, <1>4

(* CONNECT_B3_ACTIVE_IND.                                                  *)
LEMMA ConnectB3ActiveIndTurn ==
  ASSUME NEW c, Fits(c), NEW msg \in Messages(Reports), msg.id # 0,
         App = "send" => c.thr \in {"run", "late"}, App = "send" \/ OwnerFits(c),
         NEW ready \in BOOLEAN,
         NEW d, d = CONNECT_B3_ACTIVE_IND(c, msg, ready)
  PROVE  TurnDial(c, d) /\ d.plci = c.plci /\ (Onward(c, d) \/ Joins(c, d))
<1> DEFINE e == [c EXCEPT !.cs = "Connected", !.timer = "none"]
           f == CallConnected(e)
           g == [f EXCEPT !.sending = TRUE]
<1>1. Typed(c) /\ c.inuse = 0 /\ ThreadFits(c) /\ CallFits(c) /\ FaxFits(c)
      /\ IdsFit(c) /\ AskFits(c) /\ msg.id \in Plcis
  BY DEF Fits, Messages
<1>2. CASE msg.id # c.ncci \/ c.cs # "B_ConnectPending"
  <2>1. Plain(Msg("DISCONNECT_B3_REQ", msg.id)) /\ ~IsData(Msg("DISCONNECT_B3_REQ", msg.id))
    BY <1>1, PlainMessages
  <2> QED
    BY <1>2, <2>1, PutTurn DEF CONNECT_B3_ACTIVE_IND, TurnDial, SameState
<1>3. CASE msg.id = c.ncci /\ c.cs = "B_ConnectPending"
  <2>1. \/ App = "send" /\ d = g
        \/ App = "recv" /\ (d = f \/ d = HangUp(f, TRUE))
    <3>1. d = IsConnected(e, ready)
      BY <1>3 DEF CONNECT_B3_ACTIVE_IND
    <3> HIDE DEF e
    <3> QED
      BY <3>1, ChannelAssumption DEF IsConnected
  <2>2. /\ Shaped(e) /\ Same(c, e) /\ e.cs = "Connected" /\ e.plci = c.plci
        /\ e.ncci = c.ncci /\ e.init = c.init /\ e.timer = "none"
        /\ e.appl = c.appl /\ e.thr = c.thr /\ e.down = c.down
    BY <1>1, NamesHold DEF NamesAreIn, Typed, Shaped, Same, SameCall, SameWish, SameFax
  <2> HIDE DEF e
  <2>3. /\ Shaped(f) /\ SameLine(e, f) /\ SameWish(e, f) /\ SameFax(e, f)
        /\ f.inuse = e.inuse /\ f.capi = e.capi
        /\ f.active = e.active /\ f.ddi = e.ddi /\ f.begun = e.begun
        /\ f.phase = IF e.phase = "setup" THEN "connected" ELSE "error"
    BY <2>2, NamesHold DEF NamesAreIn, CallConnected, Shaped, SameLine, SameWish, SameFax
  <2> HIDE DEF f
  <2>4. Typed(f)
    BY <1>1, <2>2, <2>3 DEF Typed, LineTyped, CallTyped, FaxTyped, Same, SameCall, SameWish,
       SameFax, SameLine, CallStates
  <2>5. c.active /\ ~c.ddi /\ "RESET" \notin c.flags
    BY <1>1, <1>3 DEF CallFits, IdsFit, CallStates, OwnerFits
  <2>6. ThreadFits(f) /\ IdsFit(f) /\ AskFits(f)
    <3>1. AskFits(e)
      BY <1>1, <1>3, <2>2 DEF AskFits
    <3>2. ThreadFits(e) /\ IdsFit(e)
      BY <1>1, <1>3, <2>2 DEF ThreadFits, IdsFit, CallStates, IdleStates
    <3> QED
      BY <2>3, <3>1, <3>2 DEF AskFits, ThreadFits, IdsFit, SameLine
  <2>7. /\ f.cs = "Connected" /\ f.plci = c.plci /\ f.ncci = c.ncci /\ f.init = c.init
        /\ f.thr = c.thr /\ SameWish(c, f) /\ SameFax(c, f) /\ f.inuse = 0
        /\ f.active /\ ~f.ddi /\ f.phase # "idle" /\ f.begun = c.begun
        /\ f.active = c.active /\ f.timer = "none" /\ f.down = c.down
        /\ f.phase = IF c.phase = "setup" THEN "connected" ELSE "error"
    BY <1>1, <2>2, <2>3, <2>5 DEF SameLine, SameWish, SameFax, Same, SameCall
  <2>8. CallFits(f) /\ FaxFits(f)
    BY <1>1, <2>5, <2>7 DEF CallFits, FaxFits, SameWish, SameFax, CallStates
  <2>9. Answers(c, f) /\ Sticks(c, f)
    BY <2>5, <2>7 DEF Answers, Sticks, Busy, Idle, SameWish
  <2>10. OwnerFits(f) /\ (BlockFits(c) => BlockFits(f))
    BY <2>5, <2>7 DEF OwnerFits, BlockFits, SameFax, CallStates
  <2>11. TurnDial(c, f) /\ Fits(f)
    BY <1>3, <2>4, <2>6, <2>7, <2>8, <2>9, <2>10 DEF TurnDial, Turn, KeepsDial, Fits, Owned
  <2>12. CASE App = "send" /\ d = g
    <3>1. /\ Shaped(g) /\ SameLine(f, g) /\ SameWish(f, g) /\ SameCall(f, g)
          /\ g.inuse = f.inuse /\ g.capi = f.capi
          /\ g.block = f.block /\ g.deleted = f.deleted /\ g.next = f.next
          /\ g.fin = f.fin /\ g.sending = TRUE
      BY <2>4, NamesHold DEF NamesAreIn, Typed, Shaped, SameLine, SameWish, SameCall
    <3> HIDE DEF g
    <3>2. Typed(g)
      BY <2>4, <3>1 DEF Typed, LineTyped, CallTyped, FaxTyped, SameLine, SameWish, SameCall
    <3>3. ThreadFits(g) /\ IdsFit(g) /\ AskFits(g)
      BY <2>6, <3>1, SameLineFits
    <3>4. CallFits(g) /\ FaxFits(g)
      BY <2>7, <2>8, <2>12, <3>1 DEF CallFits, FaxFits, SameLine, SameWish, SameCall
    <3>5. Answers(c, g) /\ Sticks(c, g)
      BY <2>5, <2>7, <3>1 DEF Answers, Sticks, Busy, Idle, SameWish, SameCall
    <3>6. OwnerFits(g) /\ (BlockFits(f) => BlockFits(g))
      BY <2>10, <3>1 DEF OwnerFits, BlockFits, SameLine, SameCall
    <3>7. Joins(c, g)
      BY <1>3, <2>7, <3>1, CalmSame DEF Joins, SameLine, SameCall, SameFax
    <3> QED
      BY <1>3, <2>7, <2>10, <2>12, <3>1, <3>2, <3>3, <3>4, <3>5, <3>6, <3>7
         DEF TurnDial, Turn, KeepsDial, Fits, Owned, SameLine
  <2>13. CASE d = f
    <3>1. Joins(c, f)
      BY <1>3, <2>7, CalmSame DEF Joins, SameFax
    <3> QED
      BY <2>7, <2>11, <2>13, <3>1
  <2>14. CASE d = HangUp(f, TRUE)
    <3>1. TurnDial(f, d) /\ HungUp(f, d) /\ Same(f, d)
      BY <2>7, <2>11, <2>14, HangUpTurn DEF CallStates
    <3>2. f.flags = c.flags /\ f.resets = c.resets /\ f.begun = c.begun
      BY <2>7 DEF SameWish
    <3>3. d.cs = "D_DisconnectPending"
      BY <2>4, <2>6, <2>7, <2>14, HangUpIs DEF CallStates
    <3>4. Joins(c, d)
      BY <1>3, <2>7, <3>1, <3>3 DEF Joins, HungUp, Same, SameCall, SameFax
    <3> QED
      BY <2>7, <2>11, <3>1, <3>2, <3>4, TurnJoins DEF HungUp
  <2> QED
    BY <2>1, <2>12, <2>13, <2>14
<1> QED
  BY <1>2, <1>3

(* A confirmation takes the frame from its handle and deletes it.          *)
LEMMA ConfirmIs ==
  ASSUME NEW c, Typed(c), NEW h \in Handles, c.block[h] # 0,
         NEW d, d = DataB3Conf(c, h, TRUE)
  PROVE  /\ Typed(d) /\ d.inuse = c.inuse /\ d.capi = c.capi
         /\ SameLine(c, d) /\ SameCall(c, d) /\ SameWish(c, d)
         /\ d.block = [c.block EXCEPT ![h] = 0]
         /\ d.deleted = [c.deleted EXCEPT ![c.block[h]] = @ + 1]
         /\ d.next = c.next /\ d.fin = c.fin /\ d.sending = TRUE
<1> DEFINE e == [c EXCEPT !.block = [c.block EXCEPT ![h] = 0]]
           f == c.block[h]
<1>1. d = PutDataComplete(e, f, TRUE)
  BY DEF DataB3Conf
<1>2. /\ Shaped(e) /\ SameLine(c, e) /\ SameCall(c, e) /\ SameWish(c, e)
      /\ e.inuse = c.inuse /\ e.capi = c.capi /\ e.block = [c.block EXCEPT ![h] = 0]
      /\ e.deleted = c.deleted /\ e.next = c.next /\ e.fin = c.fin /\ e.sending = c.sending
  BY NamesHold DEF NamesAreIn, Typed, Shaped, SameLine, SameCall, SameWish
<1>3. f \in Frames
  BY DEF Typed, FaxTyped
<1>4. e.sending \in BOOLEAN
  BY <1>2 DEF Typed, FaxTyped
<1> HIDE DEF e, f
<1>5. /\ Shaped(d) /\ SameLine(e, d) /\ SameCall(e, d) /\ SameWish(e, d)
      /\ d.inuse = e.inuse /\ d.capi = e.capi /\ d.block = e.block
      /\ d.deleted = [e.deleted EXCEPT ![f] = @ + 1] /\ d.next = e.next /\ d.fin = e.fin
      /\ d.sending = TRUE
  BY ZenonT(60), <1>1, <1>2, <1>4, NamesHold
     DEF NamesAreIn, PutDataComplete, Shaped, SameLine, SameCall, SameWish
<1>6. /\ d.block = [c.block EXCEPT ![h] = 0] /\ d.deleted = [c.deleted EXCEPT ![f] = @ + 1]
      /\ d.next = c.next /\ d.fin = c.fin /\ d.sending = TRUE
  BY <1>2, <1>5
<1>7. /\ SameLine(c, d) /\ SameCall(c, d) /\ SameWish(c, d)
      /\ d.inuse = c.inuse /\ d.capi = c.capi
  BY ZenonT(60), <1>2, <1>5 DEF SameLine, SameCall, SameWish
<1>8. FaxTyped(d)
  <2>0. c.block \in [Handles -> Frames \cup {0}]
    BY DEF Typed, FaxTyped
  <2>1. d.block \in [Handles -> Frames \cup {0}]
    BY <1>6, <2>0
  <2>2. c.deleted \in [Frames -> Nat] /\ c.deleted[f] + 1 \in Nat
    BY <1>3 DEF Typed, FaxTyped
  <2>3. d.deleted \in [Frames -> Nat]
    BY <1>6, <2>2
  <2> QED
    BY <1>6, <2>1, <2>3 DEF Typed, FaxTyped
<1>9. Typed(d)
  BY <1>5, <1>7, <1>8 DEF Typed, LineTyped, CallTyped, SameLine, SameCall, SameWish
<1> QED
  BY <1>6, <1>7, <1>9 DEF f

(* So does a frame that cannot be put.                                     *)
Drops(c, h) == DataB3Conf(c, h, FALSE)

(* A handle of the send block is freed.                                    *)
LEMMA DropIs ==
  ASSUME NEW c, Typed(c), NEW h \in Handles, c.block[h] # 0,
         NEW d, d = Drops(c, h)
  PROVE  /\ Typed(d) /\ d.inuse = c.inuse /\ d.capi = c.capi
         /\ SameLine(c, d) /\ SameCall(c, d) /\ SameWish(c, d)
         /\ d.block = [c.block EXCEPT ![h] = 0]
         /\ d.deleted = [c.deleted EXCEPT ![c.block[h]] = @ + 1]
         /\ d.next = c.next /\ d.fin = c.fin /\ d.sending = c.sending
<1> DEFINE e == [c EXCEPT !.block = [c.block EXCEPT ![h] = 0]]
           f == c.block[h]
<1>1. d = PutDataComplete(e, f, FALSE)
  BY DEF Drops, DataB3Conf
<1>2. /\ Shaped(e) /\ SameLine(c, e) /\ SameCall(c, e) /\ SameWish(c, e)
      /\ e.inuse = c.inuse /\ e.capi = c.capi /\ e.block = [c.block EXCEPT ![h] = 0]
      /\ e.deleted = c.deleted /\ e.next = c.next /\ e.fin = c.fin /\ e.sending = c.sending
  BY NamesHold DEF NamesAreIn, Typed, Shaped, SameLine, SameCall, SameWish
<1>3. f \in Frames
  BY DEF Typed, FaxTyped
<1>4. e.sending \in BOOLEAN
  BY <1>2 DEF Typed, FaxTyped
<1> HIDE DEF e, f
<1>5. /\ Shaped(d) /\ SameLine(e, d) /\ SameCall(e, d) /\ SameWish(e, d)
      /\ d.inuse = e.inuse /\ d.capi = e.capi /\ d.block = e.block
      /\ d.deleted = [e.deleted EXCEPT ![f] = @ + 1] /\ d.next = e.next /\ d.fin = e.fin
      /\ d.sending = e.sending
  BY ZenonT(60), <1>1, <1>2, <1>4, NamesHold
     DEF NamesAreIn, PutDataComplete, Shaped, SameLine, SameCall, SameWish
<1>6. /\ d.block = [c.block EXCEPT ![h] = 0] /\ d.deleted = [c.deleted EXCEPT ![f] = @ + 1]
      /\ d.next = c.next /\ d.fin = c.fin /\ d.sending = c.sending
  BY <1>2, <1>5
<1>7. /\ SameLine(c, d) /\ SameCall(c, d) /\ SameWish(c, d)
      /\ d.inuse = c.inuse /\ d.capi = c.capi
  BY <1>2, <1>5 DEF SameLine, SameCall, SameWish
<1>8. FaxTyped(d)
  <2>0. c.block \in [Handles -> Frames \cup {0}]
    BY DEF Typed, FaxTyped
  <2>1. d.block \in [Handles -> Frames \cup {0}]
    BY <1>6, <2>0
  <2>2. c.deleted \in [Frames -> Nat] /\ c.deleted[f] + 1 \in Nat
    BY <1>3 DEF Typed, FaxTyped
  <2>3. d.deleted \in [Frames -> Nat]
    BY <1>6, <2>2
  <2> QED
    BY <1>6, <2>1, <2>3 DEF Typed, FaxTyped
<1>9. Typed(d)
  BY <1>5, <1>7, <1>8 DEF Typed, LineTyped, CallTyped, SameLine, SameCall, SameWish
<1> QED
  BY <1>6, <1>7, <1>9 DEF f

(* A confirmed frame is deleted, once.                                     *)
LEMMA ConfirmBlock ==
  ASSUME NEW c, Typed(c), BlockFits(c), NEW h \in Handles, c.block[h] # 0,
         NEW d, d.block = [c.block EXCEPT ![h] = 0],
         d.deleted = [c.deleted EXCEPT ![c.block[h]] = @ + 1],
         d.next = c.next, d.active = c.active
  PROVE  BlockFits(d)
<1>1. c.block[h] \in Frames /\ c.block \in [Handles -> Frames \cup {0}]
      /\ c.deleted \in [Frames -> Nat]
  BY DEF Typed, FaxTyped
<1>2. \A k \in Handles : d.block[k] = IF k = h THEN 0 ELSE c.block[k]
  BY <1>1
<1>3. \A k \in Handles : c.block[k] < c.next /\ (k # h => c.block[k] # c.block[h])
  BY DEF BlockFits
<1>4. 0 < c.next
  BY ChannelAssumption DEF Typed, FaxTyped
<1>5. ASSUME NEW f \in Frames
      PROVE  d.deleted[f] = IF f < d.next /\ \A k \in Handles : d.block[k] # f THEN 1 ELSE 0
  <2>1. c.deleted[f] = IF f < c.next /\ \A k \in Handles : c.block[k] # f THEN 1 ELSE 0
    BY DEF BlockFits
  <2>2. f # 0
    BY DEF Frames
  <2>3. CASE f = c.block[h]
    <3>1. c.deleted[f] = 0
      BY <2>1, <2>3
    <3>2. d.deleted[f] = 1
      BY <1>1, <2>3, <3>1
    <3>3. f < d.next /\ \A k \in Handles : d.block[k] # f
      BY <1>2, <1>3, <2>2, <2>3
    <3> QED
      BY <3>2, <3>3
  <2>4. CASE f # c.block[h]
    <3>1. d.deleted[f] = c.deleted[f]
      BY <1>1, <2>4
    <3>2. (\A k \in Handles : d.block[k] # f) <=> \A k \in Handles : c.block[k] # f
      BY <1>2, <2>2, <2>4
    <3> QED
      BY <2>1, <3>1, <3>2
  <2> QED
    BY <2>3, <2>4
<1>6. ~d.active => \A k \in Handles : d.block[k] = 0
  BY <1>2 DEF BlockFits
<1>7. \A k \in Handles : d.block[k] < d.next
  BY <1>2, <1>3, <1>4
<1>8. \A k, l \in Handles : d.block[k] # 0 /\ d.block[k] = d.block[l] => k = l
  BY <1>2 DEF BlockFits
<1> QED
  BY <1>5, <1>6, <1>7, <1>8 DEF BlockFits

(* DATA_B3_CONF.                                                           *)
LEMMA DataB3ConfTurn ==
  ASSUME NEW c, Fits(c), c.thr \in {"run", "late"}, NEW msg \in Messages(Reports),
         msg.id # 0, msg.h \in Handles, NEW d, d = DATA_B3_CONF(c, msg)
  PROVE  /\ TurnDial(c, d) /\ d.plci = c.plci
         /\ msg.id = c.ncci /\ c.block[msg.h] # 0 => Confirms(c, d, msg.h)
         /\ c.cs # "B_ConnectPending" /\ ~(msg.id = c.ncci /\ c.block[msg.h] # 0) =>
              Onward(c, d)
<1>1. Typed(c) /\ c.inuse = 0 /\ ThreadFits(c) /\ CallFits(c) /\ FaxFits(c)
      /\ IdsFit(c) /\ AskFits(c) /\ msg.id \in Plcis
  BY DEF Fits, Messages
<1>2. CASE msg.id # c.ncci
  <2>1. Plain(Msg("DISCONNECT_B3_REQ", msg.id)) /\ ~IsData(Msg("DISCONNECT_B3_REQ", msg.id))
    BY <1>1, PlainMessages
  <2> QED
    BY <1>2, <2>1, PutTurn DEF DATA_B3_CONF, TurnDial, SameState
<1>3. CASE msg.id = c.ncci
  <2>1. d = DataB3Conf(c, msg.h, TRUE)
    BY <1>3 DEF DATA_B3_CONF
  <2>2. c.cs \in {"B_ConnectPending", "Connected", "B_DisconnectPending",
                  "D_DisconnectPending"}
    BY <1>1, <1>3 DEF IdsFit
  <2>3. CASE c.block[msg.h] = 0
    <3>1. d = HangUp(c, FALSE)
      BY <2>1, <2>2, <2>3 DEF DataB3Conf, DisconnectReq, IdleStates
    <3>2. c.cs \in CallStates \ {"D_ConnectRequest"}
      BY <2>2 DEF CallStates
    <3> QED
      BY <2>3, <3>1, <3>2, HangUpTurn DEF HungUp
  <2>4. CASE c.block[msg.h] # 0
    <3>1. App = "send"
      BY <1>1, <2>4, ChannelAssumption DEF FaxFits
    <3>2. /\ Typed(d) /\ d.inuse = c.inuse /\ d.capi = c.capi
          /\ SameLine(c, d) /\ SameCall(c, d) /\ SameWish(c, d)
          /\ d.block = [c.block EXCEPT ![msg.h] = 0]
          /\ d.deleted = [c.deleted EXCEPT ![c.block[msg.h]] = @ + 1]
          /\ d.next = c.next /\ d.fin = c.fin /\ d.sending = TRUE
      BY <1>1, <2>1, <2>4, ConfirmIs
    <3>3. ThreadFits(d) /\ IdsFit(d) /\ AskFits(d)
      BY <1>1, <3>2, SameLineFits
    <3>4. CallFits(d) /\ FaxFits(d)
      BY <1>1, <2>2, <3>1, <3>2 DEF CallFits, FaxFits, SameLine, SameCall, SameWish
    <3>5. Answers(c, d) /\ Sticks(c, d)
      BY <3>2 DEF Answers, Sticks, Busy, Idle, Done, SameLine, SameCall, SameWish
    <3>6. BlockFits(c) => BlockFits(d)
      BY <1>1, <2>4, <3>2, ConfirmBlock DEF SameCall
    <3>7. OwnerFits(c) => OwnerFits(d)
      BY <3>2 DEF OwnerFits, SameLine, SameCall
    <3>8. Confirms(c, d, msg.h)
      BY <1>1, <1>3, <2>4, <3>2 DEF Confirms
    <3> QED
      BY <1>1, <1>3, <2>2, <2>4, <3>2, <3>3, <3>4, <3>5, <3>6, <3>7, <3>8
         DEF TurnDial, Turn, KeepsDial, Fits, Owned, SameLine
  <2> QED
    BY <2>3, <2>4
<1> QED
  BY <1>2, <1>3

(* DATA_B3_IND.                                                            *)
LEMMA DataB3IndTurn ==
  ASSUME NEW c, Fits(c), NEW msg, msg.id # 0, NEW ready,
         NEW d, d = DATA_B3_IND(c, msg, ready)
  PROVE  TurnDial(c, d) /\ d.plci = c.plci /\ Onward(c, d)
<1>1. CASE ~(msg.id = c.ncci /\ ~ready)
  BY <1>1, TurnsNot, NothingOnward DEF DATA_B3_IND
<1>2. CASE msg.id = c.ncci /\ ~ready
  <2>1. c.cs \in {"B_ConnectPending", "Connected", "B_DisconnectPending",
                  "D_DisconnectPending"}
    BY <1>2 DEF Fits, IdsFit
  <2>2. d = HangUp(c, TRUE)
    BY <1>2, <2>1 DEF DATA_B3_IND, DisconnectReq, IdleStates
  <2>3. c.cs \in CallStates \ {"D_ConnectRequest"}
    BY <2>1 DEF CallStates
  <2> QED
    BY <2>2, <2>3, HangUpTurn DEF HungUp
<1> QED
  BY <1>1, <1>2

(* What the CAPI thread does when a handler returns.                       *)
LEMMA BackTurn ==
  ASSUME NEW c, Fits(c), NEW d, d = Back(c)
  PROVE  /\ TurnDial(c, d) /\ Same(c, d) /\ SameLine(c, [d EXCEPT !.thr = c.thr])
         /\ d.cs = c.cs /\ d.plci = c.plci /\ d.down = c.down
         /\ Onward(c, d) /\ (d.thr = "late" => d.sending)
<1>1. Typed(c) /\ ThreadFits(c) /\ AskFits(c)
  BY DEF Fits
<1>2. CASE d = c /\ (c.thr = "late" => c.sending)
  BY <1>1, <1>2, TurnsNot, NothingOnward, NamesHold
     DEF Same, SameCall, SameWish, SameFax, SameLine, NamesAreIn, Typed, Shaped
<1>3. CASE c.thr = "late" /\ ~c.sending /\ d = [c EXCEPT !.thr = "exit"]
  <2>1. /\ Shaped(d) /\ Same(c, d) /\ d.cs = c.cs /\ d.plci = c.plci /\ d.ncci = c.ncci
        /\ d.init = c.init /\ d.timer = c.timer /\ d.appl = c.appl /\ d.thr = "exit"
        /\ d.down = c.down
    BY <1>1, <1>3, NamesHold DEF NamesAreIn, Typed, Shaped, Same, SameCall, SameWish, SameFax
  <2>2. Typed(d)
    BY <1>1, <2>1 DEF Typed, LineTyped, CallTyped, FaxTyped, Same, SameCall, SameWish, SameFax
  <2>3. ThreadFits(d)
    BY <1>1, <1>3, <2>1 DEF ThreadFits
  <2>4. AskFits(d)
    BY <1>1, <2>1 DEF AskFits
  <2>5. TurnDial(c, d)
    BY <1>3, <2>1, <2>2, <2>3, <2>4, SameTurn DEF TurnDial
  <2>6. SameLine(c, [d EXCEPT !.thr = c.thr])
    BY <2>1, NamesHold DEF NamesAreIn, Shaped, SameLine
  <2>7. Onward(c, d)
    BY <2>1, CalmSame DEF Onward, LineOnward, StateOnward, CallOnward, Same, SameCall, SameFax
  <2> QED
    BY <2>1, <2>5, <2>6, <2>7
<1> QED
  BY <1>2, <1>3 DEF Back

(* DISCONNECT_B3_IND.                                                      *)
LEMMA DisconnectB3IndTurn ==
  ASSUME NEW c, Fits(c), App = "send" \/ OwnerFits(c), NEW msg, msg.id # 0,
         NEW d, d = DISCONNECT_B3_IND(c, msg)
  PROVE  /\ TurnDial(c, d) /\ d.plci = c.plci
         /\ Onward(c, d) \/ (msg.id = c.ncci /\ Closes(c, d))
<1> DEFINE r == ResetSendBlock(c)
           e == CallClosing(r)
           g == [e EXCEPT !.ncci = 0, !.cs = "D_DisconnectPending", !.timer = "disconnect"]
<1>1. Typed(c) /\ c.inuse = 0 /\ ThreadFits(c) /\ CallFits(c) /\ FaxFits(c)
      /\ IdsFit(c) /\ AskFits(c)
  BY DEF Fits
<1>2. CASE msg.id # c.ncci
  BY <1>2, TurnsNot, NothingOnward DEF DISCONNECT_B3_IND
<1>3. CASE msg.id = c.ncci
  <2>1. /\ c.cs \in {"B_ConnectPending", "Connected", "B_DisconnectPending",
                     "D_DisconnectPending"}
        /\ c.plci \in Plcis /\ c.plci # 0
    BY <1>1, <1>3 DEF IdsFit, Typed, LineTyped, CallStates, IdleStates
  <2>2. /\ Shaped(r) /\ SameLine(c, r) /\ SameCall(c, r) /\ SameWish(c, r)
        /\ r.inuse = c.inuse /\ r.capi = c.capi /\ r.block = [h \in Handles |-> 0]
        /\ r.deleted = [f \in Frames |->
             c.deleted[f] + IF \E h \in Handles : c.block[h] = f THEN 1 ELSE 0]
        /\ r.next = c.next /\ r.fin = c.fin /\ r.sending = c.sending
    BY <1>1, NamesHold DEF NamesAreIn, ResetSendBlock, Typed, Shaped, SameLine, SameCall, SameWish
  <2>3. IF c.cs = "D_DisconnectPending" THEN d = e
        ELSE d = Put(g, Msg("DISCONNECT_REQ", c.plci))
    BY <1>3 DEF DISCONNECT_B3_IND
  <2> HIDE DEF r
  <2>4. /\ Shaped(e) /\ SameLine(r, e) /\ SameWish(r, e)
        /\ e.inuse = r.inuse /\ e.capi = r.capi /\ e.block = r.block
        /\ e.deleted = r.deleted /\ e.next = r.next /\ e.sending = r.sending
        /\ e.active = r.active /\ e.ddi = r.ddi /\ e.begun = r.begun
        /\ e.fin = TRUE
        /\ e.phase = IF r.phase \in {"setup", "connected"} THEN "closing" ELSE "error"
    BY <2>2, NamesHold DEF NamesAreIn, CallClosing, Shaped, SameLine, SameWish
  <2> HIDE DEF e
  <2>5. /\ SameLine(c, e) /\ SameWish(c, e) /\ e.inuse = 0 /\ e.capi = c.capi
        /\ e.block = r.block /\ e.deleted = r.deleted /\ e.next = c.next
        /\ e.sending = c.sending /\ e.active = c.active /\ e.ddi = c.ddi /\ e.begun = c.begun
        /\ e.phase = IF c.phase \in {"setup", "connected"} THEN "closing" ELSE "error"
    BY <1>1, <2>2, <2>4 DEF SameLine, SameWish, SameCall
  <2>6. Typed(e)
    <3>1. r.block \in [Handles -> Frames \cup {0}] /\ r.deleted \in [Frames -> Nat]
      BY <1>1, <2>2 DEF Typed, FaxTyped
    <3> QED
      BY <1>1, <2>4, <2>5, <3>1 DEF Typed, LineTyped, CallTyped, FaxTyped, SameLine, SameWish
  <2>7. BlockFits(c) => BlockFits(e)
    BY <1>1, <2>2, <2>4, <2>5, ClearedBlock
  <2>8. c.active /\ ~c.ddi /\ ("RESET" \in c.flags => c.cs = "D_DisconnectPending")
    BY <1>1, <1>3, <2>1 DEF CallFits, OwnerFits, CallStates
  <2>9. ThreadFits(e) /\ IdsFit(e) /\ AskFits(e)
    BY <1>1, <2>5, SameLineFits
  <2>10. CallFits(e) /\ FaxFits(e)
    <3>1. \A h \in Handles : e.block[h] = 0
      BY <2>2, <2>4
    <3> QED
      BY <1>1, <2>1, <2>4, <2>5, <2>8, <3>1 DEF CallFits, FaxFits, SameLine, SameWish
  <2>11. Answers(c, e) /\ Sticks(c, e)
    BY <2>5, <2>8 DEF Answers, Sticks, Busy, Idle, SameWish, SameLine
  <2>12. OwnerFits(c) => OwnerFits(e)
    <3>1. \A h \in Handles : e.block[h] = 0
      BY <2>2, <2>4
    <3>2. e.cs = c.cs /\ e.ncci = c.ncci /\ e.cs # "D_ConnectIndication" /\ e.phase # "unseen"
      BY <2>1, <2>5 DEF SameLine
    <3> QED
      BY <2>5, <3>1, <3>2 DEF OwnerFits
  <2>13. TurnDial(c, e) /\ Fits(e)
    BY <2>1, <2>5, <2>6, <2>7, <2>9, <2>10, <2>11, <2>12
       DEF TurnDial, Turn, KeepsDial, Fits, Owned, SameLine
  <2>14. CASE c.cs = "D_DisconnectPending"
    <3>1. \A h \in Handles : e.block[h] = 0
      BY <2>2, <2>4
    <3>2. Closes(c, e)
      BY <1>3, <2>5, <2>14, <3>1, CalmSame DEF SameLine, Closes
    <3> QED
      BY <1>3, <2>3, <2>5, <2>13, <2>14, <3>2 DEF SameLine
  <2>15. CASE c.cs # "D_DisconnectPending"
    <3>1. /\ Shaped(g) /\ Same(e, g) /\ g.plci = e.plci /\ g.ncci = 0 /\ g.init = e.init
          /\ g.cs = "D_DisconnectPending" /\ g.timer = "disconnect"
          /\ g.appl = e.appl /\ g.thr = e.thr /\ g.down = e.down
      BY <2>6, NamesHold DEF NamesAreIn, Typed, Shaped, Same, SameCall, SameWish, SameFax
    <3> HIDE DEF g
    <3>2. Typed(g)
      BY <2>6, <3>1 DEF Typed, LineTyped, CallTyped, FaxTyped, Same, SameCall, SameWish,
         SameFax, CallStates
    <3>3. e.cs = c.cs /\ e.plci = c.plci
      BY <2>5 DEF SameLine
    <3>4. ThreadFits(g) /\ IdsFit(g)
      BY <2>1, <2>9, <3>1, <3>3 DEF ThreadFits, IdsFit, CallStates, IdleStates
    <3>5. AskFits(g)
      BY <2>1, <2>9, <3>1, <3>3 DEF AskFits
    <3>6. e.active /\ ~e.ddi /\ "RESET" \notin e.flags
      BY <2>5, <2>8, <2>15 DEF SameWish
    <3>7. OwnerFits(g)
      BY <3>1, <3>6 DEF OwnerFits, Same, SameCall, CallStates
    <3>8. ~Idle(e)
      BY <3>6 DEF Idle
    <3>9. (App = "recv" => g.init = FALSE) /\ (e.sending => g.thr \in {"run", "late"})
      BY <2>10, <3>1 DEF CallFits, FaxFits
    <3>10. Turn(e, g)
      BY <2>13, <3>1, <3>2, <3>4, <3>5, <3>6, <3>7, <3>8, <3>9, LineTurn
    <3>11. TurnDial(e, g) /\ Fits(g)
      BY <2>1, <3>3, <3>10 DEF TurnDial, Turn, KeepsDial
    <3>12. Plain(Msg("DISCONNECT_REQ", c.plci)) /\ ~IsData(Msg("DISCONNECT_REQ", c.plci))
      BY <2>1, PlainMessages
    <3>13. TurnDial(g, d) /\ d.plci = g.plci /\ Same(g, d) /\ SameState(g, d)
      BY <2>3, <2>15, <3>11, <3>12, PutTurn DEF TurnDial, SameState
    <3>14. TurnDial(c, g)
      BY <2>5, <2>13, <3>11, TurnJoins DEF SameWish
    <3>15. TurnDial(c, d)
      <4>1. g.flags = c.flags /\ g.resets = c.resets /\ g.begun = c.begun
        BY <2>5, <3>1 DEF Same, SameCall, SameWish
      <4> QED
        BY <3>13, <3>14, <4>1, TurnJoins
    <3>16. Closes(c, d)
      <4>1. Msg("DISCONNECT_REQ", c.plci) \in Messages(Requests)
        BY <3>12 DEF Plain
      <4>2. Calm(g.down, d.down)
        <5>1. Puts(g, d, Msg("DISCONNECT_REQ", c.plci))
          BY <2>3, <2>15, <3>2, <4>1, PutIs
        <5> QED
          BY <3>2, <3>12, <5>1, CalmPut DEF Puts
      <4>3. Calm(c.down, d.down)
        BY <2>5, <3>1, <4>2 DEF SameLine
      <4>4. \A h \in Handles : d.block[h] = 0
        BY <2>2, <2>4, <3>1, <3>13 DEF Same, SameFax
      <4> QED
        BY <1>3, <2>5, <3>1, <3>13, <4>3, <4>4
           DEF Closes, SameLine, Same, SameCall, SameFax, SameState
    <3> QED
      BY <1>3, <3>1, <3>3, <3>13, <3>15, <3>16
  <2> QED
    BY <2>14, <2>15
<1> QED
  BY <1>2, <1>3

(* The call of a receiver is over.                                         *)
LEMMA RecvOverTurn ==
  ASSUME NEW c, Fits(c), App = "recv", c.active,
         NEW e, SameCall(c, e), SameFax(c, e), SameWish(c, e), NEW d, Ended(e, d),
         ThreadFits(d), IdsFit(d), AskFits(d), d.ncci = 0, d.init = FALSE,
         d.cs \in {"Registered", "Releasing"},
         "RESET" \in c.flags => "RESET" \in d.flags,
         "RESET" \in d.flags => ~d.msn, d.resets = c.resets
  PROVE  /\ Turn(c, d)
         /\ Calm(c.down, d.down) /\ (d.cs = "Registered" => d.thr = c.thr /\ c.cs # "Releasing")
              => Onward(c, d)
<1>1. Typed(c) /\ CallFits(c) /\ FaxFits(c)
  BY DEF Fits
<1>2. /\ Typed(d) /\ d.inuse = 0 /\ d.active = FALSE /\ d.ddi = FALSE
      /\ d.sending = c.sending /\ d.begun = c.begun /\ Over(c, d)
      /\ (d.fin = TRUE \/ d.fin = c.fin) /\ d.phase = "idle"
  <2>1. /\ Typed(d) /\ d.inuse = 0 /\ d.active = FALSE /\ d.ddi = FALSE
        /\ d.sending = c.sending /\ d.begun = c.begun /\ Over(c, d)
    BY DEF Ended, Over, SameCall, SameFax
  <2>2. d.fin = TRUE \/ d.fin = c.fin
    BY DEF Ended, SameFax
  <2>3. d.phase = (IF c.ddi THEN c.phase ELSE IF c.phase = "idle" THEN "error" ELSE "idle")
    BY DEF Ended, SameCall
  <2>4. c.ddi \in BOOLEAN /\ (c.active /\ ~c.ddi <=> c.phase # "idle")
    BY <1>1 DEF Typed, CallTyped, CallFits
  <2> QED
    BY <2>1, <2>2, <2>3, <2>4
<1>3. CallFits(d) /\ FaxFits(d)
  BY <1>1, <1>2 DEF CallFits, FaxFits, Over, CallStates
<1>4. OwnerFits(d)
  BY <1>2 DEF OwnerFits, CallStates
<1>5. BlockFits(c) => BlockFits(d)
  BY <1>1, <1>2, OverBlock
<1>6. Answers(c, d) /\ Sticks(c, d)
  BY <1>2 DEF Answers, Sticks
<1>7. ASSUME Calm(c.down, d.down), d.cs = "Registered" => d.thr = c.thr /\ c.cs # "Releasing"
      PROVE  Onward(c, d)
  <2>1. ~d.sending
    BY <1>3, ChannelAssumption DEF FaxFits
  <2> QED
    BY <1>2, <1>7, <2>1 DEF Onward, LineOnward, StateOnward, CallOnward, IdleStates
<1> QED
  BY <1>2, <1>3, <1>4, <1>5, <1>6, <1>7 DEF Turn, Fits, Owned

(* DISCONNECT_IND.                                                         *)
LEMMA DisconnectIndTurn ==
  ASSUME NEW c, Fits(c), App = "send" \/ OwnerFits(c), NEW msg \in Messages(Reports),
         msg.id # 0, NEW d, d = DISCONNECT_IND(c, msg)
  PROVE  /\ TurnDial(c, d) /\ d.plci = IF msg.id = c.plci THEN 0 ELSE c.plci
         /\ Onward(c, d)
<1> DEFINE p == Put(c, Msg("DISCONNECT_RESP", msg.id))
           e == [ResetValues(p) EXCEPT !.timer = "none", !.cs = "Registered"]
<1>1. Typed(c) /\ c.inuse = 0 /\ ThreadFits(c) /\ CallFits(c) /\ FaxFits(c)
      /\ IdsFit(c) /\ AskFits(c) /\ msg.id \in Plcis
  BY DEF Fits, Messages
<1>2. Plain(Msg("DISCONNECT_RESP", msg.id)) /\ ~IsData(Msg("DISCONNECT_RESP", msg.id))
  BY <1>1, PlainMessages
<1>3. TurnDial(c, p) /\ Same(c, p) /\ SameState(c, p) /\ AskFits(p) /\ Onward(c, p)
  BY <1>2, PutTurn DEF TurnDial
<1>4. CASE msg.id # c.plci
  BY <1>3, <1>4 DEF DISCONNECT_IND, SameState
<1>5. CASE msg.id = c.plci
  <2>1. d = DisconnectInd(e)
    BY <1>5 DEF DISCONNECT_IND
  <2>2. c.cs \in CallStates \ {"D_ConnectRequest"}
    BY <1>1, <1>5 DEF IdsFit, Typed, LineTyped
  <2> HIDE DEF p
  <2>3. Fits(p)
    BY <1>3 DEF TurnDial, Turn
  <2>4. /\ Shaped(e) /\ Same(p, e) /\ e.cs = "Registered" /\ e.timer = "none"
        /\ e.plci = 0 /\ e.ncci = 0 /\ e.init = FALSE
        /\ e.appl = p.appl /\ e.thr = p.thr /\ e.down = p.down
    BY <2>3, NamesHold DEF Fits, NamesAreIn, ResetValues, Typed, Shaped, Same, SameCall,
       SameWish, SameFax
  <2> HIDE DEF e
  <2>5. Typed(e)
    BY <2>3, <2>4 DEF Fits, Typed, LineTyped, CallTyped, FaxTyped, Same, SameCall, SameWish,
       SameFax, IdleStates
  <2>6. Same(c, e) /\ e.inuse = 0
    BY <1>1, <1>3, <2>4 DEF Same, SameCall, SameWish, SameFax
  <2>7. AskFits(e) /\ NoDial(e.down)
    BY <1>3, <2>2, <2>4 DEF AskFits, NoDial, SameState
  <2>8. ThreadFits(e) /\ IdsFit(e)
    BY <1>1, <1>3, <2>2, <2>4 DEF ThreadFits, IdsFit, SameState, IdleStates, CallStates
  <2>9. ASSUME GivesUp(e, d)
        PROVE  ThreadFits(d) /\ IdsFit(d) /\ AskFits(d) /\ d.cs = "Releasing" /\ d.plci = 0
               /\ d.ncci = 0 /\ d.init = FALSE /\ (c.sending => d.thr \in {"run", "late"})
    <3>1. ThreadFits(d) /\ IdsFit(d) /\ AskFits(d)
      BY <2>4, <2>5, <2>7, <2>9, GivesUpFits
    <3>2. c.sending => c.thr \in {"run", "late"}
      BY <1>1 DEF FaxFits
    <3> QED
      BY <1>3, <2>4, <2>9, <3>1, <3>2 DEF GivesUp, SameState
  <2>10. CASE App = "send"
    <3>1. c.active /\ ~c.ddi /\ ~c.msn /\ "RESET" \notin c.flags
      BY <1>1, <2>2, <2>10 DEF CallFits
    <3>2. e.active /\ ~e.ddi /\ ~e.msn /\ "RESET" \notin e.flags
      BY <2>6, <3>1 DEF Same, SameCall, SameWish
    <3>3. /\ Ended(e, d) /\ d.quit = e.quit /\ ~d.msn
          /\ "RESET" \in d.flags /\ d.resets = e.resets /\ GivesUp(e, d)
      BY <2>1, <2>4, <2>5, <2>6, <2>10, <3>2, SendCallEnds
    <3>4. d.msn = FALSE
      BY <3>3 DEF Ended, Typed, CallTyped
    <3>5. Turn(c, d) /\ (Calm(c.down, d.down) => Onward(c, d))
      BY <2>6, <2>9, <2>10, <3>1, <3>3, <3>4, CallOverTurn DEF Same
    <3>6. Calm(c.down, d.down)
      BY <1>3, <2>4, <3>3 DEF GivesUp, Onward, LineOnward
    <3> QED
      BY <1>5, <2>2, <2>9, <3>3, <3>5, <3>6 DEF TurnDial, KeepsDial
  <2>11. CASE App = "recv" /\ c.active
    <3>1. e.active
      BY <2>6, <2>11 DEF Same, SameCall
    <3>2. /\ Ended(e, d)
          /\ "RESET" \in e.flags =>
               /\ d.msn = e.msn /\ d.resets = e.resets
               /\ "RESET" \in d.flags /\ GivesUp(e, d)
          /\ "RESET" \notin e.flags /\ ~e.msn =>
               GivesUp(e, d) /\ d.msn = e.msn /\ d.resets = e.resets /\ "RESET" \notin d.flags
          /\ "RESET" \notin e.flags /\ e.msn =>
               SameState(e, d) /\ Puts(e, d, Msg("LISTEN_REQ", 0)) /\ SameWish(e, d)
      BY <2>1, <2>4, <2>5, <2>6, <2>11, <3>1, RecvCallEnds
    <3>3. SameCall(c, e) /\ SameFax(c, e) /\ SameWish(c, e)
      BY <2>6 DEF Same
    <3>4. "RESET" \in c.flags => ~c.msn
      BY <1>1 DEF CallFits
    <3>5. CASE "RESET" \in e.flags \/ ~e.msn
      <4>1. GivesUp(e, d) /\ d.msn = e.msn /\ d.resets = e.resets
            /\ ("RESET" \in d.flags <=> "RESET" \in e.flags)
        BY <3>2, <3>5
      <4>2. Calm(c.down, d.down) /\ d.cs # "Registered"
        BY <1>3, <2>4, <2>9, <4>1 DEF GivesUp, Onward, LineOnward
      <4>3. Turn(c, d) /\ Onward(c, d)
        BY <2>9, <2>11, <3>2, <3>3, <3>4, <4>1, <4>2, RecvOverTurn DEF SameWish
      <4> QED
        BY <1>5, <2>2, <2>9, <4>1, <4>3 DEF TurnDial, KeepsDial
    <3>6. CASE "RESET" \notin e.flags /\ e.msn
      <4>1. SameState(e, d) /\ Puts(e, d, Msg("LISTEN_REQ", 0)) /\ SameWish(e, d)
        BY <3>2, <3>6
      <4>2. ThreadFits(d) /\ IdsFit(d)
        BY <2>8, <4>1 DEF ThreadFits, IdsFit, SameState
      <4>3. Plain(Msg("LISTEN_REQ", 0)) /\ ~IsData(Msg("LISTEN_REQ", 0))
        BY <1>1, <2>11, PlainMessages
      <4>4. AskFits(d) /\ Calm(e.down, d.down)
        BY <2>5, <2>7, <4>1, <4>3, AskPut, CalmPut DEF Puts, SameState
      <4>5. d.cs = "Registered" /\ d.plci = 0 /\ d.ncci = 0 /\ d.init = FALSE
        BY <2>4, <4>1 DEF SameState
      <4>6. d.resets = c.resets /\ "RESET" \notin d.flags /\ "RESET" \notin c.flags
        BY <3>3, <3>6, <4>1 DEF SameWish
      <4>7. Calm(c.down, d.down)
        <5>1. Typed(d) /\ Calm(c.down, e.down)
          BY <1>3, <2>4, <3>2 DEF Ended, Onward, LineOnward
        <5> QED
          BY <1>1, <2>5, <4>4, <5>1, CalmJoins
      <4>8. d.thr = c.thr /\ c.cs # "Releasing"
        BY <1>3, <2>2, <2>4, <4>1 DEF SameState, CallStates
      <4>9. Turn(c, d) /\ Onward(c, d)
        BY <2>11, <3>2, <3>3, <4>2, <4>4, <4>5, <4>6, <4>7, <4>8, RecvOverTurn
      <4> QED
        BY <1>5, <2>2, <4>5, <4>9 DEF TurnDial, KeepsDial
    <3> QED
      BY <3>5, <3>6
  <2>12. CASE App = "recv" /\ ~c.active
    <3>1. d = e
      BY <2>1, <2>6, <2>12 DEF DisconnectInd, Same, SameCall
    <3>2. Turn(c, e)
      <4>1. "RESET" \in c.flags => App = "recv" /\ ~c.active
        BY <2>12
      <4>2. Owned(c) => OwnerFits(e)
        <5>1. c.phase = "idle"
          BY <1>1, <2>12 DEF CallFits
        <5> QED
          BY <2>4, <2>6, <2>12, <5>1 DEF Owned, OwnerFits, Same, SameCall, CallStates
      <4>3. ~Idle(c)
        BY <2>2 DEF Idle, CallStates
      <4>4. ~c.sending
        BY <1>1, <2>12 DEF FaxFits
      <4> QED
        BY <2>4, <2>5, <2>6, <2>7, <2>8, <2>12, <4>2, <4>3, <4>4, LineTurn DEF CallStates
    <3>3. Calm(c.down, e.down) /\ e.thr = c.thr /\ ~e.sending
      BY <1>1, <1>3, <2>4, <2>6, <2>12, ChannelAssumption
         DEF FaxFits, Same, SameFax, SameState, Onward, LineOnward
    <3>4. Onward(c, e)
      BY <1>1, <2>2, <2>4, <2>6, <2>12, <3>3
         DEF Onward, LineOnward, StateOnward, CallOnward, IdleStates, CallStates, Same,
             SameCall, Joined, CallFits
    <3> QED
      BY <1>5, <2>2, <2>4, <3>1, <3>2, <3>4 DEF TurnDial, KeepsDial
  <2> QED
    BY <2>10, <2>11, <2>12, ChannelAssumption
<1> QED
  BY <1>4, <1>5

-----------------------------------------------------------------------------
(* The timer and the CAPI thread                                           *)

(* StateChangeTimer_CallBack.                                              *)
LEMMA TimerTurn ==
  ASSUME NEW c, Fits(c), c.timer # "none", c.timer = "disconnect" => ~Prompt,
         App = "send" \/ Prompt, NEW d, d = TimerCallBack(c)
  PROVE  TurnDial(c, d) /\ d.plci \in {0, c.plci} /\ Onward(c, d)
<1> DEFINE e == [c EXCEPT !.timer = "none"]
<1>1. Typed(c) /\ c.inuse = 0 /\ ThreadFits(c) /\ CallFits(c) /\ FaxFits(c)
      /\ IdsFit(c) /\ AskFits(c)
  BY DEF Fits
<1>2. c.cs \in CallStates \ {"D_ConnectRequest", "D_ConnectIndication"}
  BY <1>1 DEF IdsFit
<1>3. /\ Shaped(e) /\ Same(c, e) /\ SameIds(c, e) /\ e.cs = c.cs /\ e.timer = "none"
      /\ e.down = c.down
  BY <1>1, NamesHold DEF NamesAreIn, Typed, Shaped, Same, SameCall, SameWish, SameFax, SameIds
<1>4. \/ d = e \/ d = HangUp(e, FALSE)
      \/ c.cs = "D_DisconnectPending" /\ d = Release(e)
  <2>1. e.cs = c.cs
    BY <1>3
  <2> HIDE DEF e
  <2>2. e.cs \notin IdleStates
    BY <1>2, <2>1 DEF IdleStates, CallStates
  <2>3. DisconnectReq(e, FALSE) = HangUp(e, FALSE)
    BY <2>2 DEF DisconnectReq
  <2> QED
    BY <2>3 DEF TimerCallBack, e
<1> HIDE DEF e
<1>5. Typed(e)
  BY <1>1, <1>3 DEF Typed, LineTyped, CallTyped, FaxTyped, Same, SameCall, SameWish,
     SameFax, SameIds
<1>6. ThreadFits(e) /\ IdsFit(e) /\ AskFits(e)
  <2>1. AskFits(e)
    BY <1>1, <1>3 DEF AskFits
  <2>2. ThreadFits(e) /\ IdsFit(e)
    BY <1>1, <1>3 DEF ThreadFits, IdsFit, SameIds
  <2> QED
    BY <2>1, <2>2
<1>7. TurnDial(c, e) /\ Fits(e)
  <2>1. CallFits(e) /\ FaxFits(e) /\ e.inuse = 0
    BY <1>1, <1>3 DEF CallFits, FaxFits, Same, SameIds, SameCall, SameWish, SameFax
  <2>2. Owned(c) => Owned(e)
    BY <1>3 DEF Owned, BlockFits, OwnerFits, Same, SameIds, SameCall, SameFax
  <2>3. Answers(c, e) /\ Sticks(c, e)
    BY <1>3 DEF Answers, Sticks, Busy, Idle, Done, Same, SameCall, SameWish
  <2> QED
    BY <1>2, <1>3, <1>5, <1>6, <2>1, <2>2, <2>3 DEF TurnDial, Turn, KeepsDial, Fits
<1>8. e.cs \in CallStates \ {"D_ConnectRequest"} /\ e.plci = c.plci
  BY <1>2, <1>3 DEF SameIds
<1>9. CASE d = e
  <2>1. Onward(c, e)
    BY <1>2, <1>3, CalmSame
       DEF Onward, LineOnward, StateOnward, CallOnward, Same, SameCall, SameFax, SameIds, CallStates
  <2> QED
    BY <1>7, <1>8, <1>9, <2>1
<1>10. CASE d = HangUp(e, FALSE)
  <2>1. TurnDial(e, d) /\ HungUp(e, d) /\ Onward(e, d)
    BY <1>3, <1>7, <1>8, <1>10, HangUpTurn
  <2>2. TurnDial(c, d)
    BY <1>3, <1>7, <2>1, TurnJoins DEF Same, SameCall, SameWish
  <2>3. Onward(c, d)
    BY <1>2, <1>3, <2>1
       DEF Onward, LineOnward, StateOnward, CallOnward, Same, SameCall, SameFax, SameIds
  <2> QED
    BY <1>8, <2>1, <2>2, <2>3 DEF HungUp
<1>11. CASE c.cs = "D_DisconnectPending" /\ d = Release(e)
  <2>1. ~Prompt /\ App = "send"
    BY <1>1, <1>11 DEF IdsFit
  <2>2. d = Release([c EXCEPT !.timer = "none"])
    BY <1>11 DEF e
  <2> QED
    BY <1>2, <2>1, <2>2, ReleaseTurn
<1> QED
  BY <1>4, <1>9, <1>10, <1>11

(* HandleMessageError.                                                     *)
LEMMA ReadFailsTurn ==
  ASSUME NEW c, Fits(c), c.thr = "run", ~c.sending, NEW capi \in BOOLEAN,
         NEW d, d = RELEASE([c EXCEPT !.capi = capi])
  PROVE  /\ TurnDial(c, d) /\ d.plci = c.plci
         /\ d.cs = c.cs /\ d.ncci = c.ncci /\ d.timer = c.timer /\ d.down = c.down
         /\ SameCall(c, d) /\ SameFax(c, d)
<1> DEFINE e == [c EXCEPT !.capi = capi]
<1>1. Typed(c) /\ c.inuse = 0 /\ ThreadFits(c) /\ CallFits(c) /\ FaxFits(c)
      /\ IdsFit(c) /\ AskFits(c)
  BY DEF Fits
<1>2. /\ Shaped(e) /\ SameLine(c, e) /\ SameCall(c, e) /\ SameWish(c, e) /\ SameFax(c, e)
      /\ e.inuse = c.inuse /\ e.capi = capi
  BY <1>1, NamesHold DEF NamesAreIn, Typed, Shaped, SameLine, SameCall, SameWish, SameFax
<1> HIDE DEF e
<1>3. Typed(e)
  BY <1>1, <1>2 DEF Typed, LineTyped, CallTyped, FaxTyped, SameLine, SameCall, SameWish, SameFax
<1>4. TurnDial(c, e) /\ Fits(e)
  <2>1. ThreadFits(e) /\ IdsFit(e) /\ AskFits(e)
    BY <1>1, <1>2, SameLineFits
  <2>2. CallFits(e) /\ FaxFits(e) /\ e.inuse = 0
    BY <1>1, <1>2 DEF CallFits, FaxFits, SameLine, SameCall, SameWish, SameFax
  <2>3. Owned(c) => Owned(e)
    BY <1>2 DEF Owned, BlockFits, OwnerFits, SameLine, SameCall, SameFax
  <2>4. Answers(c, e) /\ Sticks(c, e)
    BY <1>2 DEF Answers, Sticks, Busy, Idle, Done, SameLine, SameCall, SameWish
  <2> QED
    BY <1>2, <1>3, <2>1, <2>2, <2>3, <2>4 DEF TurnDial, Turn, KeepsDial, Fits, SameLine
<1>5. /\ Typed(d) /\ Same(e, d)
      /\ d.cs = e.cs /\ d.plci = e.plci /\ d.ncci = e.ncci /\ d.init = e.init
      /\ d.timer = e.timer /\ d.down = e.down /\ d.appl = FALSE
      /\ d.thr = (IF e.thr = "exit" THEN "exit" ELSE "late")
  BY <1>3, RELEASEIs DEF e
<1>6. ThreadFits(d) /\ AskFits(d) /\ (NoDial(e.down) => NoDial(d.down))
  <2>1. e.cs \in CallStates \cup {"Registered"} /\ d.thr = "late"
    BY <1>1, <1>2, <1>5 DEF ThreadFits, SameLine, Typed, LineTyped, IdleStates
  <2>2. AskFits(d)
    BY <1>4, <1>5 DEF Fits, AskFits
  <2> QED
    BY <1>5, <2>1, <2>2 DEF ThreadFits, CallStates
<1>7. ~e.sending
  BY <1>2 DEF SameFax
<1>8. TurnDial(e, d)
  BY <1>4, <1>5, <1>6, <1>7, SameTurn DEF TurnDial
<1>9. TurnDial(c, d)
  BY <1>2, <1>4, <1>8, TurnJoins DEF SameCall, SameWish
<1>10. SameCall(c, d) /\ SameFax(c, d)
  BY <1>2, <1>5 DEF Same, SameCall, SameFax
<1> QED
  BY <1>2, <1>5, <1>9, <1>10 DEF SameLine

(* A channel that dials: its request is the only one.                      *)
LEMMA DialAsks ==
  ASSUME NEW c, Typed(c), AskFits(c), NoDial(c.down), NEW d, d.cs = "D_ConnectRequest",
         d.down = Append(c.down, Msg("CONNECT_REQ", 0))
  PROVE  AskFits(d) /\ Calm(c.down, d.down)
<1> DEFINE msg == Msg("CONNECT_REQ", 0)
<1>1. /\ msg \in Messages(Requests) /\ msg.m = "CONNECT_REQ"
  BY DEF Msg, Messages, Requests
<1>0. ~IsData(msg)
  BY <1>1 DEF IsData
<1> HIDE DEF msg
<1>2. c.down \in Seq(Messages(Requests))
  BY DEF Typed, LineTyped
<1>3. /\ Len(d.down) = Len(c.down) + 1 /\ d.down \in Seq(Messages(Requests))
      /\ d.down[Len(c.down) + 1] = msg
      /\ \A i \in 1 .. Len(c.down) : d.down[i] = c.down[i]
  BY <1>1, <1>2, AppendProperties DEF msg
<1>4. DOMAIN d.down = 1 .. Len(c.down) + 1 /\ DOMAIN c.down = 1 .. Len(c.down)
      /\ Len(c.down) \in Nat
  BY <1>2, <1>3
<1>5. \A i \in DOMAIN d.down : \/ i \in DOMAIN c.down /\ d.down[i] = c.down[i]
                               \/ i = Len(c.down) + 1 /\ d.down[i] = msg
  BY <1>3, <1>4
<1>6. ASSUME NEW i \in DOMAIN d.down
      PROVE  /\ d.down[i].id = 0 => d.down[i].m \in {"LISTEN_REQ", "CONNECT_REQ"}
             /\ d.down[i].m = "LISTEN_REQ" => App = "recv"
             /\ d.down[i].m = "DATA_B3_REQ" => d.down[i].h \in Handles
             /\ d.down[i].m = "CONNECT_REQ" => i = Len(c.down) + 1
  <2>1. CASE i \in DOMAIN c.down /\ d.down[i] = c.down[i]
    BY <2>1 DEF AskFits, NoDial
  <2>2. CASE i = Len(c.down) + 1 /\ d.down[i] = msg
    BY <1>1, <2>2
  <2> QED
    BY <1>5, <2>1, <2>2
<1>7. Calm(c.down, d.down)
  BY <1>0, <1>3, <1>4, <1>5 DEF Calm
<1> QED
  BY <1>6, <1>7 DEF AskFits

(* The CAPI thread starts, REGISTER_COMPLETE.                              *)
LEMMA ThreadStartsTurn ==
  ASSUME NEW c, Fits(c), c.thr = "starting", App = "send" \/ OwnerFits(c),
         NEW d, d = REGISTER_COMPLETE([c EXCEPT !.thr = "run"])
  PROVE  /\ Turn(c, d) /\ d.plci = 0 /\ c.plci = 0 /\ c.cs # "D_ConnectRequest"
         /\ Moves(c, d)
<1> DEFINE e == [c EXCEPT !.thr = "run"]
<1>1. Typed(c) /\ c.inuse = 0 /\ ThreadFits(c) /\ CallFits(c) /\ FaxFits(c)
      /\ IdsFit(c) /\ AskFits(c)
  BY DEF Fits
<1>2. /\ c.cs \in {"Registering", "Releasing"} /\ c.plci = 0 /\ c.ncci = 0
      /\ c.init = FALSE /\ c.timer = "none" /\ c.appl = TRUE /\ ~c.sending
  BY <1>1 DEF ThreadFits, IdsFit, FaxFits, Typed, LineTyped, CallStates, IdleStates
<1>3. /\ Shaped(e) /\ Same(c, e) /\ e.cs = c.cs /\ e.plci = 0 /\ e.ncci = 0
      /\ e.init = FALSE /\ e.timer = "none" /\ e.appl = TRUE /\ e.thr = "run"
      /\ e.down = c.down
  BY <1>1, <1>2, NamesHold DEF NamesAreIn, Typed, Shaped, Same, SameCall, SameWish, SameFax
<1>4. d = REGISTER_COMPLETE(e)
  OBVIOUS
<1> HIDE DEF e
<1>5. Typed(e)
  BY <1>1, <1>2, <1>3 DEF Typed, LineTyped, CallTyped, FaxTyped, Same, SameCall, SameWish,
     SameFax
<1>6. NoDial(c.down)
  BY <1>1, <1>2 DEF AskFits, NoDial
<1>7. CASE c.cs = "Releasing"
  <2> DEFINE r == ResetValues(e)
  <2>1. d = RELEASE(r)
    BY <1>3, <1>4, <1>7 DEF REGISTER_COMPLETE
  <2>2. /\ Shaped(r) /\ Same(e, r) /\ r.cs = e.cs /\ r.plci = 0 /\ r.ncci = 0
        /\ r.init = FALSE /\ r.timer = e.timer /\ r.appl = e.appl /\ r.thr = e.thr
        /\ r.down = e.down
    BY <1>5, NamesHold DEF ResetValues, NamesAreIn, Typed, Shaped, Same, SameCall, SameWish,
       SameFax
  <2> HIDE DEF r
  <2>3. Typed(r)
    BY <1>3, <1>5, <2>2 DEF Typed, LineTyped, CallTyped, FaxTyped, Same, SameCall, SameWish,
       SameFax
  <2>4. /\ Typed(d) /\ Same(r, d) /\ d.cs = r.cs /\ d.plci = r.plci /\ d.ncci = r.ncci
        /\ d.init = r.init /\ d.timer = r.timer /\ d.down = r.down /\ d.appl = FALSE
        /\ d.thr = (IF r.thr = "exit" THEN "exit" ELSE "late")
    BY <2>1, <2>3, RELEASEIs
  <2>5. /\ Same(c, d) /\ d.cs = c.cs /\ d.plci = 0 /\ d.ncci = 0 /\ d.init = FALSE
        /\ d.timer = "none" /\ d.down = c.down /\ d.appl = FALSE /\ d.thr = "late"
    BY <1>3, <2>2, <2>4 DEF Same, SameCall, SameWish, SameFax
  <2>6. ThreadFits(d)
    BY <1>7, <2>5 DEF ThreadFits, CallStates
  <2>7. AskFits(d)
    BY <1>1, <2>5 DEF AskFits
  <2>8. Turn(c, d)
    BY <1>2, <2>4, <2>5, <2>6, <2>7, SameTurn
  <2>9. Onward(c, d)
    BY <1>2, <1>7, <2>5, CalmSame
       DEF Onward, LineOnward, StateOnward, CallOnward, Same, SameCall, SameFax, IdleStates, Joined
  <2> QED
    BY <1>2, <1>7, <2>5, <2>8, <2>9 DEF Moves
<1>8. CASE c.cs = "Registering"
  <2> DEFINE x == [e EXCEPT !.cs = "Registered"]
  <2>1. d = Registered(x)
    BY <1>3, <1>4, <1>8 DEF REGISTER_COMPLETE
  <2>2. /\ Shaped(x) /\ Same(e, x) /\ x.cs = "Registered" /\ x.plci = 0 /\ x.ncci = 0
        /\ x.init = FALSE /\ x.timer = "none" /\ x.appl = TRUE /\ x.thr = "run"
        /\ x.down = e.down
    BY <1>3, <1>5, NamesHold DEF NamesAreIn, Typed, Shaped, Same, SameCall, SameWish, SameFax
  <2> HIDE DEF x
  <2>3. Typed(x)
    BY <1>5, <2>2 DEF Typed, LineTyped, CallTyped, FaxTyped, Same, SameCall, SameWish,
       SameFax, IdleStates
  <2>4. /\ Same(c, x) /\ x.inuse = 0 /\ x.down = c.down
    BY <1>1, <1>3, <2>2 DEF Same, SameCall, SameWish, SameFax
  <2>5. AskFits(x) /\ NoDial(x.down)
    BY <1>1, <1>6, <2>4 DEF AskFits, NoDial
  <2>6. App = "recv" => ~c.active /\ ~c.ddi
    BY <1>8, ChannelAssumption DEF OwnerFits, CallStates
  <2>7. CASE "RESET" \in c.flags
    <3> DEFINE y == [x EXCEPT !.flags = @ \cup {"WAIT_RELEASE"}]
    <3>1. d = Release(y)
      BY <2>1, <2>4, <2>7 DEF Registered, Same, SameWish
    <3>2. /\ Shaped(y) /\ SameLine(x, y) /\ SameCall(x, y) /\ SameFax(x, y)
          /\ y.inuse = x.inuse /\ y.capi = x.capi /\ y.msn = x.msn /\ y.quit = x.quit
          /\ y.resets = x.resets /\ y.flags = x.flags \cup {"WAIT_RELEASE"}
      BY <2>3, NamesHold DEF NamesAreIn, Typed, Shaped, SameLine, SameCall, SameFax
    <3> HIDE DEF y
    <3>3. Typed(y)
      BY <2>3, <3>2 DEF Typed, LineTyped, CallTyped, FaxTyped, SameLine, SameCall, SameFax
    <3>4. y.cs = "Registered" /\ y.timer = "none" /\ y.down = c.down
      BY <2>2, <2>4, <3>2 DEF SameLine
    <3>5. /\ Typed(d) /\ d.inuse = y.inuse /\ d.capi = y.capi
          /\ GivesUp(y, d) /\ SameCall(y, d) /\ SameWish(y, d) /\ SameFax(y, d)
      BY <3>1, <3>3, <3>4, ReleaseIs
    <3>6. AskFits(y) /\ NoDial(y.down)
      BY <2>5, <3>2 DEF AskFits, NoDial, SameLine
    <3>7. ThreadFits(d) /\ IdsFit(d) /\ AskFits(d)
      BY <3>3, <3>4, <3>5, <3>6, GivesUpFits
    <3>8. /\ SameCall(c, d) /\ SameFax(c, d) /\ d.inuse = 0 /\ d.msn = c.msn
          /\ d.quit = c.quit /\ d.resets = c.resets /\ "RESET" \in d.flags
          /\ d.cs = "Releasing" /\ d.plci = 0 /\ d.ncci = 0 /\ d.init = FALSE
      BY <2>4, <2>7, <3>2, <3>5 DEF Same, SameCall, SameWish, SameFax, GivesUp
    <3>9. ~c.active /\ ~c.msn
      BY <1>1, <2>6, <2>7, ChannelAssumption DEF CallFits
    <3>10. CallFits(d) /\ FaxFits(d)
      BY <1>1, <1>2, <2>6, <3>8, <3>9 DEF CallFits, FaxFits, SameCall, SameFax, CallStates
    <3>11. Answers(c, d) /\ Sticks(c, d)
      BY <1>8, <2>7, <3>8, <3>9 DEF Answers, Sticks, Busy, Idle, SameCall
    <3>12. Owned(c) => Owned(d)
      <4>1. d.phase = "idle"
        BY <1>1, <3>8, <3>9 DEF CallFits, SameCall
      <4> QED
        BY <3>8, <3>9, <4>1 DEF Owned, OwnerFits, BlockFits, SameCall, SameFax, CallStates
    <3>13. Onward(c, d)
      <4>1. Calm(c.down, d.down) /\ ~d.sending
        BY <1>2, <3>4, <3>5, <3>8, CalmSame DEF GivesUp, SameFax
      <4> QED
        BY <1>2, <1>8, <3>8, <4>1
           DEF Onward, LineOnward, StateOnward, CallOnward, SameCall, IdleStates, Joined
    <3> QED
      BY <1>2, <1>8, <3>5, <3>7, <3>8, <3>10, <3>11, <3>12, <3>13 DEF Turn, Fits, Moves
  <2>8. CASE "RESET" \notin c.flags /\ c.active
    <3> DEFINE z == [x EXCEPT !.cs = "D_ConnectRequest", !.init = TRUE]
               q == Put(z, Msg("CONNECT_REQ", 0))
               w == [q EXCEPT !.flags = {}]
    <3>1. d = CheckListen(w)
      BY <2>1, <2>4, <2>8 DEF Registered, Same, SameWish, SameCall
    <3>2. App = "send" /\ ~c.msn /\ ~c.ddi /\ c.phase # "idle"
      BY <1>1, <2>6, <2>8, ChannelAssumption DEF CallFits
    <3>3. /\ Shaped(z) /\ Same(x, z) /\ z.cs = "D_ConnectRequest" /\ z.init = TRUE
          /\ z.plci = 0 /\ z.ncci = 0 /\ z.timer = "none" /\ z.appl = TRUE /\ z.thr = "run"
          /\ z.down = c.down
      BY <2>2, <2>3, <2>4, NamesHold DEF NamesAreIn, Typed, Shaped, Same, SameCall, SameWish,
         SameFax
    <3> HIDE DEF z
    <3>4. Typed(z)
      BY <2>2, <2>3, <2>4, <3>3 DEF Typed, LineTyped, CallTyped, FaxTyped, Same, SameCall,
         SameWish, SameFax, CallStates
    <3>5. Msg("CONNECT_REQ", 0) \in Messages(Requests)
      BY DEF Msg, Messages, Requests
    <3>6. Typed(q) /\ Same(z, q) /\ SameState(z, q) /\ Puts(z, q, Msg("CONNECT_REQ", 0))
      BY <3>4, <3>5, PutIs
    <3> HIDE DEF q
    <3>7. AskFits(q) /\ Calm(c.down, q.down)
      BY <1>1, <1>6, <3>3, <3>6, DialAsks DEF Puts, SameState
    <3>8. /\ Shaped(w) /\ SameLine(q, w) /\ SameCall(q, w) /\ SameFax(q, w)
          /\ w.inuse = q.inuse /\ w.capi = q.capi /\ w.msn = q.msn /\ w.quit = q.quit
          /\ w.resets = q.resets /\ w.flags = {}
      BY <3>6, NamesHold DEF NamesAreIn, Typed, Shaped, SameLine, SameCall, SameFax
    <3> HIDE DEF w
    <3>9. Typed(w)
      BY <3>6, <3>8 DEF Typed, LineTyped, CallTyped, FaxTyped, SameLine, SameCall, SameFax
    <3>10. w.cs = "D_ConnectRequest" /\ w.inuse = 0 /\ w.msn = c.msn
      BY <2>4, <3>3, <3>6, <3>8 DEF SameLine, SameState, Same, SameWish
    <3>11. Typed(d) /\ Same(w, d) /\ SameLine(w, d)
      BY <3>1, <3>2, <3>8, <3>9, <3>10, CheckListenTurns
    <3>12. /\ d.cs = "D_ConnectRequest" /\ d.init = TRUE /\ d.plci = 0 /\ d.ncci = 0
           /\ d.timer = "none" /\ d.appl = TRUE /\ d.thr = "run" /\ d.down = q.down
      BY <3>3, <3>6, <3>8, <3>11 DEF SameLine, SameState
    <3>13. /\ SameCall(c, d) /\ SameFax(c, d) /\ d.inuse = 0 /\ d.msn = c.msn
           /\ d.quit = c.quit /\ d.resets = c.resets /\ d.flags = {}
      BY <2>4, <3>3, <3>6, <3>8, <3>10, <3>11 DEF Same, SameCall, SameWish, SameFax
    <3>14. ThreadFits(d) /\ IdsFit(d)
      BY <3>12 DEF ThreadFits, IdsFit, CallStates, IdleStates
    <3>15. AskFits(d)
      BY <3>3, <3>6, <3>7, <3>12 DEF AskFits, SameState
    <3>16. CallFits(d) /\ FaxFits(d)
      BY <1>1, <1>2, <2>8, <3>2, <3>12, <3>13 DEF CallFits, FaxFits, SameCall, SameFax
    <3>17. Answers(c, d) /\ Sticks(c, d)
      BY <1>8, <2>8, <3>13 DEF Answers, Sticks, Busy, Idle, SameCall
    <3>18. OwnerFits(c) => OwnerFits(d)
      <4>1. OwnerFits(c) => d.phase # "unseen"
        BY <1>2, <1>8, <3>13 DEF OwnerFits, SameCall
      <4> QED
        BY <2>8, <3>2, <3>12, <3>13, <4>1 DEF OwnerFits, SameCall, CallStates
    <3>19. Owned(c) => Owned(d)
      BY <3>13, <3>18 DEF Owned, BlockFits, SameCall, SameFax
    <3>20. Opens(c, d)
      BY <1>2, <1>8, <3>7, <3>12, <3>13 DEF Opens, SameCall, SameFax, Opening, Joined
    <3> QED
      BY <1>2, <1>8, <3>11, <3>12, <3>13, <3>14, <3>15, <3>16, <3>17, <3>19, <3>20
         DEF Turn, Fits, Moves
  <2>9. CASE "RESET" \notin c.flags /\ ~c.active
    <3> DEFINE w == [x EXCEPT !.flags = {}]
    <3>1. d = CheckListen(w)
      BY <2>1, <2>4, <2>9 DEF Registered, Same, SameWish, SameCall
    <3>2. /\ Shaped(w) /\ SameLine(x, w) /\ SameCall(x, w) /\ SameFax(x, w)
          /\ w.inuse = x.inuse /\ w.capi = x.capi /\ w.msn = x.msn /\ w.quit = x.quit
          /\ w.resets = x.resets /\ w.flags = {}
      BY <2>3, NamesHold DEF NamesAreIn, Typed, Shaped, SameLine, SameCall, SameFax
    <3> HIDE DEF w
    <3>3. Typed(w)
      BY <2>3, <3>2 DEF Typed, LineTyped, CallTyped, FaxTyped, SameLine, SameCall, SameFax
    <3>4. /\ w.cs = "Registered" /\ w.inuse = 0 /\ w.timer = "none" /\ w.msn = c.msn
          /\ w.quit = c.quit /\ w.resets = c.resets /\ SameCall(c, w) /\ SameFax(c, w)
      BY <2>2, <2>4, <3>2 DEF SameLine, Same, SameWish, SameCall, SameFax
    <3>5. AskFits(w) /\ NoDial(w.down)
      BY <2>5, <3>2 DEF AskFits, NoDial, SameLine
    <3>6. ThreadFits(w) /\ IdsFit(w)
      BY <2>2, <3>2 DEF ThreadFits, IdsFit, SameLine, CallStates, IdleStates
    <3>7. ASSUME Typed(d), d.inuse = 0, SameCall(w, d), SameFax(w, d), d.msn = w.msn,
                 d.quit = w.quit, d.resets = w.resets, "RESET" \notin d.flags,
                 ThreadFits(d), IdsFit(d), AskFits(d), d.init = FALSE, d.ncci = 0,
                 d.cs \in {"Registered", "Releasing"}, Calm(c.down, d.down),
                 d.cs = "Registered" => d.thr = "run"
          PROVE  Turn(c, d) /\ Moves(c, d)
      <4>1. CallFits(d) /\ FaxFits(d)
        BY <1>1, <1>2, <2>9, <3>4, <3>7 DEF CallFits, FaxFits, SameCall, SameFax, CallStates
      <4>2. Answers(c, d) /\ Sticks(c, d)
        BY <1>8, <2>9, <3>4, <3>7 DEF Answers, Sticks, Busy, Idle
      <4>3. Owned(c) => Owned(d)
        <5>1. d.phase = "idle"
          BY <1>1, <2>9, <3>4, <3>7 DEF CallFits, SameCall
        <5> QED
          BY <2>9, <3>4, <3>7, <5>1
             DEF Owned, OwnerFits, BlockFits, SameCall, SameFax, CallStates
      <4>4. Onward(c, d)
        BY <1>2, <1>8, <3>4, <3>7
           DEF Onward, LineOnward, StateOnward, CallOnward, SameCall, SameFax, IdleStates, Joined
      <4> QED
        BY <3>7, <4>1, <4>2, <4>3, <4>4 DEF Turn, Fits, Moves
    <3>8. CASE ~c.msn
      <4>0. "RESET" \notin w.flags /\ w.cs = "Registered" /\ w.inuse = 0 /\ ~w.msn
            /\ w.cs # "Released"
        BY <3>2, <3>4, <3>8
      <4>1. /\ Typed(d) /\ d.inuse = 0 /\ GivesUp(w, d) /\ SameCall(w, d) /\ SameFax(w, d)
            /\ d.msn = w.msn /\ d.quit = w.quit /\ d.resets = w.resets
            /\ d.flags = w.flags \cup {"WAIT_RELEASE"}
        BY <3>1, <3>3, <4>0, CheckListenTurns, ZenonT(60)
      <4>2. ThreadFits(d) /\ IdsFit(d) /\ AskFits(d)
        BY <3>3, <3>4, <3>5, <4>1, GivesUpFits
      <4>3. "RESET" \notin d.flags /\ d.init = FALSE /\ d.ncci = 0 /\ d.cs = "Releasing"
            /\ d.plci = 0
        BY <3>2, <4>1 DEF GivesUp
      <4>4. Calm(c.down, d.down)
        BY <2>4, <3>2, <4>1, CalmSame DEF GivesUp, SameLine
      <4> QED
        BY <1>2, <1>8, <3>7, <4>1, <4>2, <4>3, <4>4
    <3>9. CASE c.msn
      <4>1. Typed(d) /\ Same(w, d) /\ SameState(w, d) /\ Puts(w, d, Msg("LISTEN_REQ", 0))
        BY <3>1, <3>2, <3>3, <3>4, <3>9, CheckListenTurns
      <4>2. App = "recv"
        BY <1>1, <3>9, ChannelAssumption DEF CallFits
      <4>3. Plain(Msg("LISTEN_REQ", 0)) /\ ~IsData(Msg("LISTEN_REQ", 0))
        BY <1>2, <1>1, <4>2, PlainMessages DEF Typed, LineTyped
      <4>4. AskFits(d) /\ Calm(w.down, d.down)
        BY <3>3, <3>5, <4>1, <4>3, AskPut, CalmPut DEF Puts, SameState
      <4>5. ThreadFits(d) /\ IdsFit(d)
        BY <3>6, <4>1 DEF ThreadFits, IdsFit, SameState
      <4>6. d.init = FALSE /\ d.ncci = 0 /\ d.cs = "Registered" /\ d.plci = 0
        BY <2>2, <3>2, <4>1 DEF SameState, SameLine
      <4>7. /\ d.inuse = 0 /\ SameCall(w, d) /\ SameFax(w, d) /\ d.msn = w.msn
            /\ d.quit = w.quit /\ d.resets = w.resets /\ "RESET" \notin d.flags
        BY <3>2, <3>4, <4>1 DEF Same, SameWish
      <4>8. Calm(c.down, d.down) /\ d.thr = "run"
        BY <2>2, <2>4, <3>2, <4>1, <4>4 DEF SameLine, SameState
      <4> QED
        BY <1>2, <1>8, <3>7, <4>1, <4>4, <4>5, <4>6, <4>7, <4>8
    <3> QED
      BY <3>8, <3>9
  <2> QED
    BY <2>7, <2>8, <2>9
<1> QED
  BY <1>2, <1>7, <1>8

(* SendData reads a frame and puts it under a free handle, or deletes it.  *)
FrameGone(c, d) ==
  /\ d.block = c.block /\ d.deleted = [c.deleted EXCEPT ![c.next] = @ + 1]
FrameHeld(c, d, h) ==
  /\ d.block = [c.block EXCEPT ![h] = c.next] /\ d.deleted = c.deleted

(* The send block with one more frame.                                     *)
LEMMA FrameBlock ==
  ASSUME NEW c, Typed(c), BlockFits(c), c.next \in Frames, NEW h \in Handles, c.block[h] = 0,
         NEW d, d.next = c.next + 1, d.active = c.active,
         FrameGone(c, d) \/ (FrameHeld(c, d, h) /\ c.active)
  PROVE  BlockFits(d)
<1>1. /\ c.block \in [Handles -> Frames \cup {0}] /\ c.deleted \in [Frames -> Nat]
      /\ c.next \in Nat
  BY ChannelAssumption DEF Typed, FaxTyped
<1>2. \A k \in Handles : c.block[k] < c.next /\ c.block[k] # c.next
  BY <1>1 DEF BlockFits, Frames
<1>3. ASSUME NEW f \in Frames
      PROVE  /\ c.deleted[f] = IF f < c.next /\ \A k \in Handles : c.block[k] # f THEN 1 ELSE 0
             /\ f # 0 /\ f \in Nat /\ (f = c.next => c.deleted[f] = 0)
  BY <1>1 DEF BlockFits, Frames
<1>4. CASE FrameGone(c, d)
  <2>1. d.block = c.block /\ d.deleted = [c.deleted EXCEPT ![c.next] = @ + 1]
    BY <1>4 DEF FrameGone
  <2>2. ASSUME NEW f \in Frames
        PROVE  d.deleted[f] = IF f < d.next /\ \A k \in Handles : d.block[k] # f THEN 1 ELSE 0
    <3>1. CASE f = c.next
      <4>1. d.deleted[f] = 1
        BY <1>1, <1>3, <2>1, <3>1
      <4> QED
        BY <1>1, <1>2, <2>1, <3>1, <4>1
    <3>2. CASE f # c.next
      <4>1. d.deleted[f] = c.deleted[f]
        BY <1>1, <2>1, <3>2
      <4>2. f < d.next <=> f < c.next
        BY <1>1, <1>3, <3>2
      <4> QED
        BY <1>3, <2>1, <4>1, <4>2
    <3> QED
      BY <3>1, <3>2
  <2>3. \A k \in Handles : d.block[k] < d.next
    BY <1>1, <1>2, <2>1 DEF Frames
  <2> QED
    BY <2>1, <2>2, <2>3 DEF BlockFits
<1>5. CASE FrameHeld(c, d, h) /\ c.active
  <2>1. \A k \in Handles : d.block[k] = IF k = h THEN c.next ELSE c.block[k]
    BY <1>1, <1>5 DEF FrameHeld
  <2>2. d.deleted = c.deleted
    BY <1>5 DEF FrameHeld
  <2>3. ASSUME NEW f \in Frames
        PROVE  d.deleted[f] = IF f < d.next /\ \A k \in Handles : d.block[k] # f THEN 1 ELSE 0
    <3>1. CASE f = c.next
      <4>1. d.deleted[f] = 0
        BY <1>3, <2>2, <3>1
      <4> QED
        BY <2>1, <3>1, <4>1
    <3>2. CASE f # c.next
      <4>1. f < d.next <=> f < c.next
        BY <1>1, <1>3, <3>2
      <4>2. (\A k \in Handles : d.block[k] # f) <=> \A k \in Handles : c.block[k] # f
        BY <1>3, <2>1, <3>2
      <4> QED
        BY <1>3, <2>2, <4>1, <4>2
    <3> QED
      BY <3>1, <3>2
  <2>4. \A k \in Handles : d.block[k] < d.next
    BY <1>1, <1>2, <2>1 DEF Frames
  <2>5. \A k, l \in Handles : d.block[k] # 0 /\ d.block[k] = d.block[l] => k = l
    BY <1>2, <2>1 DEF BlockFits
  <2> QED
    BY <1>5, <2>3, <2>4, <2>5 DEF BlockFits
<1> QED
  BY <1>4, <1>5

(* The channel after a frame is read, whatever becomes of it.              *)
LEMMA FrameTurn ==
  ASSUME NEW c, Fits(c), c.sending, ~c.fin, NEW h \in Handles, c.block[h] = 0,
         NEW d, Typed(d), d.inuse = 0, SameCall(c, d), SameWish(c, d), SameState(c, d),
         AskFits(d), NoDial(c.down) => NoDial(d.down),
         d.next = c.next + 1, d.sending = c.sending,
         c.next # MaxFrames => d.fin = FALSE, c.next = MaxFrames => d.fin = TRUE,
         FrameGone(c, d) \/ (FrameHeld(c, d, h) /\ c.active /\ c.cs = "Connected")
  PROVE  TurnDial(c, d)
<1>1. Typed(c) /\ ThreadFits(c) /\ CallFits(c) /\ FaxFits(c) /\ IdsFit(c)
  BY DEF Fits
<1>2. App = "send" /\ c.next \in Frames
  BY <1>1 DEF FaxFits
<1>3. ThreadFits(d) /\ IdsFit(d)
  BY <1>1 DEF ThreadFits, IdsFit, SameState
<1>4. CallFits(d)
  BY <1>1 DEF CallFits, SameCall, SameWish, SameState
<1>5. ~d.fin => d.next \in Frames
  BY <1>2, ChannelAssumption DEF Frames
<1>6. FaxFits(d)
  BY <1>1, <1>2, <1>5 DEF FaxFits, SameState
<1>7. Answers(c, d) /\ Sticks(c, d)
  BY DEF Answers, Sticks, Busy, Idle, Done, SameCall, SameWish, SameState
<1>8. BlockFits(c) => BlockFits(d)
  BY <1>1, <1>2, FrameBlock DEF SameCall
<1>9. OwnerFits(c) => OwnerFits(d)
  <2>1. CASE c.cs = "Connected"
    BY <2>1 DEF OwnerFits, SameCall, SameState, CallStates
  <2>2. CASE FrameGone(c, d)
    BY <2>2 DEF OwnerFits, SameCall, SameState, FrameGone
  <2> QED
    BY <2>1, <2>2
<1>10. KeepsDial(c, d)
  BY DEF KeepsDial, SameState
<1>11. d.cs = "Released" => c.cs = "Released"
  BY DEF SameState
<1> QED
  BY <1>3, <1>4, <1>6, <1>7, <1>8, <1>9, <1>10, <1>11 DEF TurnDial, Turn, Fits, Owned

(* SendData has read a frame from the fax.                                 *)
LEMMA ReadIs ==
  ASSUME NEW c, Typed(c), c.next \in Frames, NEW d, d = SendSFF(c)
  PROVE  /\ Typed(d) /\ d.inuse = c.inuse /\ d.capi = c.capi
         /\ SameLine(c, d) /\ SameCall(c, d) /\ SameWish(c, d)
         /\ d.block = c.block /\ d.deleted = c.deleted /\ d.sending = c.sending
         /\ d.next = c.next + 1 /\ d.fin \in BOOLEAN
         /\ c.next # MaxFrames => d.fin = FALSE
         /\ c.next = MaxFrames => d.fin = TRUE
<1>1. /\ Shaped(d) /\ d.inuse = c.inuse /\ d.capi = c.capi
      /\ SameLine(c, d) /\ SameCall(c, d) /\ SameWish(c, d)
      /\ d.block = c.block /\ d.deleted = c.deleted /\ d.sending = c.sending
      /\ d.next = c.next + 1 /\ d.fin \in BOOLEAN
      /\ c.next # MaxFrames => d.fin = FALSE
      /\ c.next = MaxFrames => d.fin = TRUE
  BY NamesHold DEF NamesAreIn, SendSFF, Typed, Shaped, SameLine, SameCall, SameWish
<1>2. d.next \in 1 .. MaxFrames + 1
  BY <1>1, ChannelAssumption DEF Frames
<1>3. FaxTyped(d)
  BY <1>1, <1>2 DEF Typed, FaxTyped
<1> QED
  BY <1>1, <1>3 DEF Typed, LineTyped, CallTyped, SameLine, SameCall, SameWish

(* A frame that is read and leaves no trace but its deletion.              *)
LEMMA ReadsOnward ==
  ASSUME NEW c, NEW d, SameLine(c, d), SameCall(c, d), d.block = c.block,
         d.sending => c.sending
  PROVE  Onward(c, d)
BY CalmSame DEF Onward, LineOnward, StateOnward, CallOnward, SameLine, SameCall

(* SendData puts a frame to CAPI.                                          *)
LEMMA SendFrameTurn ==
  ASSUME NEW c, Fits(c), c.sending, ~c.fin, NEW h \in Handles, c.block[h] = 0,
         NEW d, d = SendFrame(c, h)
  PROVE  /\ TurnDial(c, d) /\ d.plci \in {0, c.plci}
         /\ \E r : TurnDial(c, r) /\ (Onward(c, r) \/ PutsFrame(c, r, h)) /\ Onward(r, d)
<1> DEFINE s == SendSFF(c)
           b == [s EXCEPT !.block = [s.block EXCEPT ![h] = c.next]]
           r == DataB3Req(s, h, c.next)
<1>1. Typed(c) /\ c.inuse = 0 /\ ThreadFits(c) /\ CallFits(c) /\ FaxFits(c)
      /\ IdsFit(c) /\ AskFits(c)
  BY DEF Fits
<1>2. App = "send" /\ c.next \in Frames
  BY <1>1 DEF FaxFits
<1>3. d = IF r.fin THEN DisconnectReq(r, FALSE) ELSE r
  BY DEF SendFrame
<1>4. /\ Typed(s) /\ s.inuse = 0 /\ s.capi = c.capi
      /\ SameLine(c, s) /\ SameCall(c, s) /\ SameWish(c, s)
      /\ s.block = c.block /\ s.deleted = c.deleted /\ s.sending = c.sending
      /\ s.next = c.next + 1
      /\ c.next # MaxFrames => s.fin = FALSE
      /\ c.next = MaxFrames => s.fin = TRUE
  BY <1>1, <1>2, ReadIs
<1> HIDE DEF s
<1>5. r = IF s.cs = "Connected"
          THEN Put(b, [m |-> "DATA_B3_REQ", id |-> s.ncci, ok |-> TRUE, h |-> h])
          ELSE DataB3Conf(b, h, FALSE)
  BY DEF DataB3Req
<1>6. /\ Shaped(b) /\ SameLine(s, b) /\ SameCall(s, b) /\ SameWish(s, b)
      /\ b.inuse = s.inuse /\ b.capi = s.capi
      /\ b.block = [c.block EXCEPT ![h] = c.next] /\ b.deleted = s.deleted
      /\ b.next = s.next /\ b.fin = s.fin /\ b.sending = s.sending
  BY <1>4, NamesHold DEF NamesAreIn, Typed, Shaped, SameLine, SameCall, SameWish
<1> HIDE DEF b
<1>7. Typed(b)
  <2>1. b.block \in [Handles -> Frames \cup {0}]
    BY <1>1, <1>2, <1>6 DEF Typed, FaxTyped
  <2>2. FaxTyped(b)
    BY <1>4, <1>6, <2>1 DEF Typed, FaxTyped
  <2> QED
    BY <1>4, <1>6, <2>2 DEF Typed, LineTyped, CallTyped, SameLine, SameCall, SameWish
<1>8. b.block[h] = c.next /\ c.next # 0
  BY <1>1, <1>2, <1>6 DEF Typed, FaxTyped, Frames
<1> HIDE DEF r
<1>9. ASSUME s.cs = "Connected"
      PROVE  TurnDial(c, r) /\ r.sending = c.sending /\ r.flags = c.flags
             /\ r.resets = c.resets /\ r.begun = c.begun /\ r.plci = c.plci
             /\ PutsFrame(c, r, h)
  <2> DEFINE msg == [m |-> "DATA_B3_REQ", id |-> s.ncci, ok |-> TRUE, h |-> h]
  <2>1. s.cs = c.cs /\ s.ncci = c.ncci /\ c.ncci # 0 /\ c.ncci \in Plcis /\ c.active
    BY <1>1, <1>2, <1>4, <1>9 DEF IdsFit, CallFits, CallStates, SameLine, Typed, LineTyped
  <2>2. Plain(msg) /\ msg \in Messages(Requests)
    BY <2>1, PlainMessages DEF Plain
  <2>3. r = Put(b, msg)
    BY <1>5, <1>9
  <2>11. msg = Frame(c, h)
    BY <2>1 DEF Frame
  <2> HIDE DEF msg
  <2>4. Typed(r) /\ Same(b, r) /\ SameState(b, r) /\ Puts(b, r, msg)
    BY <1>7, <2>2, <2>3, PutIs
  <2>5. /\ SameState(c, r) /\ r.inuse = 0 /\ SameCall(c, r) /\ SameWish(c, r)
        /\ r.next = c.next + 1 /\ r.fin = s.fin /\ r.sending = c.sending
        /\ FrameHeld(c, r, h)
    BY <1>4, <1>6, <2>4
       DEF SameLine, SameState, Same, SameCall, SameWish, SameFax, FrameHeld
  <2>6. c.appl = b.appl /\ c.down = b.down /\ c.cs = b.cs
    BY <1>4, <1>6 DEF SameLine
  <2>7. AskFits(b)
    BY <1>1, <2>6 DEF AskFits
  <2>8. AskFits(r) /\ (NoDial(c.down) => NoDial(r.down))
    BY <1>7, <2>2, <2>4, <2>6, <2>7, AskPut DEF Puts, SameState
  <2>9. (c.next # MaxFrames => r.fin = FALSE) /\ (c.next = MaxFrames => r.fin = TRUE)
    BY <1>4, <2>5
  <2>10. TurnDial(c, r)
    BY <1>9, <2>1, <2>4, <2>5, <2>8, <2>9, FrameTurn
  <2>12. PutsFrame(c, r, h)
    BY <1>8, <1>9, <2>1, <2>4, <2>5, <2>6, <2>11 DEF PutsFrame, FrameHeld, Puts
  <2> QED
    BY <2>5, <2>10, <2>12 DEF SameState, SameCall, SameWish
<1>10. ASSUME s.cs # "Connected"
      PROVE  TurnDial(c, r) /\ r.sending = c.sending /\ r.flags = c.flags
             /\ r.resets = c.resets /\ r.begun = c.begun /\ r.plci = c.plci
             /\ Onward(c, r)
  <2>1. r = Drops(b, h)
    BY <1>5, <1>10 DEF Drops
  <2>2. /\ Typed(r) /\ r.inuse = b.inuse /\ r.capi = b.capi
        /\ SameLine(b, r) /\ SameCall(b, r) /\ SameWish(b, r)
        /\ r.block = [b.block EXCEPT ![h] = 0]
        /\ r.deleted = [b.deleted EXCEPT ![b.block[h]] = @ + 1]
        /\ r.next = b.next /\ r.fin = b.fin /\ r.sending = b.sending
    BY <1>7, <1>8, <2>1, DropIs
  <2>3. r.block = c.block
    BY <1>1, <1>6, <2>2 DEF Typed, FaxTyped
  <2>4. FrameGone(c, r)
    BY <1>4, <1>6, <1>8, <2>2, <2>3 DEF FrameGone
  <2>5. /\ SameLine(c, r) /\ r.inuse = 0 /\ SameCall(c, r) /\ SameWish(c, r)
        /\ r.next = c.next + 1 /\ r.fin = s.fin /\ r.sending = c.sending
    BY <1>4, <1>6, <2>2 DEF SameLine, SameCall, SameWish
  <2>6. AskFits(r) /\ SameState(c, r) /\ r.down = c.down
    BY <1>1, <2>5 DEF AskFits, SameLine, SameState
  <2>7. (c.next # MaxFrames => r.fin = FALSE) /\ (c.next = MaxFrames => r.fin = TRUE)
    BY <1>4, <2>5
  <2>8. TurnDial(c, r)
    BY <2>2, <2>4, <2>5, <2>6, <2>7, FrameTurn
  <2>9. Onward(c, r)
    BY <2>3, <2>5, ReadsOnward
  <2> QED
    BY <2>5, <2>8, <2>9 DEF SameLine, SameCall, SameWish
<1>11. TurnDial(c, r) /\ r.sending = c.sending /\ r.flags = c.flags /\ r.resets = c.resets
       /\ r.begun = c.begun /\ r.plci = c.plci /\ (Onward(c, r) \/ PutsFrame(c, r, h))
  BY <1>9, <1>10
<1>12. CASE ~r.fin
  BY <1>3, <1>11, <1>12, NothingOnward
<1>13. CASE r.fin
  <2>1. TurnDial(r, d) /\ d.plci \in {0, r.plci} /\ Onward(r, d)
    BY <1>2, <1>3, <1>11, <1>13, SenderHangsUp DEF TurnDial, Turn
  <2> QED
    BY <1>11, <2>1, TurnJoins
<1> QED
  BY <1>12, <1>13

(* SendData reads a frame that CAPI does not get, and deletes it.          *)
LEMMA SendDroppedTurn ==
  ASSUME NEW c, Fits(c), c.sending, ~c.fin, ~QueueFull(c), NEW d, d = SendDropped(c)
  PROVE  /\ TurnDial(c, d) /\ d.plci \in {0, c.plci}
         /\ \E r : TurnDial(c, r) /\ Onward(c, r) /\ Onward(r, d)
<1> DEFINE s == SendSFF(c)
           g == [s EXCEPT !.deleted = [s.deleted EXCEPT ![c.next] = @ + 1]]
<1>1. Typed(c) /\ c.inuse = 0 /\ FaxFits(c) /\ AskFits(c)
  BY DEF Fits
<1>2. App = "send" /\ c.next \in Frames
  BY <1>1 DEF FaxFits
<1>3. PICK h \in Handles : c.block[h] = 0
  BY DEF QueueFull
<1>4. d = DisconnectReq(g, TRUE)
  BY DEF SendDropped
<1>5. /\ Typed(s) /\ s.inuse = 0 /\ s.capi = c.capi
      /\ SameLine(c, s) /\ SameCall(c, s) /\ SameWish(c, s)
      /\ s.block = c.block /\ s.deleted = c.deleted /\ s.sending = c.sending
      /\ s.next = c.next + 1
      /\ c.next # MaxFrames => s.fin = FALSE
      /\ c.next = MaxFrames => s.fin = TRUE
  BY <1>1, <1>2, ReadIs
<1> HIDE DEF s
<1>6. /\ Shaped(g) /\ SameLine(s, g) /\ SameCall(s, g) /\ SameWish(s, g)
      /\ g.inuse = s.inuse /\ g.capi = s.capi /\ g.block = s.block
      /\ g.deleted = [s.deleted EXCEPT ![c.next] = @ + 1]
      /\ g.next = s.next /\ g.fin = s.fin /\ g.sending = s.sending
  BY <1>5, NamesHold DEF NamesAreIn, Typed, Shaped, SameLine, SameCall, SameWish
<1> HIDE DEF g
<1>7. Typed(g)
  <2>1. s.deleted \in [Frames -> Nat] /\ s.deleted[c.next] + 1 \in Nat
    BY <1>2, <1>5 DEF Typed, FaxTyped
  <2>2. g.deleted \in [Frames -> Nat]
    BY <1>6, <2>1
  <2>3. FaxTyped(g)
    BY <1>5, <1>6, <2>2 DEF Typed, FaxTyped
  <2> QED
    BY <1>5, <1>6, <2>3 DEF Typed, LineTyped, CallTyped, SameLine, SameCall, SameWish
<1>8. /\ SameLine(c, g) /\ SameCall(c, g) /\ SameWish(c, g) /\ g.inuse = 0
      /\ g.next = c.next + 1 /\ g.sending = c.sending
      /\ c.next # MaxFrames => g.fin = FALSE
      /\ c.next = MaxFrames => g.fin = TRUE
  BY <1>5, <1>6 DEF SameLine, SameCall, SameWish
<1>9. FrameGone(c, g)
  BY <1>5, <1>6 DEF FrameGone
<1>10. AskFits(g) /\ SameState(c, g) /\ g.down = c.down
  BY <1>1, <1>8 DEF AskFits, SameLine, SameState
<1>11. TurnDial(c, g)
  BY <1>3, <1>7, <1>8, <1>9, <1>10, FrameTurn
<1>12. TurnDial(g, d) /\ d.plci \in {0, g.plci} /\ Onward(g, d)
  BY <1>2, <1>4, <1>8, <1>11, SenderHangsUp DEF TurnDial, Turn
<1>13. Onward(c, g)
  BY <1>5, <1>6, <1>8, ReadsOnward
<1> QED
  BY <1>8, <1>11, <1>12, <1>13, TurnJoins DEF SameLine, SameCall, SameWish

(* SendData returns.                                                       *)
LEMMA SendDataReturnsTurn ==
  ASSUME NEW c, Fits(c), NEW d, d = Back([c EXCEPT !.sending = FALSE])
  PROVE  /\ TurnDial(c, d) /\ d.plci = c.plci
         /\ \E e : TurnDial(c, e) /\ Onward(c, e) /\ Onward(e, d)
<1> DEFINE e == [c EXCEPT !.sending = FALSE]
<1>1. Typed(c) /\ c.inuse = 0 /\ ThreadFits(c) /\ IdsFit(c) /\ AskFits(c) /\ CallFits(c)
      /\ FaxFits(c)
  BY DEF Fits
<1>2. /\ Shaped(e) /\ SameLine(c, e) /\ SameCall(c, e) /\ SameWish(c, e)
      /\ e.inuse = c.inuse /\ e.capi = c.capi /\ e.block = c.block
      /\ e.deleted = c.deleted /\ e.next = c.next /\ e.fin = c.fin /\ e.sending = FALSE
  BY <1>1, NamesHold DEF NamesAreIn, Typed, Shaped, SameLine, SameCall, SameWish
<1>3. d = Back(e)
  OBVIOUS
<1> HIDE DEF e
<1>4. Typed(e)
  BY <1>1, <1>2 DEF Typed, LineTyped, CallTyped, FaxTyped, SameLine, SameCall, SameWish
<1>5. ThreadFits(e) /\ IdsFit(e) /\ AskFits(e)
  BY <1>1, <1>2, SameLineFits
<1>6. CallFits(e) /\ FaxFits(e)
  BY <1>1, <1>2 DEF CallFits, FaxFits, SameLine, SameCall, SameWish
<1>7. Answers(c, e) /\ Sticks(c, e)
  BY <1>2 DEF Answers, Sticks, Busy, Idle, Done, SameLine, SameCall, SameWish
<1>8. BlockFits(c) => BlockFits(e)
  BY <1>2 DEF BlockFits, SameCall
<1>9. OwnerFits(c) => OwnerFits(e)
  BY <1>2 DEF OwnerFits, SameLine, SameCall
<1>10. TurnDial(c, e)
  BY <1>1, <1>2, <1>4, <1>5, <1>6, <1>7, <1>8, <1>9
     DEF TurnDial, Turn, KeepsDial, Fits, Owned, SameLine
<1>11. TurnDial(e, d) /\ d.plci = e.plci /\ Onward(e, d)
  BY <1>3, <1>10, BackTurn DEF TurnDial, Turn
<1>12. Onward(c, e)
  BY <1>2, ReadsOnward
<1> QED
  BY <1>2, <1>10, <1>11, <1>12, TurnJoins DEF SameLine, SameCall, SameWish

-----------------------------------------------------------------------------
(* The end of the registration                                             *)

(* The CAPI thread ends and is joined.                                     *)
LEMMA ThreadEndsFits ==
  ASSUME NEW c, Fits(c), c.thr = "exit",
         NEW d, d = [ResetValues(c) EXCEPT !.cs = "Released", !.timer = "none",
                                           !.thr = "none", !.down = <<>>]
  PROVE  /\ Fits(d) /\ SameCall(c, d) /\ SameWish(c, d) /\ SameFax(c, d)
         /\ d.cs = "Released" /\ d.plci = 0 /\ d.ncci = 0 /\ d.down = <<>>
         /\ Answers(c, d) /\ Sticks(c, d) /\ (BlockFits(c) => BlockFits(d))
         /\ OwnerFits(c) /\ c.cs \in IdleStates => OwnerFits(d)
         /\ Rests(c, d)
<1>1. Typed(c) /\ c.inuse = 0 /\ ThreadFits(c) /\ CallFits(c) /\ FaxFits(c)
  BY DEF Fits
<1>2. /\ Shaped(d) /\ SameCall(c, d) /\ SameWish(c, d) /\ SameFax(c, d)
      /\ d.inuse = 0 /\ d.capi = c.capi /\ d.appl = c.appl
      /\ d.cs = "Released" /\ d.plci = 0 /\ d.ncci = 0 /\ d.init = FALSE
      /\ d.timer = "none" /\ d.thr = "none" /\ d.down = <<>>
  BY <1>1, NamesHold
     DEF NamesAreIn, Typed, Shaped, ResetValues, SameCall, SameWish, SameFax
<1>3. d.down \in Seq(Messages(Requests)) /\ DOMAIN d.down = {}
  BY <1>2, EmptySeq
<1>4. Typed(d)
  BY <1>1, <1>2, <1>3
     DEF Typed, LineTyped, CallTyped, FaxTyped, SameCall, SameWish, SameFax, IdleStates
<1>5. ThreadFits(d) /\ IdsFit(d)
  BY <1>1, <1>2 DEF ThreadFits, IdsFit, IdleStates, CallStates
<1>6. AskFits(d)
  BY <1>3 DEF AskFits
<1>7. CallFits(d) /\ FaxFits(d)
  BY <1>1, <1>2 DEF CallFits, FaxFits, SameCall, SameWish, SameFax, CallStates
<1>8. Answers(c, d) /\ Sticks(c, d)
  BY <1>2 DEF Answers, Sticks, Busy, Idle, Done, SameCall, SameWish
<1>9. BlockFits(c) => BlockFits(d)
  BY <1>2 DEF BlockFits, SameCall, SameFax
<1>10. OwnerFits(c) /\ c.cs \in IdleStates => OwnerFits(d)
  BY <1>2 DEF OwnerFits, SameCall, SameFax, IdleStates, CallStates
<1>11. Rests(c, d)
  BY <1>1, <1>2 DEF Rests, FaxFits, SameCall, SameFax, IdleStates
<1> QED
  BY <1>2, <1>4, <1>5, <1>6, <1>7, <1>8, <1>9, <1>10, <1>11 DEF Fits

(* A released channel registers.                                           *)
LEMMA RegisterTurn ==
  ASSUME NEW c, Fits(c), c.cs = "Released", NEW d, TakesUp(c, d), Typed(d), d.inuse = 0,
         SameCall(c, d), SameFax(c, d), d.msn = c.msn, d.quit = c.quit, d.resets = c.resets,
         "RESET" \notin c.flags, "RESET" \notin d.flags, App = "send" => c.active
  PROVE  /\ Fits(d) /\ Answers(c, d) /\ Sticks(c, d)
         /\ BlockFits(c) => BlockFits(d)
         /\ OwnerFits(c) => OwnerFits(d)
         /\ Rests(c, d)
<1>1. Typed(c) /\ ThreadFits(c) /\ IdsFit(c) /\ AskFits(c) /\ CallFits(c) /\ FaxFits(c)
  BY DEF Fits
<1>2. ThreadFits(d) /\ IdsFit(d)
  BY <1>1 DEF ThreadFits, IdsFit, TakesUp, IdleStates, CallStates
<1>3. AskFits(d)
  BY <1>1 DEF AskFits, TakesUp
<1>4. CallFits(d) /\ FaxFits(d)
  BY <1>1 DEF CallFits, FaxFits, ThreadFits, TakesUp, SameCall, SameFax, CallStates
<1>5. Answers(c, d) /\ Sticks(c, d)
  BY <1>1 DEF Answers, Sticks, Busy, Idle, SameCall
<1>6. BlockFits(c) => BlockFits(d)
  BY DEF BlockFits, SameCall, SameFax
<1>7. OwnerFits(c) => OwnerFits(d)
  BY <1>1 DEF OwnerFits, IdsFit, TakesUp, SameCall, SameFax, CallStates, IdleStates
<1>8. Rests(c, d)
  BY <1>1 DEF Rests, FaxFits, ThreadFits, TakesUp, SameCall, SameFax, IdleStates
<1> QED
  BY <1>2, <1>3, <1>4, <1>5, <1>6, <1>7, <1>8 DEF Fits

(* DisconnectInd in RELEASE_COMPLETE.                                      *)
LEMMA ReleaseDisconnectsFits ==
  ASSUME NEW c, Fits(c), c.cs = "Released",
         App = "send" => c.active /\ "RESET" \notin c.flags, c.ddi => c.active,
         NEW d, d = DisconnectInd(c)
  PROVE  /\ Fits(d) /\ Answers(c, d) /\ Sticks(c, d) /\ d.plci = 0
         /\ d.cs \in {"Released", "Registering"}
         /\ (BlockFits(c) => BlockFits(d)) /\ OwnerFits(d)
         /\ Rests(c, d) /\ d.phase = "idle"
<1>1. Typed(c) /\ c.inuse = 0 /\ ThreadFits(c) /\ IdsFit(c) /\ AskFits(c) /\ CallFits(c)
      /\ FaxFits(c) /\ c.plci = 0 /\ c.ncci = 0 /\ c.thr = "none" /\ ~c.sending
  BY DEF Fits, IdsFit, IdleStates, ThreadFits, FaxFits
<1>20. ASSUME d.cs \in {"Released", "Registering"}, d.down = c.down, d.thr # "late",
              d.sending = c.sending, d.phase = "idle", d.begun = c.begun
       PROVE  Rests(c, d)
  BY <1>1, <1>20 DEF Rests, IdleStates
<1>21. ASSUME SameLine(c, d), d.sending = c.sending, d.phase = "idle", d.begun = c.begun
       PROVE  Rests(c, d)
  BY <1>1, <1>20, <1>21 DEF SameLine
<1>2. ASSUME ~c.active PROVE OwnerFits(c) /\ d = c
  <2>1. c.phase = "idle"
    BY <1>1, <1>2 DEF CallFits
  <2> QED
    BY <1>1, <1>2, <2>1, ChannelAssumption DEF OwnerFits, DisconnectInd, CallStates
<1>3. ASSUME Ended(c, d), SameLine(c, d), d.msn = c.msn \/ ~d.msn, d.quit = c.quit \/ App = "recv",
             "RESET" \in d.flags => ~d.msn, c.active
      PROVE  /\ Fits(d) /\ (BlockFits(c) => BlockFits(d)) /\ OwnerFits(d)
             /\ Rests(c, d) /\ d.phase = "idle"
  <2>1. /\ Typed(d) /\ d.inuse = 0 /\ Over(c, d) /\ d.ddi = FALSE /\ d.active = FALSE
        /\ d.phase = "idle" /\ (c.fin = TRUE => d.fin = TRUE) /\ (d.fin = c.fin \/ d.fin = TRUE)
        /\ d.next = c.next /\ d.sending = c.sending
    BY <1>1, <1>3 DEF Ended, Over, CallFits
  <2>2. ThreadFits(d) /\ IdsFit(d) /\ AskFits(d)
    BY <1>1, <1>3, SameLineFits
  <2>3. CallFits(d)
    BY <1>1, <1>3, <2>1 DEF CallFits, SameLine, CallStates
  <2>4. FaxFits(d)
    BY <1>1, <1>3, <2>1 DEF FaxFits, Over, SameLine
  <2>5. OwnerFits(d)
    BY <1>1, <1>3, <2>1 DEF OwnerFits, SameLine, CallStates
  <2>6. BlockFits(c) => BlockFits(d)
    BY <1>1, <2>1, OverBlock
  <2>7. Rests(c, d)
    BY <1>3, <1>21, <2>1 DEF Over
  <2> QED
    BY <2>1, <2>2, <2>3, <2>4, <2>5, <2>6, <2>7 DEF Fits
<1>4. CASE App = "send"
  <2>1. c.active /\ ~c.ddi /\ ~c.msn /\ "RESET" \notin c.flags /\ ~c.quit
    BY <1>1, <1>4 DEF CallFits
  <2>2. /\ Ended(c, d) /\ d.quit = c.quit /\ ~d.msn
        /\ c.flags = {} => SameLine(c, d) /\ d.flags = {} /\ d.resets = c.resets + 1
        /\ c.flags # {} => /\ "RESET" \in d.flags /\ d.resets = c.resets /\ SameLine(c, d)
    BY <1>1, <1>4, <2>1, SendCallEnds
  <2>3. SameLine(c, d)
    BY <2>2
  <2>4. Fits(d) /\ (BlockFits(c) => BlockFits(d)) /\ OwnerFits(d)
        /\ Rests(c, d) /\ d.phase = "idle"
    BY <1>3, <2>1, <2>2, <2>3
  <2>5. Answers(c, d) /\ Sticks(c, d)
    BY <1>4, <2>1, <2>2, <2>3 DEF Answers, Sticks, Busy, Idle, Done, Ended, Over, SameLine
  <2> QED
    BY <1>1, <2>3, <2>4, <2>5 DEF SameLine
<1>5. CASE App = "recv" /\ ~c.active
  <2>1. d = c /\ c.phase = "idle"
    BY <1>1, <1>2, <1>5 DEF CallFits, Typed, CallTyped
  <2>2. Rests(c, d)
    BY <1>21, <2>1 DEF SameLine
  <2> QED
    BY <1>1, <1>2, <1>5, <2>1, <2>2, TurnsNot DEF TurnDial, Turn
<1>6. CASE App = "recv" /\ c.active
  <2>1. Ended(c, d)
    BY <1>1, <1>6, RecvCallEnds
  <2>2. CASE "RESET" \in c.flags
    <3>1. /\ d.msn = c.msn /\ d.quit = c.quit /\ d.resets = c.resets
          /\ "RESET" \in d.flags /\ SameLine(c, d) /\ ~c.msn
      BY <1>1, <1>6, <2>2, RecvCallEnds DEF CallFits
    <3>2. Fits(d) /\ (BlockFits(c) => BlockFits(d)) /\ OwnerFits(d)
          /\ Rests(c, d) /\ d.phase = "idle"
      BY <1>3, <1>6, <2>1, <3>1
    <3>3. Answers(c, d) /\ Sticks(c, d)
      BY <1>6, <2>1, <3>1 DEF Answers, Sticks, Ended, Over
    <3> QED
      BY <1>1, <3>1, <3>2, <3>3 DEF SameLine
  <2>3. CASE "RESET" \notin c.flags /\ ~c.msn
    <3>1. /\ SameLine(c, d) /\ d.msn = c.msn /\ d.quit = c.quit
          /\ d.flags = {} /\ d.resets = c.resets
      BY <1>1, <1>6, <2>3, RecvCallEnds
    <3>2. Fits(d) /\ (BlockFits(c) => BlockFits(d)) /\ OwnerFits(d)
          /\ Rests(c, d) /\ d.phase = "idle"
      BY <1>3, <1>6, <2>1, <3>1
    <3>3. Answers(c, d) /\ Sticks(c, d)
      BY <1>6, <2>3, <3>1 DEF Answers, Sticks
    <3> QED
      BY <1>1, <3>1, <3>2, <3>3 DEF SameLine
  <2>4. CASE "RESET" \notin c.flags /\ c.msn
    <3>1. ListenBegins(c, d) \/ ListenFails(c, d)
      BY <1>1, <1>6, <2>4, RecvCallEnds
    <3>2. CASE ListenFails(c, d)
      <4>1. /\ SameLine(c, d) /\ ~d.msn /\ d.flags = {} /\ d.resets = c.resets + 1
        BY <3>2 DEF ListenFails
      <4>2. Fits(d) /\ (BlockFits(c) => BlockFits(d)) /\ OwnerFits(d)
            /\ Rests(c, d) /\ d.phase = "idle"
        BY <1>3, <1>6, <2>1, <4>1
      <4>3. Answers(c, d) /\ Sticks(c, d)
        BY <1>6, <2>4, <4>1 DEF Answers, Sticks
      <4> QED
        BY <1>1, <4>1, <4>2, <4>3 DEF SameLine
    <3>3. CASE ListenBegins(c, d)
      <4>1. /\ Typed(d) /\ d.inuse = 0 /\ d.ddi = FALSE /\ d.active = FALSE
            /\ d.phase = "idle" /\ (d.fin = c.fin \/ d.fin = TRUE)
            /\ d.next = c.next /\ d.sending = c.sending
            /\ \A h \in Handles : d.block[h] = 0
        BY <1>1, <1>6, <2>1 DEF Ended, Over, CallFits
      <4>2. /\ d.cs = "Registering" /\ d.appl = TRUE /\ d.thr = "starting"
            /\ d.plci = 0 /\ d.ncci = 0 /\ d.init = c.init /\ d.timer = c.timer
            /\ d.down = c.down /\ "RESET" \notin d.flags /\ d.resets = c.resets
        BY <1>1, <2>4, <3>3 DEF ListenBegins, TakesUp
      <4>3. ThreadFits(d) /\ IdsFit(d)
        BY <1>1, <4>2 DEF ThreadFits, IdsFit, IdleStates, CallStates
      <4>4. AskFits(d)
        BY <1>1, <4>2 DEF AskFits
      <4>5. CallFits(d) /\ FaxFits(d)
        BY <1>1, <1>6, <4>1, <4>2 DEF CallFits, FaxFits, CallStates
      <4>6. OwnerFits(d)
        BY <4>1, <4>2 DEF OwnerFits, CallStates
      <4>7. BlockFits(c) => BlockFits(d)
        BY <1>1, <2>1, OverBlock DEF Ended
      <4>8. Answers(c, d) /\ Sticks(c, d)
        BY <1>6, <2>4, <4>2 DEF Answers, Sticks
      <4>9. Rests(c, d)
        BY <1>20, <2>1, <4>1, <4>2 DEF Ended, Over
      <4> QED
        BY <4>1, <4>2, <4>3, <4>4, <4>5, <4>6, <4>7, <4>8, <4>9 DEF Fits
    <3> QED
      BY <3>1, <3>2, <3>3
  <2> QED
    BY <2>2, <2>3, <2>4
<1> QED
  BY <1>4, <1>5, <1>6, ChannelAssumption

(* Release_Complete.                                                       *)
LEMMA ReleaseCompletesTurn ==
  ASSUME NEW c, Fits(c), App = "send" \/ OwnerFits(c), NEW d, d = Release_Complete(c)
  PROVE  /\ TurnDial(c, d) /\ d.plci = c.plci
         /\ d.cs = "Released" => ~d.active
         /\ Onward(c, d) \/ (c.cs = "Released" /\ Rests(c, d))
<1>1. Typed(c) /\ c.inuse = 0 /\ ThreadFits(c) /\ IdsFit(c) /\ AskFits(c) /\ CallFits(c)
      /\ FaxFits(c)
  BY DEF Fits
<1>2. c.cs = "Released" => c.plci = 0 /\ c.ncci = 0
  BY <1>1 DEF IdsFit, IdleStates
<1>3. App = "recv" /\ c.active => c.cs # "Released" /\ c.cs # "Registering"
  BY ChannelAssumption DEF OwnerFits, CallStates
<1>4. CASE "RESET" \in c.flags
  <2> DEFINE new == IF c.active \/ c.msn THEN {"WAIT_REGISTER"} ELSE {}
  <2>1. new \in SUBSET {"WAIT_REGISTER", "WAIT_RELEASE", "RESET"}
    OBVIOUS
  <2>2. d = CheckFinishReset(c, new)
    BY <1>4 DEF Release_Complete
  <2> HIDE DEF new
  <2>3. /\ Typed(d) /\ d.inuse = 0 /\ d.capi = c.capi
        /\ SameLine(c, d) /\ SameCall(c, d) /\ SameFax(c, d)
        /\ d.msn = c.msn /\ d.quit = c.quit
        /\ d.flags = {} /\ d.resets = c.resets + 1
    <3>1. Typed(c) /\ c.inuse = 0
      BY <1>1
    <3>2. /\ Typed(d) /\ d.inuse = 0 /\ d.capi = c.capi
          /\ SameLine(c, d) /\ SameCall(c, d) /\ SameFax(c, d)
          /\ d.msn = c.msn /\ d.quit = c.quit
          /\ "RESET" \in c.flags => d.flags = {} /\ d.resets = c.resets + 1
      BY <2>1, <2>2, <3>1, CheckFinishResetIs
    <3> QED
      BY <1>4, <3>2
  <2>4. ThreadFits(d) /\ IdsFit(d) /\ AskFits(d)
    BY <1>1, <2>3, SameLineFits
  <2>5. CallFits(d) /\ FaxFits(d)
    BY <1>1, <2>3 DEF CallFits, FaxFits, SameLine, SameCall, SameFax
  <2>6. BlockFits(c) => BlockFits(d)
    BY <2>3 DEF BlockFits, SameCall, SameFax
  <2>7. OwnerFits(c) => OwnerFits(d)
    BY <2>3 DEF OwnerFits, SameLine, SameCall, SameFax
  <2>8. App = "send" => c.cs \in {"Released", "Releasing"} /\ ~c.active
    BY <1>1, <1>4 DEF CallFits, Typed, LineTyped, IdleStates
  <2>9. Answers(c, d)
    BY <1>1, <1>4, <2>3, <2>8
       DEF Answers, Busy, Idle, Done, SameLine, SameCall, Typed, CallTyped
  <2>10. Sticks(c, d)
    BY <2>3 DEF Sticks, SameCall
  <2>11. d.cs = "Released" => ~d.active
    BY <1>3, <2>3, <2>8, ChannelAssumption DEF SameLine, SameCall
  <2>12. Onward(c, d)
    BY <2>3, ReadsOnward DEF SameFax
  <2> QED
    BY <2>3, <2>4, <2>5, <2>6, <2>7, <2>9, <2>10, <2>11, <2>12
       DEF TurnDial, Turn, KeepsDial, Fits, Owned, SameLine
<1>5. ASSUME NEW new \in SUBSET {"WAIT_REGISTER"}, "RESET" \notin c.flags,
             new = IF c.active \/ c.msn THEN {"WAIT_REGISTER"} ELSE {}
      PROVE  LET e == CheckFinishReset(c, new)
             IN  /\ Typed(e) /\ e.inuse = 0 /\ e.capi = c.capi
                 /\ SameLine(c, e) /\ SameCall(c, e) /\ SameFax(c, e)
                 /\ e.msn = c.msn /\ e.quit = c.quit /\ e.flags = new /\ e.resets = c.resets
                 /\ d = IF c.active \/ c.msn THEN Register(e) ELSE e
                 /\ TurnDial(c, e) /\ Fits(e) /\ Onward(c, e)
  <2> DEFINE e == CheckFinishReset(c, new)
  <2>1. /\ Typed(e) /\ e.inuse = 0 /\ e.capi = c.capi
        /\ SameLine(c, e) /\ SameCall(c, e) /\ SameFax(c, e)
        /\ e.msn = c.msn /\ e.quit = c.quit /\ e.flags = new /\ e.resets = c.resets
    BY <1>1, <1>5, CheckFinishResetIs
  <2>2. d = IF c.active \/ c.msn THEN Register(e) ELSE e
    BY <1>5 DEF Release_Complete
  <2> HIDE DEF e
  <2>3. ThreadFits(e) /\ IdsFit(e) /\ AskFits(e)
    BY <1>1, <2>1, SameLineFits
  <2>4. CallFits(e) /\ FaxFits(e)
    BY <1>1, <1>5, <2>1 DEF CallFits, FaxFits, SameLine, SameCall, SameFax
  <2>5. BlockFits(c) => BlockFits(e)
    BY <2>1 DEF BlockFits, SameCall, SameFax
  <2>6. OwnerFits(c) => OwnerFits(e)
    BY <2>1 DEF OwnerFits, SameLine, SameCall, SameFax
  <2>7. Answers(c, e) /\ Sticks(c, e)
    <3>1. "RESET" \notin e.flags
      BY <1>5, <2>1
    <3>2. App = "send" /\ Idle(c) => e.flags = {}
      BY <1>1, <1>5, <2>1 DEF Idle, CallFits
    <3> QED
      BY <1>5, <2>1, <3>1, <3>2 DEF Answers, Sticks, Busy, Idle, Done, SameLine, SameCall
  <2>8. TurnDial(c, e) /\ Fits(e)
    BY <2>1, <2>3, <2>4, <2>5, <2>6, <2>7 DEF TurnDial, Turn, KeepsDial, Fits, Owned, SameLine
  <2>9. Onward(c, e)
    BY <2>1, ReadsOnward DEF SameFax
  <2> QED
    BY <2>1, <2>2, <2>8, <2>9 DEF e
<1>6. CASE "RESET" \notin c.flags /\ ~c.active /\ ~c.msn
  <2> DEFINE e == CheckFinishReset(c, {})
  <2>1. TurnDial(c, e) /\ d = e /\ SameLine(c, e) /\ SameCall(c, e) /\ Onward(c, e)
    BY <1>5, <1>6
  <2> QED
    BY <1>6, <2>1 DEF SameLine, SameCall
<1>7. CASE "RESET" \notin c.flags /\ (c.active \/ c.msn)
  <2> DEFINE e == CheckFinishReset(c, {"WAIT_REGISTER"})
  <2>1. /\ Typed(e) /\ e.inuse = 0 /\ e.capi = c.capi
        /\ SameLine(c, e) /\ SameCall(c, e) /\ SameFax(c, e)
        /\ e.msn = c.msn /\ e.quit = c.quit /\ e.flags = {"WAIT_REGISTER"}
        /\ e.resets = c.resets /\ d = Register(e) /\ TurnDial(c, e) /\ Fits(e)
        /\ Onward(c, e)
    BY <1>5, <1>7
  <2> HIDE DEF e
  <2>2. CASE c.cs # "Released"
    <3>1. d = e
      BY <2>1, <2>2 DEF Register, SameLine
    <3> QED
      BY <2>1, <2>2, <3>1 DEF SameLine
  <2>3. ASSUME c.cs = "Released", Fits(d), Answers(c, d), Sticks(c, d), d.plci = c.plci,
               Owned(c) => BlockFits(d), OwnerFits(c) => OwnerFits(d), Rests(c, d)
        PROVE  TurnDial(c, d) /\ d.plci = c.plci /\ c.cs = "Released" /\ Rests(c, d)
    BY <2>3 DEF TurnDial, Turn, KeepsDial, Owned
  <2>8. (BlockFits(c) => BlockFits(d)) => (Owned(c) => BlockFits(d))
    BY DEF Owned
  <2>4. CASE c.cs = "Released" /\ c.capi
    <3>1. Typed(d) /\ TakesUp(e, d) /\ Same(e, d)
      BY <2>1, <2>4, RegisterIs DEF SameLine
    <3>2. /\ TakesUp(c, d) /\ SameCall(c, d) /\ SameFax(c, d) /\ d.inuse = 0
          /\ d.msn = c.msn /\ d.quit = c.quit /\ d.resets = c.resets /\ "RESET" \notin d.flags
      BY <2>1, <3>1 DEF TakesUp, Same, SameLine, SameCall, SameFax, SameWish
    <3>3. App = "send" => c.active
      BY <1>1, <1>7 DEF CallFits
    <3>4. /\ Fits(d) /\ Answers(c, d) /\ Sticks(c, d) /\ (BlockFits(c) => BlockFits(d))
          /\ OwnerFits(c) => OwnerFits(d)
          /\ Rests(c, d)
      BY <1>7, <2>4, <3>1, <3>2, <3>3, RegisterTurn
    <3> QED
      BY <2>3, <2>4, <2>8, <3>2, <3>4 DEF TakesUp
  <2>5. CASE c.cs = "Released" /\ ~c.capi
    <3>1. d = RegisterFailed(e) /\ e.cs = "Released"
      BY <2>1, <2>5 DEF Register, SameLine
    <3>2. CASE App = "send"
      <4>1. e.active /\ ~e.msn /\ c.active
        BY <1>1, <1>7, <2>1, <3>2 DEF CallFits, SameCall
      <4>2. /\ Typed(d) /\ d.inuse = 0 /\ d.capi = e.capi /\ SameLine(e, d)
            /\ d.active = FALSE /\ d.ddi = e.ddi /\ d.begun = e.begun
            /\ d.phase = (IF e.phase = "idle" THEN "error" ELSE "idle")
            /\ d.block = e.block /\ d.deleted = e.deleted /\ d.next = e.next
            /\ d.fin = TRUE /\ d.sending = e.sending
            /\ d.msn = FALSE /\ d.quit = e.quit /\ d.flags = {} /\ d.resets = e.resets + 1
        BY <2>1, <3>1, <3>2, <4>1, DialFailsIs
      <4>3. /\ SameLine(c, d) /\ ~c.ddi /\ d.ddi = c.ddi /\ d.begun = c.begun
            /\ d.phase = "idle" /\ d.block = c.block /\ d.deleted = c.deleted
            /\ d.next = c.next /\ d.sending = c.sending /\ d.quit = c.quit
            /\ d.resets = c.resets + 1
        BY <1>1, <2>1, <3>2, <4>1, <4>2 DEF SameLine, SameCall, SameFax, CallFits
      <4>4. ThreadFits(d) /\ IdsFit(d) /\ AskFits(d)
        BY <1>1, <4>3, SameLineFits
      <4>5. CallFits(d) /\ FaxFits(d)
        BY <1>1, <2>5, <3>2, <4>2, <4>3 DEF CallFits, FaxFits, SameLine, CallStates
      <4>6. OwnerFits(c) => OwnerFits(d)
        BY <1>2, <2>5, <3>2, <4>2, <4>3, ChannelAssumption DEF OwnerFits, SameLine, CallStates
      <4> QED
        <5>1. Answers(c, d) /\ Sticks(c, d)
          BY <1>1, <1>7, <2>5, <3>2, <4>1, <4>2, <4>3
             DEF Answers, Sticks, Busy, Idle, Done, SameLine, Typed, CallTyped
        <5>2. Fits(d) /\ d.plci = c.plci
          BY <4>2, <4>3, <4>4, <4>5 DEF Fits, SameLine
        <5>3. Owned(c) => BlockFits(d)
          <6>1. Owned(c) => \A h \in Handles : c.block[h] = 0
            BY <2>5, <4>1 DEF Owned, OwnerFits, CallStates
          <6> QED
            BY <4>2, <4>3, <6>1 DEF Owned, BlockFits
        <5>4. Rests(c, d)
          BY <2>5, <4>3 DEF Rests, SameLine, IdleStates
        <5> QED
          BY <2>3, <2>5, <4>2, <4>6, <5>1, <5>2, <5>3, <5>4
    <3>3. CASE App = "recv"
      <4>1. ~c.active /\ c.msn
        BY <1>3, <1>7, <2>5, <3>3
      <4>2. e.msn /\ ~e.active /\ "WAIT_REGISTER" \in e.flags /\ "RESET" \notin e.flags
        BY <2>1, <4>1 DEF SameCall
      <4>3. /\ Typed(d) /\ d.inuse = e.inuse /\ d.capi = e.capi
            /\ SameLine(e, d) /\ SameCall(e, d) /\ SameFax(e, d)
            /\ d.msn = FALSE /\ d.quit = TRUE
            /\ d.resets = e.resets + 1 /\ d.flags = {}
        BY <2>1, <3>1, <4>2, ListenFailsIs
      <4>4. SameLine(c, d) /\ SameCall(c, d) /\ SameFax(c, d) /\ d.resets = c.resets + 1
        BY <2>1, <4>3 DEF SameLine, SameCall, SameFax
      <4>5. ThreadFits(d) /\ IdsFit(d) /\ AskFits(d)
        BY <1>1, <4>4, SameLineFits
      <4>6. CallFits(d) /\ FaxFits(d)
        BY <1>1, <2>5, <3>3, <4>3, <4>4 DEF CallFits, FaxFits, SameLine, SameCall, SameFax, CallStates
      <4>7. OwnerFits(c) => OwnerFits(d)
        BY <4>4 DEF OwnerFits, SameLine, SameCall, SameFax
      <4>8. BlockFits(c) => BlockFits(d)
        BY <4>4 DEF BlockFits, SameCall, SameFax
      <4>9. Answers(c, d) /\ Sticks(c, d)
        BY <1>7, <3>3, <4>3, <4>4 DEF Answers, Sticks
      <4>10. Fits(d) /\ d.plci = c.plci /\ ~d.active
        BY <2>1, <4>1, <4>3, <4>4, <4>5, <4>6 DEF Fits, SameLine, SameCall
      <4>11. Rests(c, d)
        BY <2>5, <4>4 DEF Rests, SameLine, SameCall, SameFax, IdleStates
      <4> QED
        BY <2>3, <2>5, <2>8, <4>7, <4>8, <4>9, <4>10, <4>11
    <3> QED
      BY <3>2, <3>3, ChannelAssumption
  <2> QED
    BY <2>2, <2>4, <2>5
<1> QED
  BY <1>4, <1>6, <1>7

-----------------------------------------------------------------------------
(* The main thread                                                         *)

(* A Send from the point where OneSendSession calls it: nothing is left of *)
(* the previous fax.                                                       *)
LEMMA SendFits ==
  ASSUME NEW c, Fits(c), App = "send", Idle(c), c.resets = 0, NEW d, d = Send(c)
  PROVE  /\ Fits(d) /\ (Busy(d) \/ Done(d)) /\ d.plci = c.plci
         /\ d.cs = "Released" => ~d.active
         /\ "RESET" \notin c.flags
         /\ c.cs # "D_ConnectRequest"
         /\ BlockFits(c) => Owned(d)
         /\ Rests(c, d)
<1> DEFINE e == [c EXCEPT !.next = 1, !.fin = FALSE, !.sending = FALSE,
                          !.deleted = [f \in Frames |-> 0]]
           a == [e EXCEPT !.active = TRUE]
           b == CallBegins(a)
           r == [b EXCEPT !.flags = @ \cup {"WAIT_REGISTER"}]
<1>1. Typed(c) /\ c.inuse = 0 /\ ThreadFits(c) /\ IdsFit(c) /\ AskFits(c) /\ CallFits(c)
      /\ FaxFits(c) /\ ~c.active /\ c.flags = {} /\ c.cs \in {"Released", "Releasing"}
      /\ c.phase = "idle" /\ ~c.ddi
  BY DEF Fits, Idle, CallFits
<1>2. 1 \in Frames
  BY ChannelAssumption DEF Frames
<1>3. /\ Shaped(e) /\ SameLine(c, e) /\ SameCall(c, e) /\ SameWish(c, e)
      /\ e.inuse = 0 /\ e.capi = c.capi /\ e.block = c.block
      /\ e.deleted = [f \in Frames |-> 0] /\ e.next = 1 /\ e.fin = FALSE /\ e.sending = FALSE
  BY <1>1, NamesHold DEF NamesAreIn, Typed, Shaped, SameLine, SameCall, SameWish
<1>4. Shaped(a) /\ a.phase = e.phase /\ a.begun = e.begun
      /\ SameLine(e, a) /\ SameWish(e, a) /\ SameFax(e, a)
      /\ a.inuse = e.inuse /\ a.capi = e.capi /\ a.active = TRUE /\ a.ddi = e.ddi
  BY ZenonT(60), <1>3, NamesHold DEF NamesAreIn, Shaped, SameLine, SameWish, SameFax
<1>5. d = CASE c.cs = "Released" -> Register(r) [] OTHER -> b
  <2>1. d = MakeCall(e)
    BY DEF Send
  <2>2. e.flags = {} /\ ~e.active /\ e.cs = c.cs /\ c.cs \notin CallStates
    BY <1>1, <1>3 DEF SameLine, SameCall, SameWish, CallStates
  <2> HIDE DEF e
  <2> QED
    BY <1>1, <2>1, <2>2 DEF MakeCall
<1> HIDE DEF e, a
<1>6. /\ Shaped(b) /\ SameLine(c, b) /\ SameWish(c, b)
      /\ b.inuse = 0 /\ b.capi = c.capi /\ b.active = TRUE /\ b.ddi = c.ddi
      /\ b.phase = "setup" /\ b.begun = c.begun + 1 /\ b.block = c.block
      /\ b.deleted = [f \in Frames |-> 0] /\ b.next = 1 /\ b.fin = FALSE /\ b.sending = FALSE
  <2>1. /\ Shaped(b) /\ SameLine(a, b) /\ SameWish(a, b)
        /\ b.inuse = a.inuse /\ b.capi = a.capi /\ b.active = a.active /\ b.ddi = a.ddi
        /\ a.phase = "idle" => b.phase = "setup"
        /\ b.begun = a.begun + 1 /\ SameFax(a, b)
    BY <1>4, NamesHold DEF NamesAreIn, Shaped, SameLine, SameWish, SameFax, CallBegins
  <2>2. SameLine(c, b) /\ SameWish(c, b)
    BY <1>3, <1>4, <2>1 DEF SameLine, SameWish
  <2> QED
    BY <1>1, <1>3, <1>4, <2>1, <2>2 DEF SameCall, SameFax
<1> HIDE DEF b
<1>7. b.deleted \in [Frames -> Nat] /\ b.block \in [Handles -> Frames \cup {0}]
      /\ b.next \in 1 .. MaxFrames + 1 /\ b.begun \in Nat
  BY <1>1, <1>6, ChannelAssumption DEF Typed, FaxTyped, CallTyped
<1>8. Typed(b)
  BY <1>1, <1>6, <1>7 DEF Typed, LineTyped, CallTyped, FaxTyped, SameLine, SameWish
<1>9. BlockFits(c) => BlockFits(b) /\ \A h \in Handles : b.block[h] = 0
  <2>1. ASSUME BlockFits(c) PROVE \A h \in Handles : b.block[h] = 0
    BY <1>1, <1>6, <2>1 DEF BlockFits
  <2>2. \A f \in Frames : b.deleted[f] = 0 /\ ~(f < 1)
    BY <1>6 DEF Frames
  <2> QED
    BY <1>6, <2>1, <2>2 DEF BlockFits
<1>10. CASE c.cs = "Releasing"
  <2>1. d = b
    BY <1>5, <1>10
  <2>2. ThreadFits(d) /\ IdsFit(d) /\ AskFits(d)
    BY <1>1, <1>6, <2>1, SameLineFits
  <2>3. CallFits(d) /\ FaxFits(d)
    BY <1>1, <1>2, <1>6, <1>10, <2>1 DEF CallFits, FaxFits, SameLine, SameWish, CallStates
  <2>4. Busy(d)
    BY <1>1, <1>6, <2>1 DEF Busy, SameWish
  <2>5. BlockFits(c) => OwnerFits(d)
    BY <1>1, <1>6, <1>9, <1>10, <2>1, <2>2 DEF OwnerFits, SameLine, IdsFit, CallStates
  <2>6. Rests(c, d)
    BY <1>1, <1>6, <1>10, <2>1 DEF Rests, SameLine, IdleStates
  <2> QED
    BY <1>1, <1>6, <1>8, <1>9, <1>10, <2>1, <2>2, <2>3, <2>4, <2>5, <2>6 DEF Fits, Owned, SameLine
<1>11. CASE c.cs = "Released"
  <2>1. d = Register(r)
    BY <1>5, <1>11
  <2>2. /\ Shaped(r) /\ SameLine(b, r) /\ SameFax(b, r) /\ SameCall(b, r)
        /\ r.inuse = b.inuse /\ r.capi = b.capi /\ r.msn = b.msn /\ r.quit = b.quit
        /\ r.resets = b.resets /\ r.flags = b.flags \cup {"WAIT_REGISTER"}
    BY <1>6, NamesHold DEF NamesAreIn, Shaped, SameLine, SameCall, SameFax
  <2> HIDE DEF r
  <2>3. Typed(r)
    BY <1>8, <2>2 DEF Typed, LineTyped, CallTyped, FaxTyped, SameLine, SameCall, SameFax
  <2>4. ~c.msn /\ ~c.quit /\ c.plci = 0 /\ c.ncci = 0
    BY <1>1, <1>11 DEF CallFits, IdsFit, IdleStates
  <2>5. /\ r.cs = "Released" /\ r.active /\ ~r.msn /\ r.inuse = 0 /\ ~r.ddi
        /\ r.flags = {"WAIT_REGISTER"} /\ r.phase = "setup" /\ r.resets = 0
        /\ SameLine(c, r) /\ r.quit = c.quit /\ r.msn = c.msn
    BY <1>1, <1>6, <1>11, <2>2, <2>4 DEF SameLine, SameWish, SameCall
  <2>6. /\ r.block = c.block /\ r.deleted = [f \in Frames |-> 0] /\ r.next = 1
        /\ r.fin = FALSE /\ r.sending = FALSE /\ r.capi = c.capi /\ r.begun = c.begun + 1
    BY <1>6, <2>2 DEF SameFax, SameCall
  <2>7. BlockFits(c) => \A h \in Handles : c.block[h] = 0
    BY <1>1 DEF BlockFits
  <2>8. CASE c.capi
    <3>1. Typed(d) /\ TakesUp(r, d) /\ Same(r, d)
      BY <2>1, <2>3, <2>5, <2>6, <2>8, RegisterIs
    <3>2. /\ d.cs = "Registering" /\ d.appl = TRUE /\ d.thr = "starting" /\ d.plci = c.plci
          /\ d.ncci = c.ncci /\ d.init = c.init /\ d.timer = c.timer /\ d.down = c.down
      BY <2>5, <3>1 DEF TakesUp, SameLine
    <3>3. /\ d.inuse = 0 /\ d.active /\ d.ddi = r.ddi /\ d.phase = "setup" /\ ~d.msn /\ ~d.quit
          /\ d.flags = {"WAIT_REGISTER"} /\ d.resets = 0
      BY <2>4, <2>5, <3>1 DEF Same, SameCall, SameWish
    <3>4. /\ d.block = c.block /\ d.deleted = [f \in Frames |-> 0] /\ d.next = 1
          /\ d.fin = FALSE /\ d.sending = FALSE /\ d.begun = c.begun + 1
      BY <2>6, <3>1 DEF Same, SameFax, SameCall
    <3>5. ThreadFits(d) /\ IdsFit(d) /\ AskFits(d)
      <4>1. AskFits(d)
        BY <1>1, <1>11, <3>2 DEF AskFits
      <4>2. ThreadFits(d)
        BY <3>2 DEF ThreadFits, CallStates
      <4>3. IdsFit(d)
        BY <1>1, <1>11, <2>4, <3>2 DEF IdsFit, IdleStates, CallStates
      <4> QED
        BY <4>1, <4>2, <4>3
    <3>6. CallFits(d) /\ FaxFits(d)
      BY <1>2, <2>5, <3>2, <3>3, <3>4 DEF CallFits, FaxFits, CallStates
    <3>7. Busy(d)
      BY <3>3 DEF Busy
    <3>8. BlockFits(c) => OwnerFits(d)
      BY <2>4, <2>5, <2>7, <3>2, <3>3, <3>4 DEF OwnerFits, CallStates
    <3>9. BlockFits(c) => BlockFits(d)
      BY <1>6, <1>9, <3>3, <3>4 DEF BlockFits
    <3>10. Rests(c, d)
      BY <1>1, <3>2, <3>3, <3>4 DEF Rests, IdleStates
    <3> QED
      BY <1>1, <3>1, <3>2, <3>3, <3>5, <3>6, <3>7, <3>8, <3>9, <3>10 DEF Fits, Owned
  <2>9. CASE ~c.capi
    <3>1. d = RegisterFailed(r)
      BY <2>1, <2>5, <2>6, <2>9 DEF Register
    <3>2. /\ Typed(d) /\ d.inuse = 0 /\ d.capi = r.capi /\ SameLine(r, d)
          /\ d.active = FALSE /\ d.ddi = r.ddi /\ d.begun = r.begun
          /\ d.phase = (IF r.phase = "idle" THEN "error" ELSE "idle")
          /\ d.block = r.block /\ d.deleted = r.deleted /\ d.next = r.next
          /\ d.fin = TRUE /\ d.sending = r.sending
          /\ d.msn = FALSE /\ d.quit = r.quit /\ d.flags = {} /\ d.resets = r.resets + 1
      BY <2>3, <2>5, <3>1, DialFailsIs, ZenonT(40)
    <3>3. SameLine(c, d) /\ d.phase = "idle" /\ ~d.ddi /\ ~d.quit /\ d.sending = FALSE
          /\ d.resets = 1 /\ d.cs = "Released" /\ d.begun = c.begun + 1
      BY <1>11, <2>4, <2>5, <2>6, <3>2 DEF SameLine
    <3>4. ThreadFits(d) /\ IdsFit(d) /\ AskFits(d)
      BY <1>1, <3>3, SameLineFits
    <3>5. CallFits(d) /\ FaxFits(d)
      BY <3>2, <3>3 DEF CallFits, FaxFits, CallStates
    <3>6. Done(d)
      BY <3>2, <3>3 DEF Done, Idle
    <3>7. OwnerFits(d)
      BY <2>4, <3>2, <3>3 DEF OwnerFits, SameLine, CallStates
    <3>8. BlockFits(c) => BlockFits(d)
      BY <1>6, <1>9, <2>6, <3>2 DEF BlockFits
    <3>9. Rests(c, d)
      BY <1>1, <1>11, <3>3 DEF Rests, SameLine, ThreadFits, IdleStates
    <3> QED
      BY <1>1, <3>2, <3>3, <3>4, <3>5, <3>6, <3>7, <3>8, <3>9 DEF Fits, Owned, SameLine
  <2> QED
    BY <2>8, <2>9
<1> QED
  BY <1>1, <1>10, <1>11

(* The main thread of faxsend goes on after sem_wait.                      *)
LEMMA SendReturnsFits ==
  ASSUME NEW c, Fits(c), Done(c), App = "send", NEW d, d = [c EXCEPT !.resets = @ - 1]
  PROVE  /\ Fits(d) /\ Idle(d) /\ d.resets = 0 /\ (Owned(c) => Owned(d))
         /\ d.plci = c.plci /\ d.cs = c.cs /\ d.active = c.active /\ d.down = c.down
         /\ d.flags = c.flags /\ c.flags = {} /\ Onward(c, d)
<1>1. Typed(c) /\ c.inuse = 0 /\ ThreadFits(c) /\ IdsFit(c) /\ AskFits(c) /\ CallFits(c)
      /\ FaxFits(c)
  BY DEF Fits
<1>2. /\ Shaped(d) /\ SameLine(c, d) /\ SameCall(c, d) /\ SameFax(c, d)
      /\ d.inuse = 0 /\ d.capi = c.capi /\ d.msn = c.msn /\ d.quit = c.quit
      /\ d.flags = c.flags /\ d.resets = c.resets - 1 /\ c.resets = 1
  BY <1>1, NamesHold DEF NamesAreIn, Typed, Shaped, SameLine, SameCall, SameFax, Done
<1>3. Typed(d)
  BY <1>1, <1>2 DEF Typed, LineTyped, CallTyped, FaxTyped, SameLine, SameCall, SameFax
<1>4. ThreadFits(d) /\ IdsFit(d) /\ AskFits(d)
  BY <1>1, <1>2, SameLineFits
<1>5. CallFits(d) /\ FaxFits(d)
  BY <1>1, <1>2 DEF CallFits, FaxFits, SameLine, SameCall, SameFax
<1>6. Owned(c) => Owned(d)
  BY <1>2 DEF Owned, BlockFits, OwnerFits, SameLine, SameCall, SameFax
<1>7. Idle(d)
  BY <1>2 DEF Done, Idle, SameLine, SameCall
<1>8. Onward(c, d)
  BY <1>2, ReadsOnward DEF SameFax
<1> QED
  BY <1>2, <1>3, <1>4, <1>5, <1>6, <1>7, <1>8 DEF Fits, Done, Idle, SameLine, SameCall

(* An operation that leaves the fax alone leaves the send block fitting.   *)
LEMMA SameBlock ==
  ASSUME NEW c, NEW d, BlockFits(c), d.block = c.block, d.deleted = c.deleted,
         d.next = c.next, d.active = c.active
  PROVE  BlockFits(d)
BY DEF BlockFits

(* StartReceive of faxrecv.                                                *)
LEMMA StartReceiveFits ==
  ASSUME NEW c, Fits(c), App = "recv", c.cs = "Released", ~c.active, c.flags = {},
         NEW d, d = CheckListen([c EXCEPT !.msn = TRUE])
  PROVE  /\ Fits(d) /\ Answers(c, d) /\ Sticks(c, d) /\ d.plci = 0
         /\ (Owned(c) => Owned(d)) /\ Rests(c, d)
<1> DEFINE e == [c EXCEPT !.msn = TRUE]
<1>1. Typed(c) /\ c.inuse = 0 /\ ThreadFits(c) /\ IdsFit(c) /\ AskFits(c) /\ CallFits(c)
      /\ FaxFits(c)
  BY DEF Fits
<1>2. /\ Shaped(e) /\ SameLine(c, e) /\ SameCall(c, e) /\ SameFax(c, e)
      /\ e.inuse = 0 /\ e.capi = c.capi /\ e.msn = TRUE /\ e.quit = c.quit
      /\ e.flags = c.flags /\ e.resets = c.resets
  BY <1>1, NamesHold DEF NamesAreIn, Typed, Shaped, SameLine, SameCall, SameFax
<1>3. d = CheckListen(e)
  OBVIOUS
<1> HIDE DEF e
<1>4. Typed(e)
  BY <1>1, <1>2 DEF Typed, LineTyped, CallTyped, FaxTyped, SameLine, SameCall, SameFax
<1>5. e.cs = "Released" /\ "RESET" \notin e.flags /\ e.msn /\ ~e.active /\ e.plci = 0
  BY <1>1, <1>2 DEF SameLine, SameCall, IdsFit, IdleStates
<1>6. ThreadFits(e) /\ IdsFit(e) /\ AskFits(e)
  BY <1>1, <1>2, SameLineFits
<1>7. CallFits(e) /\ FaxFits(e)
  BY <1>1, <1>2 DEF CallFits, FaxFits, SameLine, SameCall, SameFax
<1>8. Fits(e)
  BY <1>2, <1>4, <1>6, <1>7 DEF Fits
<1>9. Owned(c) => Owned(e)
  BY <1>2 DEF Owned, BlockFits, OwnerFits, SameLine, SameCall, SameFax
<1>10. Answers(e, d) => Answers(c, d)
  BY <1>2 DEF Answers
<1>11. /\ Typed(d) /\ d.inuse = 0 /\ d.capi = e.capi /\ SameCall(e, d) /\ SameFax(e, d)
       /\ ListenBegins(e, d) \/ ListenFails(e, d)
  BY <1>2, <1>3, <1>4, <1>5, CheckListenReleased
<1>12. CASE ListenBegins(e, d)
  <2>1. /\ TakesUp(e, d) /\ d.msn = e.msn /\ d.quit = e.quit /\ d.resets = e.resets
        /\ "RESET" \notin d.flags
    BY <1>5, <1>12, <1>2 DEF ListenBegins
  <2>2. /\ Fits(d) /\ Answers(e, d) /\ (BlockFits(e) => BlockFits(d))
        /\ OwnerFits(e) => OwnerFits(d)
        /\ Rests(e, d)
    BY <1>5, <1>8, <1>11, <2>1, RegisterTurn
  <2>3. Rests(c, d)
    BY <1>2, <2>2 DEF Rests, SameLine, SameCall, SameFax
  <2> QED
    BY <1>5, <1>9, <1>10, <2>1, <2>2, <2>3 DEF Owned, TakesUp, Sticks
<1>13. CASE ListenFails(e, d)
  <2>1. SameLine(e, d) /\ d.msn = FALSE /\ d.flags = {} /\ d.resets = e.resets + 1
    BY <1>13 DEF ListenFails
  <2>2. ThreadFits(d) /\ IdsFit(d) /\ AskFits(d)
    BY <1>6, <2>1, SameLineFits
  <2>3. CallFits(d) /\ FaxFits(d)
    BY <1>7, <1>11, <2>1 DEF CallFits, FaxFits, SameLine, SameCall, SameFax
  <2>4. Owned(e) => Owned(d)
    <3>1. d.block = e.block /\ d.deleted = e.deleted /\ d.next = e.next /\ d.active = e.active
      BY <1>11 DEF SameCall, SameFax
    <3>2. BlockFits(e) => BlockFits(d)
      BY <3>1, SameBlock
    <3>3. OwnerFits(e) => OwnerFits(d)
      BY <1>11, <2>1 DEF OwnerFits, SameLine, SameCall, SameFax
    <3> QED
      BY <3>2, <3>3 DEF Owned
  <2>5. Answers(e, d)
    BY <2>1 DEF Answers
  <2>6. Rests(c, d)
    BY <1>2, <1>5, <1>11, <2>1 DEF Rests, SameLine, SameCall, SameFax, IdleStates
  <2> QED
    BY <1>5, <1>9, <1>10, <1>11, <2>1, <2>2, <2>3, <2>4, <2>5, <2>6 DEF Fits, Sticks, SameLine
<1> QED
  BY <1>11, <1>12, <1>13
==============================================================================
