--------------------------- MODULE ChannelProofs -----------------------------
(***************************************************************************)
(* The channel at work with its driver, its CAPI thread, its timer and the *)
(* main thread: the inductive invariant Inv, each step of Next that keeps  *)
(* it, and the properties it implies, for any number of connections,       *)
(* handles, calls, data blocks, faults and jobs.                           *)
(***************************************************************************)
EXTENDS ChannelHandlerProofs, FiniteSetTheorems

-----------------------------------------------------------------------------
(* The invariant of the whole system                                       *)

(* The reports on their way: each names its connection, and the answer to  *)
(* a dialled call finds the channel dialling.                              *)
ReportsFit(c, q) ==
  /\ \A i \in DOMAIN q :
       /\ q[i].id = 0 =>
            q[i].m = "LISTEN_CONF" \/ (q[i].m = "CONNECT_CONF" /\ ~q[i].ok)
       /\ q[i].m = "LISTEN_CONF" => App = "recv"
       /\ q[i].m = "DATA_B3_CONF" => q[i].h \in Handles
       /\ q[i].m = "CONNECT_CONF" => c.cs = "D_ConnectRequest" /\ NoDial(c.down)
  /\ \A i, j \in DOMAIN q :
       q[i].m = "CONNECT_CONF" /\ q[j].m = "CONNECT_CONF" => i = j

SetsUp(msg, p) == msg.m \in {"CONNECT_CONF", "CONNECT_IND"} /\ msg.id = p

TakesDown(msg, p) == msg.m = "DISCONNECT_IND" /\ msg.id = p

(* Once the first n reports of q are read, a channel whose PLCI is x now   *)
(* does not have the PLCI p.                                               *)
Past(q, x, p, n) ==
  \/ x # p /\ \A i \in 1 .. n : ~SetsUp(q[i], p)
  \/ \E j \in 1 .. n :
       TakesDown(q[j], p) /\ \A i \in j + 1 .. n : ~SetsUp(q[i], p)

(* The driver ends a connection only with a report of it, and refuses to   *)
(* hang up only what it has ended.                                         *)
EndsFit(v, q, x) ==
  /\ \A p \in Plcis : v.link[p].d \in {"none", "down"} => Past(q, x, p, Len(q))
  /\ ~StrictDriver =>
       \A i \in DOMAIN q :
         q[i].m = "DISCONNECT_CONF" /\ ~q[i].ok => Past(q, x, q[i].id, i)

(* The main thread, and the CAPI thread in RELEASE_COMPLETE.               *)
WaitsFit(c, w) ==
  App = "send" => (w => Busy(c) \/ Done(c)) /\ (~w => Idle(c) /\ c.resets = 0)

StartFits(c, j, w) ==
  App = "recv" =>
    /\ ~w /\ c.resets \in {0, 1}
    /\ j = 0 => c.cs = "Released" /\ c.flags = {} /\ ~c.active /\ c.resets = 0

TailFits(c, t, j) ==
  /\ t = "disconnect" => c.cs = "Released" /\ (App = "send" => c.active)
  /\ App = "send" /\ c.active /\ c.cs = "Released" => t # "none"
  /\ App = "recv" /\ j = 0 => t = "none"

OwnFits(c, t) ==
  Prompt => BlockFits(c) /\ (t # "disconnect" => OwnerFits(c)) /\ (c.ddi => c.active)

(* The timer runs only in a state that handles it.  A fax is sent only     *)
(* while its call lasts, and a thread that is told to stop and is not in   *)
(* SendData finds the registration given up.                               *)
TimerFits(c) == c.timer # "none" => c.cs \in Opening \cup {"D_DisconnectPending"}

LoopFits(c) ==
  /\ c.sending => c.cs \in Joined \cup {"Releasing"}
  /\ c.thr = "late" => c.cs = "Releasing"

NoData(q) == \A i \in DOMAIN q : ~IsData(q[i])

(* No data block is on its way before the call is connected.               *)
DataAfter(c, q) ==
  /\ App = "recv" \/ c.cs \in Opening => NoData(c.down) /\ NoData(q)
  /\ \A i, j \in DOMAIN c.down : i < j /\ c.down[i].m = "CONNECT_REQ" => ~IsData(c.down[j])
  /\ \A i \in DOMAIN q : q[i].m = "CONNECT_CONF" =>
       NoData(c.down) /\ \A j \in DOMAIN q : i < j => ~IsData(q[j])

(* The data blocks on their way, and the confirmations, are of the one     *)
(* connection, and each has a handle of its own.                           *)
DataApart(c, q) ==
  c.ncci # 0 =>
    /\ \A i \in DOMAIN q : IsData(q[i]) => q[i].id = c.ncci
    /\ \A i \in DOMAIN c.down : IsData(c.down[i]) => c.down[i].id = c.ncci
    /\ \A i, j \in DOMAIN q : IsData(q[i]) /\ IsData(q[j]) /\ q[i].h = q[j].h => i = j
    /\ \A i, j \in DOMAIN c.down :
         IsData(c.down[i]) /\ IsData(c.down[j]) /\ c.down[i].h = c.down[j].h => i = j
    /\ \A i \in DOMAIN q, j \in DOMAIN c.down :
         IsData(q[i]) /\ IsData(c.down[j]) => q[i].h # c.down[j].h

(* Until the channel hangs up, each of these handles is in use.            *)
DataUsed(c, q) ==
  c.cs \in {"Connected", "B_DisconnectPending"} =>
    /\ \A i \in DOMAIN q : IsData(q[i]) => c.block[q[i].h] # 0
    /\ \A i \in DOMAIN c.down : IsData(c.down[i]) => c.block[c.down[i].h] # 0

DataFits(c, q) == DataAfter(c, q) /\ DataApart(c, q) /\ DataUsed(c, q)

(* A handle is in use only in a call that was connected, and as long as it *)
(* is connected, a request or a confirmation is on its way.                *)
BlockWaits(c, q) ==
  /\ c.cs \in Opening \cup {"D_ConnectRequest", "D_ConnectIndication"} =>
       \A h \in Handles : c.block[h] = 0
  /\ c.cs = "Connected" => \A h \in Handles : c.block[h] # 0 =>
       \/ \E i \in DOMAIN q : IsData(q[i]) /\ q[i].h = h
       \/ \E i \in DOMAIN c.down : IsData(c.down[i]) /\ c.down[i].h = h

(* The application was told nothing out of order, and of a connection only *)
(* in a state that has one.                                                *)
PhaseFits(c, t) ==
  /\ c.phase # "error"
  /\ c.phase \in {"connected", "closing"} => c.cs \in Joined \/ t = "disconnect"

EndsB3(msg, p) == msg.m = "DISCONNECT_B3_IND" /\ msg.id = p

(* Once the first n reports of q are read, no other DISCONNECT_B3_IND comes *)
(* for p before a DISCONNECT_IND.                                          *)
Quiet(v, q, p, n) ==
  \/ /\ v.link[p].b = "down" /\ v.link[p].d \notin {"none", "down"}
     /\ \A k \in n + 1 .. Len(q) : ~EndsB3(q[k], p)
  \/ \E j \in n + 1 .. Len(q) :
       TakesDown(q[j], p) /\ \A k \in n + 1 .. j : ~EndsB3(q[k], p)

(* The driver ends a logical connection before its physical one, and once: *)
(* the application is asked to end its call once.                          *)
LogicalFits(c, v, q) ==
  /\ \A p \in Plcis : v.link[p].d \in {"none", "down"} => v.link[p].b \in {"none", "down"}
  /\ \A p \in Plcis, i \in DOMAIN q : EndsB3(q[i], p) => Quiet(v, q, p, i)
  /\ c.phase = "closing" /\ c.ncci # 0 => Quiet(v, q, c.ncci, 0)

(* The first part holds with any driver, the other with a prompt one.      *)
Held(c, q) == TimerFits(c) /\ LoopFits(c) /\ DataFits(c, q)

Told(c, v, q, t) == BlockWaits(c, q) /\ PhaseFits(c, t) /\ LogicalFits(c, v, q)

Lives(c, v, q, t) == Held(c, q) /\ (Prompt => Told(c, v, q, t))

(* A channel c, the driver v, the reports q that are not read, the pending *)
(* part t of RELEASE_COMPLETE, and the main thread (w, j).                 *)
Sound(c, v, q, t, w, j) ==
  /\ v \in Drivers /\ q \in Seq(Messages(Reports))
  /\ t \in {"none", "disconnect", "release"} /\ w \in BOOLEAN
  /\ Fits(c) /\ ReportsFit(c, q) /\ EndsFit(v, q, c.plci)
  /\ WaitsFit(c, w) /\ StartFits(c, j, w) /\ TailFits(c, t, j) /\ OwnFits(c, t)

Inv ==
  /\ Sound(ch, drv, up, tail, waiting, jobs) /\ Lives(ch, drv, up, tail)
  /\ jobs \in 0 .. MaxJobs + 1 /\ faults \in 0 .. MaxFaults

(* faxrecv is covered with a driver that ends a call it is asked to end.   *)
Covered == App = "send" \/ Prompt

-----------------------------------------------------------------------------
(* The driver                                                              *)

(* A report m, with which the driver goes from v to w.                     *)
Says(v, w, m) ==
  /\ m \in Messages(Reports)
  /\ m.id = 0 => m.m = "LISTEN_CONF" \/ (m.m = "CONNECT_CONF" /\ ~m.ok)
  /\ m.m = "LISTEN_CONF" => App = "recv"
  /\ m.m = "DATA_B3_CONF" => m.h \in Handles
  /\ ~StrictDriver /\ m.m = "DISCONNECT_CONF" /\ ~m.ok =>
       v.link[m.id].d \in {"none", "down"}
  /\ \A p \in Plcis :
       w.link[p].d \in {"none", "down"} =>
         TakesDown(m, p) \/ (v.link[p].d \in {"none", "down"} /\ ~SetsUp(m, p))

Silent(v, w) ==
  \A p \in Plcis : w.link[p].d \in {"none", "down"} => v.link[p].d \in {"none", "down"}

(* Step s of the driver, taken from v.                                     *)
DriverSteps(v, s) ==
  /\ s.v \in Drivers
  /\ \/ s.msgs = <<>> /\ Silent(v, s.v)
     \/ \E m : s.msgs = <<m>> /\ Says(v, s.v, m)

SetsNothingUp(s) ==
  \A i \in DOMAIN s.msgs : s.msgs[i].m # "CONNECT_CONF"

DStates == {"none", "out", "in", "acc", "active", "closing", "down"}
BStates == {"none", "conf", "ind", "resp", "up", "closing", "down"}

(* SetD writes the physical state of one connection.                       *)
LEMMA SetDIs ==
  ASSUME NEW v \in Drivers, NEW p \in Plcis, NEW d \in DStates,
         NEW w, w = SetD(v, p, d)
  PROVE  /\ w \in Drivers /\ w.link[p].d = d /\ w.calls = v.calls
         /\ w.link[p].b = v.link[p].b
         /\ \A q \in Plcis : q # p => w.link[q] = v.link[q]
<1>1. v.link \in [Plcis -> Links] /\ v.link[p] \in Links
  BY DEF Drivers
<1>2. [v.link[p] EXCEPT !.d = d] \in Links
  BY <1>1 DEF Links, DStates
<1>3. w = [v EXCEPT !.link = [v.link EXCEPT ![p] = [v.link[p] EXCEPT !.d = d]]]
  BY <1>1 DEF SetD, Drivers
<1>4. [v.link EXCEPT ![p] = [v.link[p] EXCEPT !.d = d]] \in [Plcis -> Links]
  BY <1>1, <1>2
<1>5. w.link = [v.link EXCEPT ![p] = [v.link[p] EXCEPT !.d = d]] /\ w \in Drivers
      /\ w.calls = v.calls
  BY <1>3, <1>4 DEF Drivers
<1>6. w.link[p].d = d /\ w.link[p].b = v.link[p].b
  BY <1>1, <1>5 DEF Links
<1> QED
  BY <1>1, <1>5, <1>6

(* SetB writes the logical state of one connection.                        *)
LEMMA SetBIs ==
  ASSUME NEW v \in Drivers, NEW p \in Plcis, NEW b \in BStates,
         NEW w, w = SetB(v, p, b)
  PROVE  /\ w \in Drivers /\ w.link[p].b = b
         /\ \A q \in Plcis : w.link[q].d = v.link[q].d
         /\ \A q \in Plcis : q # p => w.link[q] = v.link[q]
<1>1. v.link \in [Plcis -> Links] /\ v.link[p] \in Links
  BY DEF Drivers
<1>2. /\ [v.link[p] EXCEPT !.b = b] \in Links /\ [v.link[p] EXCEPT !.b = b].d = v.link[p].d
      /\ [v.link[p] EXCEPT !.b = b].b = b
  BY <1>1 DEF Links, BStates
<1>3. w = [v EXCEPT !.link = [v.link EXCEPT ![p] = [v.link[p] EXCEPT !.b = b]]]
  BY <1>1 DEF SetB, Drivers
<1>4. [v.link EXCEPT ![p] = [v.link[p] EXCEPT !.b = b]] \in [Plcis -> Links]
  BY <1>1, <1>2
<1>5. w.link = [v.link EXCEPT ![p] = [v.link[p] EXCEPT !.b = b]] /\ w \in Drivers
  BY <1>3, <1>4 DEF Drivers
<1> QED
  BY <1>1, <1>2, <1>5

(* The parts of a step of the driver.                                      *)
LEMMA StepIs ==
  ASSUME NEW v, NEW msgs
  PROVE  Step(v, msgs).v = v /\ Step(v, msgs).msgs = msgs
BY DEF Step

(* The parts of a report, and of one that refuses.                         *)
LEMMA MsgIs ==
  ASSUME NEW p \in Plcis \cup {0}, NEW m \in Reports
  PROVE  /\ Msg(m, p) \in Messages(Reports)
         /\ Msg(m, p).m = m /\ Msg(m, p).id = p /\ Msg(m, p).ok = TRUE
BY DEF Msg, Messages

LEMMA NoIs ==
  ASSUME NEW p \in Plcis \cup {0}, NEW m \in Reports
  PROVE  /\ No(m, p) \in Messages(Reports)
         /\ No(m, p).m = m /\ No(m, p).id = p /\ No(m, p).ok = FALSE
BY DEF Msg, No, Messages

(* The kinds of report that need no more than their type.                  *)
PlainReports ==
  {"CONNECT_B3_CONF", "DISCONNECT_B3_CONF", "INFO_IND", "CONNECT_ACTIVE_IND",
   "CONNECT_B3_IND", "CONNECT_B3_ACTIVE_IND", "DATA_B3_IND", "DISCONNECT_B3_IND"}

(* The plain reports may be sent at any time.                              *)
LEMMA SaysPlain ==
  ASSUME NEW v, NEW w, Silent(v, w), NEW m \in Messages(Reports), m.id # 0,
         m.m \in PlainReports
  PROVE  Says(v, w, m)
BY DEF Says, Silent, SetsUp, TakesDown, PlainReports

(* A driver that leaves the physical states ends no connection.            *)
LEMMA SilentWhenSame ==
  ASSUME NEW v, NEW w, \A q \in Plcis : w.link[q].d = v.link[q].d
  PROVE  Silent(v, w)
BY DEF Silent

(* Setting d of one connection, to a value that is not an end.             *)
LEMMA SilentSetD ==
  ASSUME NEW v \in Drivers, NEW p \in Plcis,
         NEW d \in LiveD \cup {"closing"}, NEW w, w = SetD(v, p, d)
  PROVE  w \in Drivers /\ Silent(v, w) /\ w.link[p].d = d /\ w.calls = v.calls
<1>0. d \in DStates
  BY DEF DStates, LiveD
<1>1. /\ w \in Drivers /\ w.link[p].d = d /\ w.calls = v.calls
      /\ \A q \in Plcis : q # p => w.link[q] = v.link[q]
  BY <1>0, SetDIs
<1> QED
  BY <1>1 DEF Silent, LiveD

(* Nor does one that sets a logical state.                                 *)
LEMMA SilentSetB ==
  ASSUME NEW v \in Drivers, NEW p \in Plcis,
         NEW b \in {"conf", "ind", "resp", "up", "closing", "down"}, NEW w, w = SetB(v, p, b)
  PROVE  w \in Drivers /\ Silent(v, w)
<1>0. b \in BStates
  BY DEF BStates
<1>1. w \in Drivers /\ \A q \in Plcis : w.link[q].d = v.link[q].d
  BY <1>0, SetBIs
<1> QED
  BY <1>1 DEF Silent

(* CONNECT_REQ: one CONNECT_CONF, and it sets up the connection it names.  *)
LEMMA DialSteps ==
  ASSUME NEW v \in Drivers, NEW s \in ConnectSteps(v)
  PROVE  DriverSteps(v, s)
<1>1. CASE s = Step(v, <<No("CONNECT_CONF", 0)>>)
  <2> DEFINE m == No("CONNECT_CONF", 0)
  <2>1. m \in Messages(Reports) /\ m.m = "CONNECT_CONF" /\ m.id = 0 /\ m.ok = FALSE
    <3>1. 0 \in Plcis \cup {0} /\ "CONNECT_CONF" \in Reports
      BY DEF Reports
    <3> HIDE DEF m
    <3> QED
      BY <3>1, NoIs DEF m
  <2> HIDE DEF m
  <2>2. Says(v, v, m)
    BY <2>1, DriverAssumption DEF Says, SetsUp
  <2>3. s.v = v /\ s.msgs = <<m>>
    BY <1>1, StepIs DEF m
  <2> QED
    BY <2>2, <2>3 DEF DriverSteps
<1>2. ASSUME NEW p \in Unused(v), s = Dial(v, p)
      PROVE  DriverSteps(v, s)
  <2> DEFINE m == Msg("CONNECT_CONF", p)
             w == [v EXCEPT !.link[p] = [d |-> "out", b |-> "none", out |-> TRUE]]
  <2>1. p \in Plcis /\ p # 0
    BY <1>2, DriverAssumption DEF Unused
  <2>2. m \in Messages(Reports) /\ m.m = "CONNECT_CONF" /\ m.id = p /\ m.ok = TRUE
    <3>1. p \in Plcis \cup {0} /\ "CONNECT_CONF" \in Reports
      BY <2>1 DEF Reports
    <3> QED
      BY <3>1, MsgIs
  <2>3. v.link \in [Plcis -> Links] /\ [d |-> "out", b |-> "none", out |-> TRUE] \in Links
    BY DEF Drivers, Links
  <2>4. [v.link EXCEPT ![p] = [d |-> "out", b |-> "none", out |-> TRUE]] \in [Plcis -> Links]
    BY <2>3
  <2>5. /\ w \in Drivers /\ w.link[p].d = "out"
        /\ \A q \in Plcis : q # p => w.link[q] = v.link[q]
    BY <2>1, <2>3, <2>4 DEF Drivers
  <2>6. s.v = w /\ s.msgs = <<m>>
    BY <1>2, StepIs DEF Dial
  <2> HIDE DEF m, w
  <2>7. Says(v, w, m)
    BY <2>1, <2>2, <2>5 DEF Says, SetsUp
  <2> QED
    BY <2>5, <2>6, <2>7 DEF DriverSteps
<1> QED
  BY <1>1, <1>2 DEF ConnectSteps

(* What the driver does with every request but CONNECT_REQ.                *)
LEMMA SilentStep ==
  ASSUME NEW v, NEW w \in Drivers, Silent(v, w), NEW s, s = Step(w, <<>>)
  PROVE  DriverSteps(v, s) /\ SetsNothingUp(s)
<1>1. s.v = w /\ s.msgs = <<>>
  BY StepIs
<1> QED
  BY <1>1 DEF DriverSteps, SetsNothingUp

(* A step with one report.                                                 *)
LEMMA SpeakingStep ==
  ASSUME NEW v, NEW w \in Drivers, NEW m, Says(v, w, m), NEW s, s = Step(w, <<m>>)
  PROVE  /\ DriverSteps(v, s)
         /\ m.m # "CONNECT_CONF" => SetsNothingUp(s)
<1>1. s.v = w /\ s.msgs = <<m>>
  BY StepIs
<1> QED
  BY <1>1 DEF DriverSteps, SetsNothingUp

(* What the driver does with any request.                                  *)
LEMMA TakeIs ==
  ASSUME NEW v \in Drivers, NEW r \in Messages(Requests),
         r.id = 0 => r.m \in {"LISTEN_REQ", "CONNECT_REQ"},
         r.m = "LISTEN_REQ" => App = "recv", r.m = "DATA_B3_REQ" => r.h \in Handles,
         NEW s \in Take(v, r)
  PROVE  DriverSteps(v, s) /\ (r.m # "CONNECT_REQ" => SetsNothingUp(s))
<1>1. /\ r.m \in Requests /\ r.id \in Plcis \cup {0} /\ r.ok \in BOOLEAN
      /\ r.m \notin {"LISTEN_REQ", "CONNECT_REQ"} => r.id \in Plcis
      /\ \A p \in Plcis : v.link[p] \in Links
      /\ Silent(v, v)
  BY DEF Messages, Drivers, Silent
<1>3. ASSUME NEW w \in Drivers, Silent(v, w), NEW m \in PlainReports, NEW p \in Plcis
      PROVE  /\ Says(v, w, Msg(m, p)) /\ Msg(m, p).m # "CONNECT_CONF"
             /\ Says(v, w, No(m, p)) /\ No(m, p).m # "CONNECT_CONF"
  <2>1. p # 0 /\ p \in Plcis \cup {0} /\ m \in Reports /\ m # "CONNECT_CONF"
    BY DriverAssumption DEF Reports, PlainReports
  <2>2. Msg(m, p) \in Messages(Reports) /\ Msg(m, p).m = m /\ Msg(m, p).id = p
    BY <2>1, MsgIs
  <2>3. No(m, p) \in Messages(Reports) /\ No(m, p).m = m /\ No(m, p).id = p
    BY <2>1, NoIs
  <2>4. Says(v, w, Msg(m, p))
    BY <1>3, <2>1, <2>2, SaysPlain
  <2>5. Says(v, w, No(m, p))
    BY <1>3, <2>1, <2>3, SaysPlain
  <2> QED
    BY <2>1, <2>2, <2>3, <2>4, <2>5
<1>4. CASE r.m = "CONNECT_REQ"
  <2>1. s \in ConnectSteps(v)
    BY <1>4 DEF Take
  <2> QED
    BY <1>4, <2>1, DialSteps
<1>5. CASE r.m = "CONNECT_RESP"
  <2> DEFINE d == IF r.ok THEN "acc" ELSE "closing"
             w == SetD(v, r.id, d)
  <2>1. s = Step(IF v.link[r.id].d # "in" THEN v ELSE w, <<>>)
    BY <1>5 DEF Take, ConnectRespSteps
  <2>2. d \in LiveD \cup {"closing"} /\ r.id \in Plcis
    BY <1>1, <1>5 DEF LiveD
  <2> HIDE DEF d
  <2>3. w \in Drivers /\ Silent(v, w)
    BY <2>2, SilentSetD
  <2> HIDE DEF w
  <2>4. PICK u : u \in {v, w} /\ s = Step(u, <<>>)
    BY <2>1
  <2> QED
    BY <1>1, <1>5, <2>3, <2>4, SilentStep
<1>6. CASE r.m = "CONNECT_B3_REQ"
  <2> DEFINE w == SetB(v, r.id, "conf")
  <2>1. s = Step(v, <<No("CONNECT_B3_CONF", r.id)>>) \/ s = Step(w, <<Msg("CONNECT_B3_CONF", r.id)>>)
    BY <1>6 DEF Take, ConnectB3Steps
  <2>2. r.id \in Plcis /\ "CONNECT_B3_CONF" \in PlainReports
    BY <1>1, <1>6 DEF PlainReports
  <2>3. w \in Drivers /\ Silent(v, w)
    BY <2>2, SilentSetB
  <2> HIDE DEF w
  <2> QED
    BY <1>1, <1>3, <1>6, <2>1, <2>2, <2>3, SpeakingStep
<1>7. CASE r.m = "CONNECT_B3_RESP"
  <2> DEFINE b == IF r.ok THEN "resp" ELSE "closing"
             w == SetB(v, r.id, b)
  <2>1. s = Step(IF v.link[r.id].b # "ind" THEN v ELSE w, <<>>)
    BY <1>7 DEF Take, ConnectB3RespSteps
  <2>2. b \in {"conf", "ind", "resp", "up", "closing", "down"} /\ r.id \in Plcis
    BY <1>1, <1>7
  <2> HIDE DEF b
  <2>3. w \in Drivers /\ Silent(v, w)
    BY <2>2, SilentSetB
  <2> HIDE DEF w
  <2>4. PICK u : u \in {v, w} /\ s = Step(u, <<>>)
    BY <2>1
  <2> QED
    BY <1>1, <1>7, <2>3, <2>4, SilentStep
<1>8. CASE r.m = "DATA_B3_REQ"
  <2> DEFINE ok == v.link[r.id].b = "up"
             m == [m |-> "DATA_B3_CONF", id |-> r.id, h |-> r.h, ok |-> ok]
  <2>1. s = Step(v, <<m>>)
    BY <1>8 DEF Take, DataSteps
  <2>2. r.id \in Plcis /\ r.id # 0 /\ r.h \in Handles /\ ok \in BOOLEAN
    BY <1>1, <1>8, DriverAssumption
  <2> HIDE DEF ok
  <2>3. m \in Messages(Reports) /\ m.m = "DATA_B3_CONF" /\ m.id = r.id /\ m.h = r.h
    BY <2>2 DEF Messages, Reports
  <2> HIDE DEF m
  <2>4. Says(v, v, m)
    BY <2>2, <2>3 DEF Says, SetsUp
  <2> QED
    BY <1>8, <2>1, <2>3, <2>4, SpeakingStep
<1>9. CASE r.m = "DISCONNECT_B3_REQ"
  <2> DEFINE can == v.link[r.id].b \in LiveB
             w == SetB(v, r.id, "closing")
             m == Conf("DISCONNECT_B3_CONF", r.id, can)
  <2>1. s = Step(IF can THEN w ELSE v, <<m>>)
    BY <1>9 DEF Take, DisconnectB3Steps
  <2>2. r.id \in Plcis /\ r.id # 0 /\ can \in BOOLEAN
    BY <1>1, <1>9, DriverAssumption
  <2>3. w \in Drivers /\ Silent(v, w)
    BY <2>2, SilentSetB
  <2> HIDE DEF can, w
  <2>4. m \in Messages(Reports) /\ m.m = "DISCONNECT_B3_CONF" /\ m.id = r.id
    BY <2>2 DEF Messages, Reports, Conf, Msg
  <2> HIDE DEF m
  <2>5. PICK u : u \in {v, w} /\ s = Step(u, <<m>>)
    BY <2>1
  <2>6. u \in Drivers /\ Silent(v, u)
    BY <1>1, <2>3, <2>5
  <2>7. Says(v, u, m)
    BY <2>2, <2>4, <2>6, SaysPlain DEF PlainReports
  <2> QED
    BY <1>9, <2>4, <2>5, <2>6, <2>7, SpeakingStep
<1>10. CASE r.m = "DISCONNECT_REQ"
  <2> DEFINE d == v.link[r.id].d
             w == SetD(v, r.id, "closing")
             y == Msg("DISCONNECT_CONF", r.id)
             n == No("DISCONNECT_CONF", r.id)
  <2>1. r.id \in Plcis /\ r.id # 0 /\ d \in DStates
    BY <1>1, <1>10, DriverAssumption DEF Links, DStates
  <2>2. \/ \E u \in {v, w} : s = Step(u, <<y>>)
        \/ s = Step(v, <<n>>) /\ (~StrictDriver => d \in {"none", "down"})
    <3>1. s \in DisconnectSteps(v, r)
      BY <1>10 DEF Take
    <3>2. CASE d \in LiveD
      BY <3>1, <3>2 DEF DisconnectSteps, LiveD
    <3>3. CASE d = "closing"
      BY <3>1, <3>3, DriverAssumption DEF DisconnectSteps, LiveD
    <3>4. CASE d \in {"none", "down"}
      BY <3>1, <3>4 DEF DisconnectSteps, LiveD
    <3> QED
      BY <2>1, <3>2, <3>3, <3>4 DEF DStates, LiveD
  <2>3. w \in Drivers /\ Silent(v, w)
    <3>1. "closing" \in LiveD \cup {"closing"}
      OBVIOUS
    <3> QED
      BY <2>1, <3>1, SilentSetD
  <2>4. /\ y \in Messages(Reports) /\ y.m = "DISCONNECT_CONF" /\ y.id = r.id /\ y.ok = TRUE
        /\ n \in Messages(Reports) /\ n.m = "DISCONNECT_CONF" /\ n.id = r.id /\ n.ok = FALSE
    <3>1. r.id \in Plcis \cup {0} /\ "DISCONNECT_CONF" \in Reports
      BY <2>1 DEF Reports
    <3>2. y \in Messages(Reports) /\ y.m = "DISCONNECT_CONF" /\ y.id = r.id /\ y.ok = TRUE
      BY <3>1, MsgIs
    <3>3. n \in Messages(Reports) /\ n.m = "DISCONNECT_CONF" /\ n.id = r.id /\ n.ok = FALSE
      BY <3>1, NoIs
    <3> QED
      BY <3>2, <3>3
  <2> HIDE DEF y, n, w
  <2>5. \A u \in {v, w} : u \in Drivers /\ Says(v, u, y)
    BY <1>1, <2>1, <2>3, <2>4 DEF Says, Silent, SetsUp
  <2>6. (~StrictDriver => d \in {"none", "down"}) => Says(v, v, n)
    BY <1>1, <2>1, <2>4 DEF Says, Silent, SetsUp
  <2> QED
    BY <1>10, <2>2, <2>4, <2>5, <2>6, SpeakingStep
<1>11. CASE r.m = "DISCONNECT_RESP"
  <2> DEFINE w == [v EXCEPT !.link[r.id] = NoLink]
  <2>1. s = Step(IF v.link[r.id].d = "down" THEN w ELSE v, <<>>)
    BY <1>11 DEF Take, DisconnectRespSteps
  <2>2. r.id \in Plcis /\ NoLink \in Links /\ v.link \in [Plcis -> Links]
    BY <1>1, <1>11 DEF NoLink, Links, Drivers
  <2>3. [v.link EXCEPT ![r.id] = NoLink] \in [Plcis -> Links]
    BY <2>2
  <2>4. w \in Drivers /\ \A q \in Plcis : q # r.id => w.link[q] = v.link[q]
    BY <2>2, <2>3 DEF Drivers
  <2> HIDE DEF w
  <2>5. CASE v.link[r.id].d = "down"
    <3>1. Silent(v, w)
      BY <2>4, <2>5 DEF Silent
    <3> QED
      BY <1>11, <2>1, <2>4, <2>5, <3>1, SilentStep
  <2>6. CASE v.link[r.id].d # "down"
    BY <1>1, <1>11, <2>1, <2>6, SilentStep
  <2> QED
    BY <2>5, <2>6
<1>12. CASE r.m = "LISTEN_REQ"
  <2> DEFINE w == [v EXCEPT !.listen = TRUE]
             y == Msg("LISTEN_CONF", 0)
             n == No("LISTEN_CONF", 0)
  <2>1. s = Step(w, <<y>>) \/ s = Step(v, <<n>>)
    BY <1>12 DEF Take
  <2>2. w \in Drivers /\ w.link = v.link
    BY DEF Drivers
  <2>3. y \in Messages(Reports) /\ y.m = "LISTEN_CONF" /\ y.id = 0
        /\ n \in Messages(Reports) /\ n.m = "LISTEN_CONF" /\ n.id = 0
    <3>1. 0 \in Plcis \cup {0} /\ "LISTEN_CONF" \in Reports
      BY DEF Reports
    <3>2. y \in Messages(Reports) /\ y.m = "LISTEN_CONF" /\ y.id = 0 /\ y.ok = TRUE
      BY <3>1, MsgIs
    <3>3. n \in Messages(Reports) /\ n.m = "LISTEN_CONF" /\ n.id = 0 /\ n.ok = FALSE
      BY <3>1, NoIs
    <3> QED
      BY <3>2, <3>3
  <2> HIDE DEF y, n, w
  <2>4. Says(v, w, y) /\ Says(v, v, n)
    BY <1>12, <2>2, <2>3, DriverAssumption DEF Says, SetsUp
  <2> QED
    BY <1>12, <2>1, <2>2, <2>3, <2>4, SpeakingStep
<1> QED
  BY <1>1, <1>4, <1>5, <1>6, <1>7, <1>8, <1>9, <1>10, <1>11, <1>12 DEF Requests

-----------------------------------------------------------------------------
(* The reports on their way                                                *)

(* The first element of a queue and the others.                            *)
LEMMA HeadAndTail ==
  ASSUME NEW q \in Seq(Messages(Reports)), q # <<>>
  PROVE  /\ Len(q) \in Nat /\ Len(q) >= 1 /\ Head(q) = q[1] /\ Head(q) \in Messages(Reports)
         /\ Tail(q) \in Seq(Messages(Reports)) /\ Len(Tail(q)) = Len(q) - 1
         /\ DOMAIN q = 1 .. Len(q) /\ DOMAIN Tail(q) = 1 .. Len(q) - 1
         /\ \A i \in 1 .. Len(q) - 1 : Tail(q)[i] = q[i + 1]
<1>1. /\ Len(Tail(q)) = Len(q) - 1 /\ Tail(q) \in Seq(Messages(Reports))
      /\ \A i \in 1 .. Len(Tail(q)) : Tail(q)[i] = q[i + 1]
      /\ Head(q) = q[1] /\ Head(q) \in Messages(Reports)
  BY HeadTailProperties
<1>2. Len(q) \in Nat /\ Len(q) >= 1
  BY EmptySeq
<1> QED
  BY <1>1, <1>2

(* A queue with one more element.                                          *)
LEMMA OneMore ==
  ASSUME NEW q \in Seq(Messages(Reports)), NEW m \in Messages(Reports)
  PROVE  /\ q \o <<m>> \in Seq(Messages(Reports)) /\ Len(q \o <<m>>) = Len(q) + 1
         /\ DOMAIN (q \o <<m>>) = 1 .. Len(q) + 1 /\ DOMAIN q = 1 .. Len(q)
         /\ Len(q) \in Nat
         /\ (q \o <<m>>)[Len(q) + 1] = m
         /\ \A i \in 1 .. Len(q) : (q \o <<m>>)[i] = q[i]
OBVIOUS

(* A report that is added does not undo what those before it do.           *)
LEMMA PastStays ==
  ASSUME NEW q \in Seq(Messages(Reports)), NEW m \in Messages(Reports), NEW x, NEW p,
         NEW n \in 0 .. Len(q), Past(q, x, p, n)
  PROVE  Past(q \o <<m>>, x, p, n)
<1> DEFINE r == q \o <<m>>
<1>1. /\ \A i \in 1 .. Len(q) : r[i] = q[i]
      /\ Len(q) \in Nat
  BY OneMore
<1> HIDE DEF r
<1>2. \A i \in 1 .. n : r[i] = q[i]
  BY <1>1
<1>3. \A j \in 1 .. n : \A i \in j + 1 .. n : i \in 1 .. n
  BY <1>1
<1> QED
  BY <1>2, <1>3 DEF Past, r

(* A report more that ends p, or does not set it up, leaves p past.        *)
LEMMA PastGrows ==
  ASSUME NEW q \in Seq(Messages(Reports)), NEW m \in Messages(Reports), NEW x, NEW p,
         TakesDown(m, p) \/ (Past(q, x, p, Len(q)) /\ ~SetsUp(m, p))
  PROVE  Past(q \o <<m>>, x, p, Len(q) + 1)
<1> DEFINE r == q \o <<m>>
<1>1. /\ \A i \in 1 .. Len(q) : r[i] = q[i]
      /\ Len(q) \in Nat /\ r[Len(q) + 1] = m
  BY OneMore
<1>2. Past(q, x, p, Len(q)) => Past(r, x, p, Len(q))
  <2>1. Len(q) \in 0 .. Len(q)
    BY <1>1
  <2> QED
    BY <2>1, PastStays
<1> HIDE DEF r
<1>3. CASE TakesDown(m, p)
  <2>1. Len(q) + 1 \in 1 .. Len(q) + 1 /\ (Len(q) + 1) + 1 .. Len(q) + 1 = {}
    BY <1>1
  <2> QED
    BY <1>1, <1>3, <2>1 DEF Past, r
<1>4. CASE Past(r, x, p, Len(q)) /\ ~SetsUp(m, p)
  <2>1. /\ \A i \in 1 .. Len(q) + 1 : i \in 1 .. Len(q) \/ i = Len(q) + 1
        /\ \A j \in 1 .. Len(q) : j \in 1 .. Len(q) + 1
        /\ \A j \in 1 .. Len(q) : \A i \in j + 1 .. Len(q) + 1 :
             i \in j + 1 .. Len(q) \/ i = Len(q) + 1
    BY <1>1
  <2>2. CASE x # p /\ \A i \in 1 .. Len(q) : ~SetsUp(r[i], p)
    BY <1>1, <1>4, <2>1, <2>2 DEF Past, r
  <2>3. ASSUME NEW j \in 1 .. Len(q), TakesDown(r[j], p),
               \A i \in j + 1 .. Len(q) : ~SetsUp(r[i], p)
        PROVE  Past(r, x, p, Len(q) + 1)
    <3>1. \A i \in j + 1 .. Len(q) + 1 : ~SetsUp(r[i], p)
      BY <1>1, <1>4, <2>1, <2>3
    <3> QED
      BY <2>1, <2>3, <3>1 DEF Past
  <2> QED
    BY <1>4, <2>2, <2>3 DEF Past, r
<1> QED
  BY <1>2, <1>3, <1>4 DEF r

(* Reading a report brings the channel, now with the PLCI y, one nearer.   *)
LEMMA PastReads ==
  ASSUME NEW q \in Seq(Messages(Reports)), q # <<>>, NEW x, NEW y, NEW p, p # 0,
         NEW n \in 1 .. Len(q), Past(q, x, p, n),
         y \in {0, x} \/ SetsUp(Head(q), y), TakesDown(Head(q), x) => y = 0
  PROVE  Past(Tail(q), y, p, n - 1)
<1>1. /\ Len(q) \in Nat /\ Head(q) = q[1]
      /\ \A i \in 1 .. Len(q) - 1 : Tail(q)[i] = q[i + 1]
  BY HeadAndTail
<1>2. \A i \in 1 .. n - 1 : Tail(q)[i] = q[i + 1] /\ i + 1 \in 1 .. n
  BY <1>1
<1>3. CASE x # p /\ \A i \in 1 .. n : ~SetsUp(q[i], p)
  <2>1. 1 \in 1 .. n
    BY <1>1
  <2>2. y # p
    BY <1>1, <1>3, <2>1
  <2> QED
    BY <1>2, <1>3, <2>2 DEF Past
<1>4. ASSUME NEW j \in 1 .. n, TakesDown(q[j], p), \A i \in j + 1 .. n : ~SetsUp(q[i], p)
      PROVE  Past(Tail(q), y, p, n - 1)
  <2>1. CASE j = 1
    <3>1. TakesDown(Head(q), p) /\ ~SetsUp(Head(q), y)
      BY <1>1, <1>4, <2>1 DEF TakesDown, SetsUp
    <3>2. y # p
      BY <3>1
    <3>3. \A i \in 1 .. n - 1 : i + 1 \in j + 1 .. n
      BY <1>1, <2>1
    <3> QED
      BY <1>2, <1>4, <3>2, <3>3 DEF Past
  <2>2. CASE j # 1
    <3>1. j - 1 \in 1 .. n - 1 /\ Tail(q)[j - 1] = q[j]
      BY <1>1, <2>2
    <3>2. \A i \in (j - 1) + 1 .. n - 1 : i + 1 \in j + 1 .. n /\ i \in 1 .. n - 1
      BY <1>1, <3>1
    <3> QED
      BY <1>2, <1>4, <3>1, <3>2 DEF Past
  <2> QED
    BY <2>1, <2>2
<1> QED
  BY <1>3, <1>4 DEF Past

(* The channel moves on without reading.                                   *)
LEMMA PastKeeps ==
  ASSUME NEW q, NEW x, NEW y \in {0, x}, NEW p, p # 0, NEW n, Past(q, x, p, n)
  PROVE  Past(q, y, p, n)
BY DEF Past

NoAnswer(q) == \A i \in DOMAIN q : q[i].m # "CONNECT_CONF"

(* The reports fit a channel that dials as before.                         *)
LEMMA ReportsStay ==
  ASSUME NEW q, NEW v, NEW c, NEW d, ReportsFit(c, q), EndsFit(v, q, c.plci),
         KeepsDial(c, d), d.plci \in {0, c.plci}
  PROVE  ReportsFit(d, q) /\ EndsFit(v, q, d.plci)
<1>1. ReportsFit(d, q)
  BY DEF ReportsFit, KeepsDial
<1>2. \A p \in Plcis : v.link[p].d \in {"none", "down"} => Past(q, d.plci, p, Len(q))
  BY PastKeeps, DriverAssumption DEF EndsFit
<1>3. ASSUME ~StrictDriver, NEW i \in DOMAIN q, q[i].m = "DISCONNECT_CONF", ~q[i].ok
      PROVE  Past(q, d.plci, q[i].id, i)
  <2>1. q[i].id # 0 /\ Past(q, c.plci, q[i].id, i)
    BY <1>3 DEF ReportsFit, EndsFit
  <2> QED
    BY <2>1, PastKeeps
<1> QED
  BY <1>1, <1>2, <1>3 DEF EndsFit

(* The reports that are left when the first one is read.                   *)
LEMMA ReportsRead ==
  ASSUME NEW q \in Seq(Messages(Reports)), q # <<>>, NEW v, NEW c, NEW d,
         ReportsFit(c, q), EndsFit(v, q, c.plci),
         KeepsDial(c, d) \/ Head(q).m = "CONNECT_CONF",
         d.plci \in {0, c.plci} \/ SetsUp(Head(q), d.plci),
         TakesDown(Head(q), c.plci) => d.plci = 0
  PROVE  ReportsFit(d, Tail(q)) /\ EndsFit(v, Tail(q), d.plci)
<1> DEFINE t == Tail(q)
<1>1. /\ Len(q) \in Nat /\ Len(q) >= 1 /\ Head(q) = q[1]
      /\ Len(t) = Len(q) - 1
      /\ DOMAIN q = 1 .. Len(q) /\ DOMAIN t = 1 .. Len(q) - 1
      /\ \A i \in 1 .. Len(q) - 1 : t[i] = q[i + 1]
  BY HeadAndTail
<1> HIDE DEF t
<1>2. 1 \in DOMAIN q /\ \A i \in DOMAIN t : t[i] = q[i + 1] /\ i + 1 \in DOMAIN q /\ i + 1 # 1
  BY <1>1
<1>3. ReportsFit(d, t)
  <2>1. ASSUME NEW i \in DOMAIN t
        PROVE  /\ t[i].id = 0 =>
                    t[i].m = "LISTEN_CONF" \/ (t[i].m = "CONNECT_CONF" /\ ~t[i].ok)
               /\ t[i].m = "LISTEN_CONF" => App = "recv"
               /\ t[i].m = "DATA_B3_CONF" => t[i].h \in Handles
    BY <1>2 DEF ReportsFit
  <2>2. ASSUME NEW i \in DOMAIN t, t[i].m = "CONNECT_CONF"
        PROVE  d.cs = "D_ConnectRequest" /\ NoDial(d.down)
    <3>1. q[i + 1].m = "CONNECT_CONF" /\ i + 1 \in DOMAIN q /\ i + 1 # 1
      BY <1>2, <2>2
    <3>2. q[1].m # "CONNECT_CONF"
      BY <1>2, <3>1 DEF ReportsFit
    <3>3. c.cs = "D_ConnectRequest" /\ NoDial(c.down)
      BY <3>1 DEF ReportsFit
    <3> QED
      BY <1>1, <3>2, <3>3 DEF KeepsDial
  <2>3. ASSUME NEW i \in DOMAIN t, NEW j \in DOMAIN t,
               t[i].m = "CONNECT_CONF", t[j].m = "CONNECT_CONF"
        PROVE  i = j
    <3>1. i + 1 = j + 1
      BY <1>2, <2>3 DEF ReportsFit
    <3> QED
      BY <1>1, <3>1
  <2> QED
    BY <2>1, <2>2, <2>3 DEF ReportsFit
<1>4. ASSUME NEW p \in Plcis, v.link[p].d \in {"none", "down"}
      PROVE  Past(t, d.plci, p, Len(t))
  <2>1. Past(q, c.plci, p, Len(q)) /\ Len(q) \in 1 .. Len(q) /\ p # 0
    BY <1>1, <1>4, DriverAssumption DEF EndsFit
  <2> QED
    BY <1>1, <2>1, PastReads DEF t
<1>5. ASSUME ~StrictDriver, NEW i \in DOMAIN t, t[i].m = "DISCONNECT_CONF", ~t[i].ok
      PROVE  Past(t, d.plci, t[i].id, i)
  <2>1. /\ i + 1 \in DOMAIN q /\ q[i + 1] = t[i] /\ i + 1 \in 1 .. Len(q)
        /\ (i + 1) - 1 = i
    BY <1>1, <1>2
  <2>2. t[i].id # 0 /\ Past(q, c.plci, t[i].id, i + 1)
    BY <1>5, <2>1 DEF ReportsFit, EndsFit
  <2>3. Past(t, d.plci, t[i].id, (i + 1) - 1)
    BY <2>1, <2>2, PastReads DEF t
  <2> QED
    BY <2>1, <2>3
<1> QED
  BY <1>3, <1>4, <1>5 DEF EndsFit, t

(* The reports with one more.                                              *)
LEMMA ReportsMore ==
  ASSUME NEW q \in Seq(Messages(Reports)), NEW v, NEW w, NEW c,
         ReportsFit(c, q), EndsFit(v, q, c.plci), NEW m, Says(v, w, m), NEW r, r = q \o <<m>>,
         m.m = "CONNECT_CONF" => c.cs = "D_ConnectRequest" /\ NoDial(c.down) /\ NoAnswer(q)
  PROVE  r \in Seq(Messages(Reports)) /\ ReportsFit(c, r) /\ EndsFit(w, r, c.plci)
<1>1. m \in Messages(Reports)
  BY DEF Says
<1>2. /\ r \in Seq(Messages(Reports)) /\ Len(r) = Len(q) + 1 /\ Len(q) \in Nat
      /\ DOMAIN r = 1 .. Len(q) + 1 /\ DOMAIN q = 1 .. Len(q)
      /\ r[Len(q) + 1] = m
      /\ \A i \in 1 .. Len(q) : r[i] = q[i]
  BY <1>1, OneMore
<1>3. \A i \in DOMAIN r : (i \in DOMAIN q /\ r[i] = q[i]) \/ (i = Len(q) + 1 /\ r[i] = m)
  BY <1>2
<1>4. ReportsFit(c, r)
  <2>1. ASSUME NEW i \in DOMAIN r
        PROVE  /\ r[i].id = 0 =>
                    r[i].m = "LISTEN_CONF" \/ (r[i].m = "CONNECT_CONF" /\ ~r[i].ok)
               /\ r[i].m = "LISTEN_CONF" => App = "recv"
               /\ r[i].m = "DATA_B3_CONF" => r[i].h \in Handles
               /\ r[i].m = "CONNECT_CONF" => c.cs = "D_ConnectRequest" /\ NoDial(c.down)
    BY <1>3 DEF ReportsFit, Says
  <2>2. ASSUME NEW i \in DOMAIN r, NEW j \in DOMAIN r,
               r[i].m = "CONNECT_CONF", r[j].m = "CONNECT_CONF"
        PROVE  i = j
    <3>1. CASE i \in DOMAIN q /\ j \in DOMAIN q
      BY <1>2, <2>2, <3>1 DEF ReportsFit
    <3>2. CASE i = Len(q) + 1 \/ j = Len(q) + 1
      <4>1. NoAnswer(q)
        BY <1>2, <2>2, <3>2
      <4> QED
        BY <1>3, <2>2, <4>1 DEF NoAnswer
    <3> QED
      BY <1>3, <3>1, <3>2
  <2> QED
    BY <2>1, <2>2 DEF ReportsFit
<1>5. ASSUME NEW p \in Plcis, w.link[p].d \in {"none", "down"}
      PROVE  Past(r, c.plci, p, Len(r))
  <2>1. TakesDown(m, p) \/ (v.link[p].d \in {"none", "down"} /\ ~SetsUp(m, p))
    BY <1>5 DEF Says
  <2>2. TakesDown(m, p) \/ (Past(q, c.plci, p, Len(q)) /\ ~SetsUp(m, p))
    BY <2>1 DEF EndsFit
  <2> QED
    BY <1>1, <1>2, <2>2, PastGrows
<1>6. ASSUME ~StrictDriver, NEW i \in DOMAIN r, r[i].m = "DISCONNECT_CONF", ~r[i].ok
      PROVE  Past(r, c.plci, r[i].id, i)
  <2>1. CASE i \in DOMAIN q /\ r[i] = q[i]
    <3>1. Past(q, c.plci, r[i].id, i) /\ i \in 0 .. Len(q)
      BY <1>2, <1>6, <2>1 DEF EndsFit
    <3> QED
      BY <1>1, <3>1, PastStays
  <2>2. CASE i = Len(q) + 1 /\ r[i] = m
    <3>1. m.id \in Plcis /\ v.link[m.id].d \in {"none", "down"}
      BY <1>1, <1>6, <2>2 DEF Says, Messages
    <3>2. Past(q, c.plci, m.id, Len(q)) /\ ~SetsUp(m, m.id)
      BY <1>6, <2>2, <3>1 DEF EndsFit, SetsUp
    <3>3. Past(r, c.plci, m.id, Len(q) + 1)
      BY <1>1, <3>2, PastGrows
    <3> QED
      BY <2>2, <3>3
  <2> QED
    BY <1>3, <2>1, <2>2
<1> QED
  BY <1>2, <1>4, <1>5, <1>6 DEF EndsFit

(* A step of the driver keeps the reports fitting.                         *)
LEMMA DriverReports ==
  ASSUME NEW q \in Seq(Messages(Reports)), NEW v, NEW c,
         ReportsFit(c, q), EndsFit(v, q, c.plci), NEW s, DriverSteps(v, s),
         SetsNothingUp(s) \/ (c.cs = "D_ConnectRequest" /\ NoDial(c.down) /\ NoAnswer(q))
  PROVE  /\ s.v \in Drivers /\ q \o s.msgs \in Seq(Messages(Reports))
         /\ ReportsFit(c, q \o s.msgs) /\ EndsFit(s.v, q \o s.msgs, c.plci)
<1>1. CASE s.msgs = <<>> /\ Silent(v, s.v)
  <2>1. q \o s.msgs = q
    BY <1>1
  <2>2. EndsFit(s.v, q, c.plci)
    BY <1>1 DEF EndsFit, Silent
  <2> QED
    BY <2>1, <2>2 DEF DriverSteps
<1>2. ASSUME NEW m, s.msgs = <<m>>, Says(v, s.v, m)
      PROVE  /\ q \o s.msgs \in Seq(Messages(Reports))
             /\ ReportsFit(c, q \o s.msgs) /\ EndsFit(s.v, q \o s.msgs, c.plci)
  <2>1. SetsNothingUp(s) => m.m # "CONNECT_CONF"
    BY <1>2 DEF SetsNothingUp
  <2> QED
    BY <1>2, <2>1, ReportsMore
<1> QED
  BY <1>1, <1>2 DEF DriverSteps

(* What the network does, through the driver.                              *)
LEMMA NetworkIs ==
  ASSUME NEW v \in Drivers, NEW data, NEW digit, NEW s \in Network(v, data, digit)
  PROVE  DriverSteps(v, s) /\ SetsNothingUp(s)
<1>1. /\ v.calls \in 0 .. MaxCalls /\ v.link \in [Plcis -> Links]
      /\ Silent(v, v) /\ MaxCalls \in Nat
  BY DriverAssumption DEF Drivers, Silent
<1>2. ASSUME NEW w \in Drivers, Silent(v, w), NEW m \in PlainReports, NEW p \in Plcis,
             s = Step(w, <<Msg(m, p)>>)
      PROVE  DriverSteps(v, s) /\ SetsNothingUp(s)
  <2>1. p # 0 /\ p \in Plcis \cup {0} /\ m \in Reports /\ m # "CONNECT_CONF"
    BY DriverAssumption DEF Reports, PlainReports
  <2>2. Msg(m, p) \in Messages(Reports) /\ Msg(m, p).m = m /\ Msg(m, p).id = p
    BY <2>1, MsgIs
  <2>3. Says(v, w, Msg(m, p))
    BY <1>2, <2>1, <2>2, SaysPlain
  <2> QED
    BY <1>2, <2>1, <2>2, <2>3, SpeakingStep
<1>3. ASSUME NEW p \in Plcis
      PROVE  /\ \A d \in LiveD \cup {"closing"} : SetD(v, p, d) \in Drivers /\ Silent(v, SetD(v, p, d))
             /\ \A b \in {"conf", "ind", "resp", "up", "closing", "down"} :
                  SetB(v, p, b) \in Drivers /\ Silent(v, SetB(v, p, b))
  BY SilentSetD, SilentSetB
<1>4. ASSUME NEW p \in Plcis, v.calls < MaxCalls,
             s = Step([SetD(v, p, "in") EXCEPT !.calls = @ + 1], <<Msg("CONNECT_IND", p)>>)
      PROVE  DriverSteps(v, s) /\ SetsNothingUp(s)
  <2> DEFINE u == SetD(v, p, "in")
             w == [u EXCEPT !.calls = @ + 1]
             m == Msg("CONNECT_IND", p)
  <2>1. "in" \in LiveD \cup {"closing"} /\ p # 0 /\ p \in Plcis \cup {0}
        /\ "CONNECT_IND" \in Reports
    BY DriverAssumption DEF LiveD, Reports
  <2>2. "in" \in DStates
    BY DEF DStates
  <2>3. /\ u \in Drivers /\ u.link[p].d = "in" /\ u.calls = v.calls
        /\ \A q \in Plcis : q # p => u.link[q] = v.link[q]
    BY <2>2, SetDIs
  <2>4. s = Step(w, <<m>>)
    BY <1>4
  <2>5. m \in Messages(Reports) /\ m.m = "CONNECT_IND" /\ m.id = p
    BY <2>1, MsgIs
  <2> HIDE DEF u, m
  <2>6. u.calls + 1 \in 0 .. MaxCalls
    BY <1>1, <1>4, <2>3
  <2>7. w \in Drivers /\ w.link = u.link
    BY <2>3, <2>6 DEF Drivers
  <2> HIDE DEF w
  <2>8. Says(v, w, m)
    BY <2>1, <2>3, <2>5, <2>7 DEF Says, SetsUp
  <2> QED
    BY <2>4, <2>5, <2>7, <2>8, SpeakingStep
<1>5. \/ \E p \in Plcis :
           /\ v.calls < MaxCalls
           /\ s = Step([SetD(v, p, "in") EXCEPT !.calls = @ + 1], <<Msg("CONNECT_IND", p)>>)
      \/ \E p \in Plcis : s = Step(v, <<Msg("INFO_IND", p)>>)
      \/ \E p \in Plcis : s = Step(SetD(v, p, "active"), <<Msg("CONNECT_ACTIVE_IND", p)>>)
      \/ \E p \in Plcis : s = Step(SetB(v, p, "ind"), <<Msg("CONNECT_B3_IND", p)>>)
      \/ \E p \in Plcis : s = Step(SetB(v, p, "up"), <<Msg("CONNECT_B3_ACTIVE_IND", p)>>)
      \/ \E p \in Plcis : s = Step(v, <<Msg("DATA_B3_IND", p)>>)
      \/ \E p \in Plcis : s = Step(SetB(v, p, "closing"), <<>>)
      \/ \E p \in Plcis : s = Step(SetD(v, p, "closing"), <<>>)
  BY DEF Network, Unused
<1>6. "active" \in LiveD \cup {"closing"} /\ "closing" \in LiveD \cup {"closing"}
  BY DEF LiveD
<1>7. /\ "INFO_IND" \in PlainReports /\ "CONNECT_ACTIVE_IND" \in PlainReports
      /\ "CONNECT_B3_IND" \in PlainReports /\ "CONNECT_B3_ACTIVE_IND" \in PlainReports
      /\ "DATA_B3_IND" \in PlainReports /\ "DISCONNECT_B3_IND" \in PlainReports
  BY DEF PlainReports
<1>8. CASE \E p \in Plcis : s = Step(v, <<Msg("INFO_IND", p)>>)
  BY <1>1, <1>2, <1>7, <1>8
<1>9. CASE \E p \in Plcis : s = Step(SetD(v, p, "active"), <<Msg("CONNECT_ACTIVE_IND", p)>>)
  BY <1>2, <1>3, <1>6, <1>7, <1>9
<1>10. CASE \E p \in Plcis : s = Step(SetB(v, p, "ind"), <<Msg("CONNECT_B3_IND", p)>>)
  BY <1>2, <1>3, <1>7, <1>10
<1>11. CASE \E p \in Plcis : s = Step(SetB(v, p, "up"), <<Msg("CONNECT_B3_ACTIVE_IND", p)>>)
  BY <1>2, <1>3, <1>7, <1>11
<1>12. CASE \E p \in Plcis : s = Step(v, <<Msg("DATA_B3_IND", p)>>)
  BY <1>1, <1>2, <1>7, <1>12
<1>13. CASE \E p \in Plcis : s = Step(SetB(v, p, "closing"), <<>>)
  BY <1>3, <1>13, SilentStep
<1>14. CASE \E p \in Plcis : s = Step(SetD(v, p, "closing"), <<>>)
  BY <1>3, <1>6, <1>14, SilentStep
<1> QED
  BY <1>4, <1>5, <1>8, <1>9, <1>10, <1>11, <1>12, <1>13, <1>14

(* What the driver does by itself to end connections.                      *)
LEMMA ClosingIs ==
  ASSUME NEW v \in Drivers, NEW s \in Closing(v)
  PROVE  DriverSteps(v, s) /\ SetsNothingUp(s)
<1>1. ASSUME NEW p \in Plcis, s = Step(SetB(v, p, "down"), <<Msg("DISCONNECT_B3_IND", p)>>)
      PROVE  DriverSteps(v, s) /\ SetsNothingUp(s)
  <2> DEFINE w == SetB(v, p, "down")
             m == Msg("DISCONNECT_B3_IND", p)
  <2>1. p # 0 /\ p \in Plcis \cup {0} /\ "DISCONNECT_B3_IND" \in Reports
        /\ "DISCONNECT_B3_IND" \in PlainReports
    BY DriverAssumption DEF Reports, PlainReports
  <2>2. m \in Messages(Reports) /\ m.m = "DISCONNECT_B3_IND" /\ m.id = p
    BY <2>1, MsgIs
  <2>3. w \in Drivers /\ Silent(v, w)
    BY SilentSetB
  <2>4. s = Step(w, <<m>>)
    BY <1>1
  <2> HIDE DEF w, m
  <2>5. Says(v, w, m)
    BY <2>1, <2>2, <2>3, SaysPlain
  <2> QED
    BY <2>2, <2>3, <2>4, <2>5, SpeakingStep
<1>2. ASSUME NEW p \in Plcis, s = Step(SetD(v, p, "down"), <<Msg("DISCONNECT_IND", p)>>)
      PROVE  DriverSteps(v, s) /\ SetsNothingUp(s)
  <2> DEFINE w == SetD(v, p, "down")
             m == Msg("DISCONNECT_IND", p)
  <2>1. p # 0 /\ p \in Plcis \cup {0} /\ "DISCONNECT_IND" \in Reports /\ "down" \in DStates
    BY DriverAssumption DEF Reports, DStates
  <2>2. m \in Messages(Reports) /\ m.m = "DISCONNECT_IND" /\ m.id = p
    BY <2>1, MsgIs
  <2>3. w \in Drivers /\ \A q \in Plcis : q # p => w.link[q] = v.link[q]
    BY <2>1, SetDIs
  <2>4. s = Step(w, <<m>>)
    BY <1>2
  <2> HIDE DEF w, m
  <2>5. Says(v, w, m)
    BY <2>1, <2>2, <2>3 DEF Says, SetsUp, TakesDown
  <2> QED
    BY <2>2, <2>3, <2>4, <2>5, SpeakingStep
<1> QED
  BY <1>1, <1>2 DEF Closing

-----------------------------------------------------------------------------
(* The fax, the timer and the phases of the call                           *)

(* Requests that are added leave those of data alone.                      *)
LEMMA CalmData ==
  ASSUME NEW p, NEW r, Calm(p, r)
  PROVE  /\ \A i \in DOMAIN r : IsData(r[i]) => i \in DOMAIN p /\ p[i] = r[i]
         /\ NoData(p) => NoData(r)
         /\ \A i \in DOMAIN p : i \in DOMAIN r /\ r[i] = p[i]
<1>1. \A i \in DOMAIN r : IsData(r[i]) => i \in DOMAIN p /\ p[i] = r[i]
  BY DEF Calm
<1>2. \A i \in DOMAIN p : i \in DOMAIN r /\ r[i] = p[i]
  BY DEF Calm
<1> QED
  BY <1>1, <1>2 DEF NoData

(* What is on its way fits a channel that puts no data.                    *)
LEMMA DataKept ==
  ASSUME NEW c, NEW d, NEW q, Typed(c), Typed(d), DataFits(c, q), Calm(c.down, d.down),
         d.ncci \in {0, c.ncci} \/ (NoData(c.down) /\ NoData(q)),
         d.cs \in Opening => NoData(c.down) /\ NoData(q),
         d.cs \in {"Connected", "B_DisconnectPending"} =>
           \/ NoData(c.down) /\ NoData(q)
           \/ c.cs \in {"Connected", "B_DisconnectPending"} /\ d.block = c.block
  PROVE  DataFits(d, q)
<1>1. /\ \A i \in DOMAIN d.down : IsData(d.down[i]) => i \in DOMAIN c.down /\ c.down[i] = d.down[i]
      /\ NoData(c.down) => NoData(d.down)
      /\ \A i \in DOMAIN c.down : i \in DOMAIN d.down /\ d.down[i] = c.down[i]
  BY CalmData
<1>2. ASSUME NEW i \in DOMAIN d.down, NEW j \in DOMAIN d.down, i < j,
             d.down[i].m = "CONNECT_REQ"
      PROVE  ~IsData(d.down[j])
  <2>1. SUFFICES ASSUME IsData(d.down[j]) PROVE FALSE
    OBVIOUS
  <2>2. j \in DOMAIN c.down /\ c.down[j] = d.down[j]
    BY <1>1, <2>1
  <2>3. DOMAIN d.down \subseteq Nat /\ DOMAIN c.down \subseteq Nat
    BY DEF Typed, LineTyped
  <2>4. i \in DOMAIN c.down
    <3>1. i \notin DOMAIN c.down => j < i
      BY <2>2 DEF Calm
    <3> QED
      BY <1>2, <2>3, <3>1
  <2> QED
    BY <1>1, <1>2, <2>1, <2>2, <2>4 DEF DataFits, DataAfter
<1>3. DataAfter(d, q)
  BY <1>1, <1>2 DEF DataFits, DataAfter
<1>4. DataApart(d, q)
  <2>1. CASE NoData(c.down) /\ NoData(q)
    BY <1>1, <2>1 DEF DataApart, NoData
  <2>2. CASE d.ncci \in {0, c.ncci}
    BY <1>1, <2>2 DEF DataFits, DataApart
  <2> QED
    BY <2>1, <2>2
<1>5. DataUsed(d, q)
  <2>1. CASE NoData(c.down) /\ NoData(q)
    BY <1>1, <2>1 DEF DataUsed, NoData
  <2>2. CASE c.cs \in {"Connected", "B_DisconnectPending"} /\ d.block = c.block
    BY <1>1, <2>2 DEF DataFits, DataUsed
  <2> QED
    BY <2>1, <2>2 DEF DataUsed
<1> QED
  BY <1>3, <1>4, <1>5 DEF DataFits

(* A call that goes on, or ends.                                           *)
LEMMA HeldOnward ==
  ASSUME NEW c, NEW d, NEW q, Fits(c), Fits(d), Held(c, q), Onward(c, d)
  PROVE  Held(d, q)
<1>1. /\ Typed(c) /\ Typed(d) /\ IdsFit(c) /\ IdsFit(d) /\ TimerFits(c) /\ LoopFits(c)
      /\ DataFits(c, q) /\ DataAfter(c, q)
  BY DEF Fits, Held, DataFits
<1>2. /\ StateOnward(c, d) /\ Calm(c.down, d.down) /\ d.ncci \in {0, c.ncci}
      /\ d.sending => c.sending
      /\ d.thr = "late" => d.cs = "Releasing" \/ (c.thr = "late" /\ c.cs # "Releasing")
  BY DEF Onward, LineOnward
<1>3. TimerFits(d)
  BY <1>1, <1>2 DEF TimerFits, LoopFits, StateOnward, IdsFit, IdleStates, CallStates, Opening,
     Joined
<1>4. LoopFits(d)
  BY <1>1, <1>2 DEF LoopFits, StateOnward, IdleStates, Joined, Opening
<1>5. d.cs \in Opening => NoData(c.down) /\ NoData(q)
  BY <1>1, <1>2 DEF StateOnward, IdleStates, Opening, DataAfter
<1>6. d.cs \in {"Connected", "B_DisconnectPending"} =>
        \/ NoData(c.down) /\ NoData(q)
        \/ c.cs \in {"Connected", "B_DisconnectPending"} /\ d.block = c.block
  BY <1>1, <1>2 DEF StateOnward, IdleStates, Opening, DataAfter
<1>7. DataFits(d, q)
  BY <1>1, <1>2, <1>5, <1>6, DataKept
<1> QED
  BY <1>3, <1>4, <1>7 DEF Held

LEMMA ToldOnward ==
  ASSUME NEW c, NEW d, NEW v, NEW q, NEW t, Fits(c), Fits(d), Prompt, Told(c, v, q, t),
         Onward(c, d)
  PROVE  Told(d, v, q, t)
<1>1. /\ StateOnward(c, d) /\ Calm(c.down, d.down) /\ d.ncci \in {0, c.ncci}
      /\ d.phase \in {c.phase, "idle"}
      /\ d.phase # "idle" => d.cs \in Joined \/ c.cs \notin Joined
  BY DEF Onward, LineOnward, CallOnward
<1>2. BlockWaits(d, q)
  <2>1. d.cs \in Opening \cup {"D_ConnectRequest", "D_ConnectIndication", "Connected"} =>
          d.cs = c.cs /\ d.block = c.block
    BY <1>1 DEF StateOnward, IdleStates, Opening
  <2>2. \A i \in DOMAIN c.down : i \in DOMAIN d.down /\ d.down[i] = c.down[i]
    BY <1>1, CalmData
  <2> QED
    BY <2>1, <2>2 DEF Told, BlockWaits
<1>3. PhaseFits(d, t)
  BY <1>1 DEF Told, PhaseFits
<1>4. LogicalFits(d, v, q)
  BY <1>1 DEF Told, LogicalFits
<1> QED
  BY <1>2, <1>3, <1>4 DEF Told

LEMMA LivesOnward ==
  ASSUME NEW c, NEW d, NEW v, NEW q, NEW t, Fits(c), Fits(d), Lives(c, v, q, t), Onward(c, d)
  PROVE  Lives(d, v, q, t)
BY HeldOnward, ToldOnward DEF Lives

(* A call that begins, or whose connection comes nearer.                   *)
LEMMA LivesOpens ==
  ASSUME NEW c, NEW d, NEW v, NEW q, NEW t, Fits(c), Fits(d), Lives(c, v, q, t), Opens(c, d),
         t # "disconnect", Prompt => Owned(c),
         c.cs = "D_ConnectRequest" /\ d.cs \in Opening => NoData(c.down) /\ NoData(q)
  PROVE  Lives(d, v, q, t)
<1>1. /\ Typed(c) /\ Typed(d) /\ IdsFit(c) /\ IdsFit(d) /\ TimerFits(c) /\ LoopFits(c)
      /\ DataFits(c, q) /\ DataAfter(c, q) /\ CallFits(c)
  BY DEF Fits, Lives, Held, DataFits
<1>2. /\ d.cs \in Opening \cup {"D_ConnectRequest", "D_ConnectIndication"}
      /\ c.cs \notin Joined \cup {"Releasing"}
      /\ c.cs \in Opening \cup {"D_ConnectRequest"} \/ d.cs = "D_ConnectRequest" \/ App = "recv"
      /\ Calm(c.down, d.down) /\ d.block = c.block
      /\ d.sending = c.sending /\ (d.thr = "late" => c.thr = "late")
      /\ \/ d.phase = c.phase
         \/ c.phase = "idle" /\ d.phase = "unseen"
         \/ c.phase \in {"idle", "unseen"} /\ d.phase = "setup"
  BY DEF Opens
<1>3. d.cs \in Opening => NoData(c.down) /\ NoData(q)
  BY <1>1, <1>2 DEF DataAfter, Opening
<1>4. d.ncci # 0 => d.cs \in Opening
  BY <1>1, <1>2 DEF IdsFit, Opening
<1>5. DataFits(d, q)
  <2>1. d.ncci \in {0, c.ncci} \/ (NoData(c.down) /\ NoData(q))
    BY <1>3, <1>4
  <2>2. d.cs \notin {"Connected", "B_DisconnectPending"}
    BY <1>2 DEF Opening
  <2> QED
    BY <1>1, <1>2, <1>3, <2>1, <2>2, DataKept
<1>6. Held(d, q)
  <2>1. TimerFits(d)
    BY <1>1, <1>2 DEF TimerFits, IdsFit
  <2>2. LoopFits(d)
    BY <1>1, <1>2 DEF LoopFits
  <2> QED
    BY <1>5, <2>1, <2>2 DEF Held
<1>7. ASSUME Prompt PROVE Told(d, v, q, t)
  <2>1. Told(c, v, q, t) /\ BlockFits(c) /\ OwnerFits(c)
    BY <1>7 DEF Lives, Owned
  <2>2. \A h \in Handles : c.block[h] = 0
    BY <1>1, <1>2, <2>1 DEF Told, BlockWaits, BlockFits, OwnerFits, Typed, LineTyped,
       CallStates, Opening, Joined
  <2>3. BlockWaits(d, q)
    BY <1>2, <2>2 DEF BlockWaits
  <2>4. c.phase \notin {"error", "connected", "closing"}
    BY <1>2, <2>1 DEF Told, PhaseFits
  <2>5. PhaseFits(d, t)
    BY <1>2, <2>4 DEF PhaseFits
  <2>6. LogicalFits(d, v, q)
    BY <1>2, <2>1, <2>4 DEF Told, LogicalFits
  <2> QED
    BY <2>3, <2>5, <2>6 DEF Told
<1> QED
  BY <1>6, <1>7 DEF Lives

(* A call that is connected.                                               *)
LEMMA LivesJoins ==
  ASSUME NEW c, NEW d, NEW v, NEW q, NEW t, Fits(c), Fits(d), Lives(c, v, q, t), Joins(c, d),
         t # "disconnect", Prompt => Owned(c)
  PROVE  Lives(d, v, q, t)
<1>1. /\ Typed(c) /\ Typed(d) /\ IdsFit(c) /\ LoopFits(c) /\ CallFits(c)
      /\ DataFits(c, q) /\ DataAfter(c, q)
  BY DEF Fits, Lives, Held, DataFits
<1>2. /\ c.cs = "B_ConnectPending" /\ d.cs \in {"Connected", "D_DisconnectPending"}
      /\ d.cs = "Connected" => d.timer = "none"
      /\ Calm(c.down, d.down) /\ d.block = c.block /\ d.ncci = c.ncci /\ d.thr = c.thr
      /\ d.phase = IF c.phase = "setup" THEN "connected" ELSE "error"
  BY DEF Joins
<1>3. NoData(c.down) /\ NoData(q)
  BY <1>1, <1>2 DEF DataAfter, Opening
<1>4. DataFits(d, q)
  <2>1. d.cs \notin Opening /\ d.ncci \in {0, c.ncci}
    BY <1>2 DEF Opening
  <2> QED
    BY <1>1, <1>2, <1>3, <2>1, DataKept
<1>5. Held(d, q)
  <2>1. TimerFits(d)
    BY <1>2 DEF TimerFits
  <2>2. LoopFits(d)
    BY <1>1, <1>2 DEF LoopFits, Joined
  <2> QED
    BY <1>4, <2>1, <2>2 DEF Held
<1>6. ASSUME Prompt PROVE Told(d, v, q, t)
  <2>1. Told(c, v, q, t) /\ OwnerFits(c)
    BY <1>6 DEF Lives, Owned
  <2>2. \A h \in Handles : c.block[h] = 0
    BY <1>2, <2>1 DEF Told, BlockWaits, Opening
  <2>3. BlockWaits(d, q)
    BY <1>2, <2>2 DEF BlockWaits
  <2>4. c.phase = "setup"
    <3>1. c.ncci # 0
      BY <1>1, <1>2 DEF IdsFit
    <3>2. c.phase \notin {"idle", "unseen"}
      BY <1>1, <2>1, <3>1 DEF OwnerFits, CallFits
    <3>3. c.phase \notin {"error", "connected", "closing"}
      BY <1>2, <2>1 DEF Told, PhaseFits, Joined
    <3> QED
      BY <1>1, <3>2, <3>3 DEF Typed, CallTyped
  <2>5. PhaseFits(d, t)
    BY <1>2, <2>4 DEF PhaseFits, Joined
  <2>6. LogicalFits(d, v, q)
    BY <1>2, <2>1, <2>4 DEF Told, LogicalFits
  <2> QED
    BY <2>3, <2>5, <2>6 DEF Told
<1> QED
  BY <1>5, <1>6 DEF Lives

(* The registration begins or ends.                                        *)
LEMMA LivesRests ==
  ASSUME NEW c, NEW d, NEW v, NEW q, NEW t, NEW u, Fits(c), Fits(d), Lives(c, v, q, t),
         Rests(c, d),
         Prompt => u = "disconnect" \/ d.phase = "idle" \/ (c.cs \in IdleStates /\ t # "disconnect")
  PROVE  Lives(d, v, q, u)
<1>1. /\ Typed(c) /\ Typed(d) /\ IdsFit(d) /\ LoopFits(c) /\ DataFits(c, q) /\ DataAfter(c, q)
  BY DEF Fits, Lives, Held, DataFits
<1>2. /\ d.cs \in IdleStates /\ d.down \in {c.down, <<>>}
      /\ d.sending => c.sending /\ d.cs = c.cs
      /\ d.thr = "late" => c.thr = "late" /\ d.cs = c.cs
      /\ d.phase \in {c.phase, "idle", "setup"}
  BY DEF Rests
<1>3. d.ncci = 0 /\ d.timer = "none"
  BY <1>1, <1>2 DEF IdsFit, IdleStates, CallStates
<1>4. d.cs \notin Opening \cup Joined \cup {"D_ConnectRequest", "D_ConnectIndication"}
  BY <1>2 DEF IdleStates, Opening, Joined
<1>5. DataFits(d, q)
  <2>1. DataAfter(d, q)
    BY <1>1, <1>2, <1>4 DEF DataAfter, NoData
  <2> QED
    BY <1>3, <1>4, <2>1 DEF DataFits, DataApart, DataUsed, Joined
<1>6. Held(d, q)
  <2>1. TimerFits(d)
    BY <1>3 DEF TimerFits
  <2>2. LoopFits(d)
    BY <1>1, <1>2 DEF LoopFits
  <2> QED
    BY <1>5, <2>1, <2>2 DEF Held
<1>7. ASSUME Prompt PROVE Told(d, v, q, u)
  <2>1. Told(c, v, q, t)
    BY <1>7 DEF Lives
  <2>2. BlockWaits(d, q)
    BY <1>4 DEF BlockWaits, Joined
  <2>3. PhaseFits(d, u)
    <3>1. d.phase # "error"
      BY <1>2, <2>1 DEF Told, PhaseFits
    <3>2. c.cs \in IdleStates /\ t # "disconnect" => c.phase \notin {"connected", "closing"}
      BY <2>1 DEF Told, PhaseFits, IdleStates, Joined
    <3> QED
      BY <1>2, <1>7, <3>1, <3>2 DEF PhaseFits
  <2>4. LogicalFits(d, v, q)
    BY <1>3, <2>1 DEF Told, LogicalFits
  <2> QED
    BY <2>2, <2>3, <2>4 DEF Told
<1> QED
  BY <1>6, <1>7 DEF Lives

(* Each data block on its way has a handle.                                *)
LEMMA DataHandles ==
  ASSUME NEW c, NEW q \in Seq(Messages(Reports)), Typed(c), AskFits(c), ReportsFit(c, q)
  PROVE  /\ \A i \in DOMAIN q : IsData(q[i]) => q[i].m = "DATA_B3_CONF" /\ q[i].h \in Handles
         /\ \A i \in DOMAIN c.down :
              IsData(c.down[i]) => c.down[i].m = "DATA_B3_REQ" /\ c.down[i].h \in Handles
<1>1. c.down \in Seq(Messages(Requests))
  BY DEF Typed, LineTyped
<1>2. \A i \in DOMAIN q : q[i].m \in Reports
  <2>1. \A i \in DOMAIN q : q[i] \in Messages(Reports)
    OBVIOUS
  <2> QED
    BY <2>1 DEF Messages
<1>3. \A i \in DOMAIN c.down : c.down[i].m \in Requests
  <2>1. \A i \in DOMAIN c.down : c.down[i] \in Messages(Requests)
    BY <1>1
  <2> QED
    BY <2>1 DEF Messages
<1>4. "DATA_B3_REQ" \notin Reports /\ "DATA_B3_CONF" \notin Requests
  BY DEF Reports, Requests
<1> QED
  BY <1>2, <1>3, <1>4 DEF IsData, ReportsFit, AskFits

(* A frame that is put is the one request under its handle.                *)
LEMMA LivesPutsFrame ==
  ASSUME NEW c, NEW d, NEW v, NEW q, NEW t, NEW h \in Handles, Fits(c), Fits(d),
         Lives(c, v, q, t), q \in Seq(Messages(Reports)), ReportsFit(c, q), App = "send",
         c.sending, PutsFrame(c, d, h)
  PROVE  Lives(d, v, q, t)
<1>1. /\ Typed(c) /\ IdsFit(c) /\ AskFits(c) /\ ThreadFits(c) /\ FaxFits(c)
      /\ TimerFits(c) /\ LoopFits(c) /\ DataFits(c, q)
      /\ c.block \in [Handles -> Frames \cup {0}] /\ c.down \in Seq(Messages(Requests))
  BY DEF Fits, Lives, Held, Typed, FaxTyped, LineTyped
<1>2. /\ c.cs = "Connected" /\ SameState(c, d) /\ SameCall(c, d) /\ d.sending = c.sending
      /\ c.block[h] = 0 /\ d.block = [c.block EXCEPT ![h] = c.next] /\ c.next # 0
      /\ Puts(c, d, Frame(c, h))
  BY DEF PutsFrame
<1>3. c.ncci # 0 /\ c.appl
  <2>1. c.thr = "run"
    BY <1>1, <1>2 DEF FaxFits, LoopFits
  <2> QED
    BY <1>1, <1>2, <2>1 DEF IdsFit, ThreadFits
<1>4. /\ d.down = Append(c.down, Frame(c, h)) /\ Frame(c, h) \in Messages(Requests)
      /\ Frame(c, h).m = "DATA_B3_REQ" /\ Frame(c, h).id = c.ncci /\ Frame(c, h).h = h
  BY <1>1, <1>2, <1>3 DEF Puts, Frame, Messages, Requests, Typed, LineTyped
<1> DEFINE n == Len(c.down) + 1
<1>5. /\ Len(c.down) \in Nat /\ DOMAIN c.down = 1 .. Len(c.down) /\ DOMAIN d.down = 1 .. n
      /\ d.down[n] = Frame(c, h) /\ \A i \in DOMAIN c.down : d.down[i] = c.down[i]
  BY <1>1, <1>4, AppendProperties
<1>6. \A i \in DOMAIN d.down : i \in DOMAIN c.down \/ i = n
  BY <1>5
<1>7. n \in DOMAIN d.down /\ n \notin DOMAIN c.down /\ DOMAIN c.down \subseteq DOMAIN d.down
  BY <1>5
<1> HIDE DEF n
<1>8. d.cs = "Connected" /\ d.ncci = c.ncci /\ d.phase = c.phase /\ d.timer = c.timer
      /\ d.thr = c.thr
  BY <1>2 DEF SameState, SameCall
<1>9. DataAfter(d, q)
  <2>1. \A i \in DOMAIN c.down : c.down[i].m # "CONNECT_REQ"
    BY <1>1, <1>2 DEF AskFits
  <2>2. \A i \in DOMAIN d.down : d.down[i].m # "CONNECT_REQ"
    BY <1>4, <1>5, <1>6, <2>1
  <2>3. \A i \in DOMAIN q : q[i].m # "CONNECT_CONF"
    BY <1>2 DEF ReportsFit
  <2> QED
    BY <1>8, <2>2, <2>3, ChannelAssumption DEF DataAfter, Opening
<1>10. /\ \A i \in DOMAIN q : IsData(q[i]) => q[i].h # h
       /\ \A i \in DOMAIN c.down : IsData(c.down[i]) => c.down[i].h # h
  BY <1>1, <1>2 DEF DataFits, DataUsed
<1>11. DataApart(d, q)
  <2>1. DataApart(c, q)
    BY <1>1 DEF DataFits
  <2>2. \A i \in DOMAIN d.down : IsData(d.down[i]) => d.down[i].id = c.ncci
    BY <1>3, <1>4, <1>5, <1>6, <2>1 DEF DataApart
  <2>3. ASSUME NEW i \in DOMAIN d.down, NEW j \in DOMAIN d.down,
               IsData(d.down[i]), IsData(d.down[j]), d.down[i].h = d.down[j].h
        PROVE  i = j
    BY <1>3, <1>4, <1>5, <1>6, <1>10, <2>1, <2>3 DEF DataApart
  <2>4. ASSUME NEW i \in DOMAIN q, NEW j \in DOMAIN d.down, IsData(q[i]), IsData(d.down[j])
        PROVE  q[i].h # d.down[j].h
    BY <1>3, <1>4, <1>5, <1>6, <1>10, <2>1, <2>4 DEF DataApart
  <2> QED
    BY <1>3, <1>8, <2>1, <2>2, <2>3, <2>4 DEF DataApart
<1>12. /\ d.block[h] # 0 /\ \A k \in Handles : k # h => d.block[k] = c.block[k]
       /\ \A i \in DOMAIN q : IsData(q[i]) => q[i].h \in Handles
       /\ \A i \in DOMAIN c.down : IsData(c.down[i]) => c.down[i].h \in Handles
  BY <1>1, <1>2, DataHandles
<1>13. DataUsed(d, q)
  <2>1. DataUsed(c, q)
    BY <1>1 DEF DataFits
  <2>2. \A i \in DOMAIN q : IsData(q[i]) => d.block[q[i].h] # 0
    BY <1>2, <1>10, <1>12, <2>1 DEF DataUsed
  <2>3. \A i \in DOMAIN d.down : IsData(d.down[i]) => d.block[d.down[i].h] # 0
    BY <1>2, <1>4, <1>5, <1>6, <1>10, <1>12, <2>1 DEF DataUsed
  <2> QED
    BY <2>2, <2>3 DEF DataUsed
<1>14. Held(d, q)
  BY <1>1, <1>2, <1>8, <1>9, <1>11, <1>13 DEF Held, TimerFits, LoopFits, DataFits
<1>15. ASSUME Prompt PROVE Told(d, v, q, t)
  <2>1. Told(c, v, q, t)
    BY <1>15 DEF Lives
  <2>2. IsData(d.down[n]) /\ d.down[n].h = h
    BY <1>4, <1>5 DEF IsData
  <2>3. BlockWaits(d, q)
    BY <1>2, <1>5, <1>7, <1>8, <1>12, <2>1, <2>2 DEF Told, BlockWaits, Opening
  <2>4. PhaseFits(d, t) /\ LogicalFits(d, v, q)
    BY <1>2, <1>8, <2>1 DEF Told, PhaseFits, LogicalFits
  <2> QED
    BY <2>3, <2>4 DEF Told
<1> QED
  BY <1>14, <1>15 DEF Lives

(* A report that is read.                                                  *)
LEMMA HeldRead ==
  ASSUME NEW c, NEW q \in Seq(Messages(Reports)), q # <<>>, Held(c, q)
  PROVE  Held(c, Tail(q))
<1> DEFINE r == Tail(q)
<1>1. /\ \A i \in DOMAIN r : i \in Nat /\ i + 1 \in DOMAIN q /\ r[i] = q[i + 1]
      /\ \A i, j \in DOMAIN r : (i < j => i + 1 < j + 1) /\ (i + 1 = j + 1 => i = j)
  BY HeadAndTail
<1> HIDE DEF r
<1>2. NoData(q) => NoData(r)
  BY <1>1 DEF NoData
<1>3. DataAfter(c, q) /\ DataApart(c, q) /\ DataUsed(c, q)
  BY DEF Held, DataFits
<1>4. DataAfter(c, r)
  <2>1. ASSUME NEW i \in DOMAIN r, r[i].m = "CONNECT_CONF"
        PROVE  NoData(c.down) /\ \A j \in DOMAIN r : i < j => ~IsData(r[j])
    BY <1>1, <1>3, <2>1 DEF DataAfter
  <2> QED
    BY <1>2, <1>3, <2>1 DEF DataAfter
<1>5. DataApart(c, r)
  <2> SUFFICES ASSUME c.ncci # 0 PROVE DataApart(c, r)
    BY DEF DataApart
  <2>1. ASSUME NEW i \in DOMAIN r, NEW j \in DOMAIN r, IsData(r[i]), IsData(r[j]),
               r[i].h = r[j].h
        PROVE  i = j
    <3>1. i + 1 = j + 1
      BY <1>1, <1>3, <2>1 DEF DataApart
    <3> QED
      BY <1>1, <3>1
  <2>2. \A i \in DOMAIN r : IsData(r[i]) => r[i].id = c.ncci
    BY <1>1, <1>3 DEF DataApart
  <2>3. \A i \in DOMAIN r, j \in DOMAIN c.down :
          IsData(r[i]) /\ IsData(c.down[j]) => r[i].h # c.down[j].h
    BY <1>1, <1>3 DEF DataApart
  <2> QED
    BY <1>3, <2>1, <2>2, <2>3 DEF DataApart
<1>6. DataUsed(c, r)
  BY <1>1, <1>3 DEF DataUsed
<1> QED
  BY <1>4, <1>5, <1>6 DEF Held, DataFits, r

(* What is quiet stays so when other reports are read.                     *)
LEMMA QuietReads ==
  ASSUME NEW v, NEW q \in Seq(Messages(Reports)), q # <<>>, NEW p, NEW n \in 0 .. Len(q),
         Quiet(v, q, p, n), NEW k, k = IF n = 0 THEN 0 ELSE n - 1,
         n = 0 => ~TakesDown(Head(q), p)
  PROVE  Quiet(v, Tail(q), p, k)
<1> DEFINE r == Tail(q)
<1>1. /\ Len(q) \in Nat /\ Len(r) = Len(q) - 1 /\ Head(q) = q[1]
      /\ \A i \in 1 .. Len(q) - 1 : r[i] = q[i + 1]
  BY HeadAndTail
<1> HIDE DEF r
<1>2. k \in Nat /\ n \in Nat /\ k + 1 >= n
  BY <1>1
<1>3. \A i \in k + 1 .. Len(r) : i \in Nat /\ i + 1 \in n + 1 .. Len(q) /\ r[i] = q[i + 1]
  BY <1>1, <1>2
<1>4. CASE /\ v.link[p].b = "down" /\ v.link[p].d \notin {"none", "down"}
           /\ \A i \in n + 1 .. Len(q) : ~EndsB3(q[i], p)
  BY <1>3, <1>4 DEF Quiet, r
<1>5. ASSUME NEW j \in n + 1 .. Len(q), TakesDown(q[j], p),
             \A i \in n + 1 .. j : ~EndsB3(q[i], p)
      PROVE  Quiet(v, r, p, k)
  <2>1. j # 1 \/ n # 0
    BY <1>1, <1>5
  <2>2. j - 1 \in k + 1 .. Len(r) /\ r[j - 1] = q[j]
    BY <1>1, <1>2, <2>1
  <2>3. \A i \in k + 1 .. j - 1 : i + 1 \in n + 1 .. j /\ r[i] = q[i + 1]
    BY <1>1, <1>2, <1>3, <2>2
  <2> QED
    BY <1>5, <2>2, <2>3 DEF Quiet
<1> QED
  BY <1>4, <1>5 DEF Quiet, r

LEMMA LogicalRead ==
  ASSUME NEW c, NEW v, NEW q \in Seq(Messages(Reports)), q # <<>>, LogicalFits(c, v, q),
         c.phase = "closing" /\ c.ncci # 0 => ~TakesDown(Head(q), c.ncci)
  PROVE  LogicalFits(c, v, Tail(q))
<1> DEFINE r == Tail(q)
<1>1. /\ Len(q) \in Nat /\ DOMAIN q = 1 .. Len(q) /\ DOMAIN r = 1 .. Len(q) - 1
      /\ \A i \in 1 .. Len(q) - 1 : r[i] = q[i + 1]
  BY HeadAndTail
<1>2. ASSUME NEW p \in Plcis, NEW i \in DOMAIN r, EndsB3(r[i], p)
      PROVE  Quiet(v, r, p, i)
  <2>1. /\ i + 1 \in DOMAIN q /\ i + 1 \in 0 .. Len(q) /\ r[i] = q[i + 1]
        /\ i = IF i + 1 = 0 THEN 0 ELSE (i + 1) - 1
        /\ i + 1 # 0
    BY <1>1
  <2>2. Quiet(v, q, p, i + 1)
    BY <1>2, <2>1 DEF LogicalFits
  <2> QED
    BY <2>1, <2>2, QuietReads
<1>3. ASSUME c.phase = "closing", c.ncci # 0
      PROVE  Quiet(v, r, c.ncci, 0)
  <2>1. Quiet(v, q, c.ncci, 0) /\ 0 \in 0 .. Len(q) /\ 0 = IF 0 = 0 THEN 0 ELSE 0 - 1
    BY <1>1, <1>3 DEF LogicalFits
  <2> QED
    BY <1>3, <2>1, QuietReads
<1> QED
  BY <1>2, <1>3 DEF LogicalFits

LEMMA LivesRead ==
  ASSUME NEW c, NEW v, NEW q \in Seq(Messages(Reports)), q # <<>>, NEW t, Lives(c, v, q, t),
         c.cs = "Connected" => ~IsData(Head(q)),
         c.ncci # 0 => ~TakesDown(Head(q), c.ncci)
  PROVE  Lives(c, v, Tail(q), t)
<1>1. Held(c, Tail(q))
  BY HeldRead DEF Lives
<1>2. ASSUME Prompt PROVE Told(c, v, Tail(q), t)
  <2>1. BlockWaits(c, q) /\ PhaseFits(c, t) /\ LogicalFits(c, v, q)
    BY <1>2 DEF Lives, Told
  <2>2. LogicalFits(c, v, Tail(q))
    BY <2>1, LogicalRead
  <2>3. BlockWaits(c, Tail(q))
    <3> DEFINE r == Tail(q)
    <3>1. /\ Head(q) = q[1] /\ \A i \in DOMAIN q : i = 1 \/ (i - 1 \in DOMAIN r /\ r[i - 1] = q[i])
      BY HeadAndTail
    <3> HIDE DEF r
    <3>2. ASSUME c.cs = "Connected", NEW i \in DOMAIN q, IsData(q[i])
          PROVE  \E j \in DOMAIN r : IsData(r[j]) /\ r[j].h = q[i].h
      BY <3>1, <3>2
    <3> QED
      BY <2>1, <3>2 DEF BlockWaits, r
  <2> QED
    BY <2>1, <2>2, <2>3 DEF Told
<1> QED
  BY <1>1, <1>2 DEF Lives

(* The connection of the call is closed: the application ends the call.    *)
LEMMA LivesCloses ==
  ASSUME NEW c, NEW d, NEW v, NEW q \in Seq(Messages(Reports)), q # <<>>, NEW t, Fits(c),
         Fits(d), Lives(c, v, q, t), Closes(c, d), EndsB3(Head(q), c.ncci),
         Prompt => Owned(c)
  PROVE  Lives(d, v, Tail(q), t)
<1>1. /\ Typed(c) /\ Typed(d) /\ IdsFit(c) /\ ThreadFits(c) /\ CallFits(c) /\ LoopFits(c)
      /\ DataFits(c, q) /\ c.ncci \in Plcis
  BY DEF Fits, Lives, Held, Typed, LineTyped, Closes
<1>2. /\ c.ncci # 0 /\ d.cs = "D_DisconnectPending" /\ d.ncci \in {0, c.ncci}
      /\ Calm(c.down, d.down) /\ \A h \in Handles : d.block[h] = 0
      /\ d.thr = c.thr
      /\ d.phase = IF c.phase \in {"setup", "connected"} THEN "closing" ELSE "error"
  BY DEF Closes
<1>3. Held(d, q)
  <2>1. DataFits(d, q)
    BY <1>1, <1>2, DataKept DEF Opening
  <2>2. TimerFits(d)
    BY <1>2 DEF TimerFits
  <2>3. LoopFits(d)
    BY <1>1, <1>2 DEF LoopFits, IdsFit, Joined
  <2> QED
    BY <2>1, <2>2, <2>3 DEF Held
<1>4. Held(d, Tail(q))
  BY <1>3, HeldRead
<1>5. ASSUME Prompt PROVE Told(d, v, Tail(q), t)
  <2>1. Told(c, v, q, t) /\ OwnerFits(c)
    BY <1>5 DEF Lives, Owned
  <2>2. 1 \in DOMAIN q /\ Head(q) = q[1] /\ Len(q) \in Nat /\ Len(q) >= 1
    BY HeadAndTail
  <2>3. Quiet(v, q, c.ncci, 1)
    BY <1>1, <2>1, <2>2 DEF Told, LogicalFits
  <2>4. ~Quiet(v, q, c.ncci, 0)
    <3>1. 1 \in 0 + 1 .. Len(q) /\ \A j \in 0 + 1 .. Len(q) : 1 \in 0 + 1 .. j
      BY <2>2
    <3> QED
      BY <2>2, <3>1 DEF Quiet
  <2>5. c.phase \in {"setup", "connected"}
    <3>1. c.phase \notin {"idle", "unseen"}
      BY <1>1, <1>2, <2>1 DEF OwnerFits, CallFits
    <3>2. c.phase \notin {"error", "closing"}
      BY <1>2, <2>1, <2>4 DEF Told, PhaseFits, LogicalFits
    <3> QED
      BY <1>1, <3>1, <3>2 DEF Typed, CallTyped
  <2>6. Quiet(v, Tail(q), c.ncci, 0)
    BY <2>2, <2>3, QuietReads
  <2>7. LogicalFits(c, v, Tail(q))
    BY <2>1, <2>5, LogicalRead DEF Told
  <2>8. LogicalFits(d, v, Tail(q))
    BY <1>2, <2>6, <2>7 DEF LogicalFits
  <2>9. BlockWaits(d, Tail(q)) /\ PhaseFits(d, t)
    BY <1>2, <2>5 DEF BlockWaits, PhaseFits, Joined, Opening
  <2> QED
    BY <2>8, <2>9 DEF Told
<1> QED
  BY <1>4, <1>5 DEF Lives

(* A frame is confirmed.                                                   *)
LEMMA LivesConfirms ==
  ASSUME NEW c, NEW d, NEW v, NEW q \in Seq(Messages(Reports)), q # <<>>, NEW t, Fits(c),
         Fits(d), Lives(c, v, q, t), ReportsFit(c, q),
         Head(q).m = "DATA_B3_CONF", Confirms(c, d, Head(q).h)
  PROVE  Lives(d, v, Tail(q), t)
<1> DEFINE h == Head(q).h
           r == Tail(q)
<1>1. /\ Typed(c) /\ AskFits(c) /\ TimerFits(c) /\ LoopFits(c) /\ DataFits(c, q)
      /\ c.block \in [Handles -> Frames \cup {0}]
  BY DEF Fits, Lives, Held, Typed, FaxTyped
<1>2. SameLine(c, d) /\ SameCall(c, d) /\ c.ncci # 0 /\ d.block = [c.block EXCEPT ![h] = 0]
  BY DEF Confirms
<1>3. /\ Len(q) \in Nat /\ Len(q) >= 1 /\ Head(q) = q[1] /\ DOMAIN q = 1 .. Len(q)
      /\ \A i \in DOMAIN r : i \in Nat /\ i + 1 \in DOMAIN q /\ i + 1 # 1 /\ r[i] = q[i + 1]
      /\ \A i \in DOMAIN q : i = 1 \/ (i - 1 \in DOMAIN r /\ r[i - 1] = q[i])
  BY HeadAndTail
<1>4. 1 \in DOMAIN q /\ IsData(q[1]) /\ q[1].h = h
  BY <1>3 DEF IsData
<1> HIDE DEF h, r
<1>5. h \in Handles
  BY <1>1, <1>4, DataHandles
<1>6. DataApart(c, q) /\ DataUsed(c, q) /\ DataAfter(c, q)
  BY <1>1 DEF DataFits
<1>7. /\ \A i \in DOMAIN r : IsData(r[i]) => r[i].h \in Handles /\ r[i].h # h
      /\ \A i \in DOMAIN c.down : IsData(c.down[i]) => c.down[i].h \in Handles /\ c.down[i].h # h
  <2>1. \A i \in DOMAIN r : IsData(r[i]) => r[i].h \in Handles /\ r[i].h # h
    BY <1>1, <1>2, <1>3, <1>4, <1>6, DataHandles DEF DataApart
  <2>2. \A i \in DOMAIN c.down :
          IsData(c.down[i]) => c.down[i].h \in Handles /\ c.down[i].h # h
    BY <1>1, <1>2, <1>4, <1>6, DataHandles DEF DataApart
  <2> QED
    BY <2>1, <2>2
<1>8. d.block[h] = 0 /\ \A k \in Handles : k # h => d.block[k] = c.block[k]
  BY <1>1, <1>2, <1>5
<1>9. Held(c, r)
  BY HeldRead DEF Lives, r
<1>10. DataAfter(d, r) /\ DataApart(d, r)
  BY <1>2, <1>9 DEF SameLine, Held, DataFits, DataAfter, DataApart
<1>11. DataUsed(d, r)
  BY <1>2, <1>7, <1>8, <1>9 DEF SameLine, Held, DataFits, DataUsed
<1>12. TimerFits(d)
  BY <1>1, <1>2 DEF SameLine, TimerFits
<1>13. LoopFits(d)
  <2>1. NoData(q) => FALSE
    BY <1>4 DEF NoData
  <2>2. c.cs \in Joined
    BY <1>2, <1>6, <2>1 DEF Fits, IdsFit, DataAfter, Opening, Joined
  <2> QED
    BY <1>1, <1>2, <2>2 DEF SameLine, LoopFits
<1>14. Held(d, r)
  BY <1>10, <1>11, <1>12, <1>13 DEF Held, DataFits
<1>15. ASSUME Prompt PROVE Told(d, v, r, t)
  <2>1. BlockWaits(c, q) /\ PhaseFits(c, t) /\ LogicalFits(c, v, q)
    BY <1>15 DEF Lives, Told
  <2>2. ~TakesDown(Head(q), c.ncci)
    BY DEF TakesDown
  <2>3. LogicalFits(c, v, r)
    BY <2>1, <2>2, LogicalRead DEF r
  <2>4. LogicalFits(d, v, r) /\ PhaseFits(d, t)
    BY <1>2, <2>1, <2>3 DEF LogicalFits, PhaseFits, SameLine, SameCall
  <2>5. d.cs = c.cs /\ d.down = c.down
    BY <1>2 DEF SameLine
  <2>6. \A k \in Handles : c.block[k] = 0 => d.block[k] = 0
    BY <1>8
  <2>7. ASSUME c.cs = "Connected", NEW k \in Handles, d.block[k] # 0
        PROVE  \/ \E i \in DOMAIN r : IsData(r[i]) /\ r[i].h = k
               \/ \E i \in DOMAIN c.down : IsData(c.down[i]) /\ c.down[i].h = k
    <3>1. k # h /\ c.block[k] # 0
      BY <1>8, <2>7
    <3>2. CASE \E i \in DOMAIN q : IsData(q[i]) /\ q[i].h = k
      BY <1>3, <1>4, <3>1, <3>2
    <3> QED
      BY <2>1, <2>7, <3>1, <3>2 DEF BlockWaits
  <2>8. BlockWaits(d, r)
    BY <2>1, <2>5, <2>6, <2>7 DEF BlockWaits
  <2> QED
    BY <2>4, <2>8 DEF Told
<1> QED
  BY <1>14, <1>15 DEF Lives, r

(* What a handler makes of the call when it reads msg.                     *)
Reacts(c, d, msg) ==
  \/ /\ Moves(c, d)
     /\ ~(msg.m = "DATA_B3_CONF" /\ msg.id = c.ncci /\ c.block[msg.h] # 0)
  \/ Joins(c, d) /\ ~IsData(msg)
  \/ Closes(c, d) /\ EndsB3(msg, c.ncci)
  \/ msg.m = "DATA_B3_CONF" /\ Confirms(c, d, msg.h)

(* What the application may be told in one step, see CallLife.             *)
Tells(c, d) ==
  Prompt =>
    \/ d.phase \in {c.phase, "idle"} /\ d.begun = c.begun
    \/ c.phase = "idle" /\ d.phase = "unseen" /\ d.begun = c.begun
    \/ /\ c.phase \in {"idle", "unseen"} /\ d.phase \in {c.phase, "setup"} \ {"unseen"}
       /\ d.begun = c.begun + 1
    \/ c.phase = "setup" /\ d.phase = "connected" /\ d.begun = c.begun
    \/ c.phase \in {"setup", "connected"} /\ d.phase = "closing" /\ d.begun = c.begun

LEMMA TellsSteps ==
  ASSUME NEW c, NEW d,
         \/ Moves(c, d) \/ Joins(c, d) \/ Closes(c, d) \/ Rests(c, d) \/ SameCall(c, d),
         Prompt => d.phase # "error"
  PROVE  Tells(c, d)
<1>1. CASE Onward(c, d) \/ Opens(c, d) \/ Rests(c, d) \/ SameCall(c, d)
  BY <1>1 DEF Onward, CallOnward, Opens, Rests, SameCall, Tells
<1>2. CASE Joins(c, d) \/ Closes(c, d)
  BY <1>2 DEF Joins, Closes, Tells
<1> QED
  BY <1>1, <1>2 DEF Moves

(* A report that is read by its handler.                                   *)
LEMMA LivesReads ==
  ASSUME NEW c, NEW v, NEW q, NEW t, NEW w, NEW j, Sound(c, v, q, t, w, j), q # <<>>,
         Lives(c, v, q, t), t # "disconnect", NEW e, Fits(e), Reacts(c, e, Head(q)),
         KeepsDial(c, e) \/ Head(q).m = "CONNECT_CONF",
         e.plci \in {0, c.plci} \/ SetsUp(Head(q), e.plci),
         TakesDown(Head(q), c.plci) => e.plci = 0
  PROVE  Lives(e, v, Tail(q), t) /\ Tells(c, e)
<1>1. /\ Fits(c) /\ ReportsFit(c, q) /\ q \in Seq(Messages(Reports)) /\ (Prompt => Owned(c))
      /\ IdsFit(c) /\ IdsFit(e) /\ Typed(c) /\ AskFits(c)
  BY DEF Sound, OwnFits, Owned, Fits
<1>2. /\ 1 \in DOMAIN q /\ Head(q) = q[1]
      /\ \A i \in DOMAIN q : i = 1 \/ 1 < i
  BY <1>1, HeadAndTail
<1>3. DataAfter(c, q) /\ DataApart(c, q) /\ DataUsed(c, q)
  BY DEF Lives, Held, DataFits
<1>4. e.ncci # 0 => ~TakesDown(Head(q), e.ncci)
  BY <1>1 DEF IdsFit, TakesDown, SetsUp
<1>5. ASSUME Moves(c, e) \/ Joins(c, e), e.cs = "Connected" => ~IsData(Head(q))
      PROVE  Lives(e, v, Tail(q), t)
  <2>1. c.cs = "D_ConnectRequest" /\ e.cs \in Opening => NoData(c.down) /\ NoData(q)
    <3>1. SUFFICES ASSUME c.cs = "D_ConnectRequest", e.cs \in Opening
                   PROVE  NoData(c.down) /\ NoData(q)
      OBVIOUS
    <3>2. q[1].m = "CONNECT_CONF"
      BY <1>2, <3>1 DEF KeepsDial, Opening
    <3>3. NoData(c.down) /\ ~IsData(q[1]) /\ \A i \in DOMAIN q : 1 < i => ~IsData(q[i])
      BY <1>2, <1>3, <3>2 DEF DataAfter, IsData
    <3> QED
      BY <1>2, <3>3 DEF NoData
  <2>2. Lives(e, v, q, t)
    <3>1. CASE Onward(c, e)
      BY <1>1, <3>1, LivesOnward
    <3>2. CASE Opens(c, e)
      BY <1>1, <2>1, <3>2, LivesOpens
    <3>3. CASE Joins(c, e)
      BY <1>1, <3>3, LivesJoins
    <3> QED
      BY <1>5, <3>1, <3>2, <3>3 DEF Moves
  <2> QED
    BY <1>1, <1>4, <1>5, <2>2, LivesRead
<1>6. ASSUME Moves(c, e), e.cs = "Connected", IsData(Head(q)),
             ~(Head(q).m = "DATA_B3_CONF" /\ Head(q).id = c.ncci /\ c.block[Head(q).h] # 0)
      PROVE  FALSE
  <2>1. c.cs = "Connected"
    BY <1>6 DEF Moves, Opens, Opening, Onward, LineOnward, StateOnward, IdleStates
  <2>2. c.ncci # 0
    BY <1>1, <2>1 DEF IdsFit
  <2> QED
    BY <1>1, <1>2, <1>3, <1>6, <2>1, <2>2, DataHandles DEF DataApart, DataUsed
<1>7. ASSUME Closes(c, e), EndsB3(Head(q), c.ncci)
      PROVE  Lives(e, v, Tail(q), t)
  BY <1>1, <1>7, LivesCloses
<1>8. ASSUME Head(q).m = "DATA_B3_CONF", Confirms(c, e, Head(q).h)
      PROVE  Lives(e, v, Tail(q), t)
  BY <1>1, <1>8, LivesConfirms
<1>9. Lives(e, v, Tail(q), t)
  BY <1>5, <1>6, <1>7, <1>8 DEF Reacts
<1>10. Prompt => e.phase # "error"
  BY <1>9 DEF Lives, Told, PhaseFits
<1> QED
  BY <1>9, <1>10, TellsSteps DEF Reacts, Confirms

-----------------------------------------------------------------------------
(* The driver, the phases of the call and the data on its way              *)

(* One connection, before and after a step that does not report its end.   *)
Sinks(k, l) ==
  (k.d \in {"none", "down"} => k.b \in {"none", "down"}) =>
    /\ l.d \in {"none", "down"} => l.b \in {"none", "down"}
    /\ k.b = "down" /\ k.d \notin {"none", "down"} => l.b = "down" /\ l.d \notin {"none", "down"}

(* Reports without data, and not of the end of a logical connection.       *)
Bare(q) == \A i \in DOMAIN q : ~IsData(q[i]) /\ q[i].m # "DISCONNECT_B3_IND"

Even(v, s) == Bare(s.msgs) /\ \A p \in Plcis : Sinks(v.link[p], s.v.link[p])

LEMMA EvenSame ==
  ASSUME NEW v, NEW w, NEW msgs, w.link = v.link, Bare(msgs), NEW s, s = Step(w, msgs)
  PROVE  Even(v, s)
BY StepIs DEF Even, Sinks

LEMMA EvenD ==
  ASSUME NEW v \in Drivers, NEW p \in Plcis, NEW d \in LiveD \cup {"closing"},
         NEW w, w.link = SetD(v, p, d).link, NEW msgs, Bare(msgs), NEW s, s = Step(w, msgs)
  PROVE  Even(v, s)
<1> DEFINE u == SetD(v, p, d)
<1>1. d \in DStates /\ d \notin {"none", "down"}
  BY DEF DStates, LiveD
<1>2. /\ u.link[p].d = d /\ u.link[p].b = v.link[p].b
      /\ \A q \in Plcis : q # p => u.link[q] = v.link[q]
  BY <1>1, SetDIs
<1>3. s.v = w /\ s.msgs = msgs /\ w.link = u.link
  BY StepIs
<1> HIDE DEF u
<1> QED
  BY <1>1, <1>2, <1>3 DEF Even, Sinks

LEMMA EvenB ==
  ASSUME NEW v \in Drivers, NEW p \in Plcis, NEW b \in BStates, v.link[p].b # "down",
         v.link[p].d \notin {"none", "down"} \/ v.link[p].b \notin {"none", "down"},
         NEW w, w = SetB(v, p, b), NEW msgs, Bare(msgs), NEW s, s = Step(w, msgs)
  PROVE  Even(v, s)
<1>1. /\ w.link[p].b = b /\ \A q \in Plcis : w.link[q].d = v.link[q].d
      /\ \A q \in Plcis : q # p => w.link[q] = v.link[q]
  BY SetBIs
<1>2. s.v = w /\ s.msgs = msgs
  BY StepIs
<1> QED
  BY <1>1, <1>2 DEF Even, Sinks

(* What the driver does with a request, but for one of data.               *)
LEMMA BareOne ==
  ASSUME NEW m, ~IsData(m), m.m # "DISCONNECT_B3_IND"
  PROVE  Bare(<<m>>)
BY DEF Bare

LEMMA TakeEven ==
  ASSUME NEW v \in Drivers, NEW r \in Messages(Requests),
         r.id = 0 => r.m \in {"LISTEN_REQ", "CONNECT_REQ"}, r.m # "DATA_B3_REQ",
         NEW s \in Take(v, r)
  PROVE  Even(v, s)
<1>1. /\ r.m \in Requests
      /\ r.m \notin {"LISTEN_REQ", "CONNECT_REQ"} => r.id \in Plcis
      /\ v.link \in [Plcis -> Links]
      /\ Bare(<<>>)
  BY DEF Messages, Drivers, Bare
<1>2. ASSUME NEW m \in {"CONNECT_CONF", "CONNECT_B3_CONF", "LISTEN_CONF", "DISCONNECT_CONF",
                        "DISCONNECT_B3_CONF"}, NEW x
      PROVE  /\ Bare(<<Msg(m, x)>>) /\ Bare(<<No(m, x)>>)
             /\ \A ok \in BOOLEAN : Bare(<<Conf(m, x, ok)>>)
  BY DEF Bare, IsData, Msg, No, Conf
<1>3. CASE r.m = "CONNECT_REQ"
  <2>1. CASE s = Step(v, <<No("CONNECT_CONF", 0)>>)
    BY <1>2, <2>1, EvenSame
  <2>2. ASSUME NEW p \in Unused(v), s = Dial(v, p)
        PROVE  Even(v, s)
    <3> DEFINE w == [v EXCEPT !.link[p] = [d |-> "out", b |-> "none", out |-> TRUE]]
    <3>1. p \in Plcis /\ v.link[p].b = "none"
      BY DEF Unused, NoLink
    <3>2. w.link[p].d = "out" /\ \A q \in Plcis : q # p => w.link[q] = v.link[q]
      BY <1>1, <3>1 DEF Drivers
    <3>3. s.v = w /\ s.msgs = <<Msg("CONNECT_CONF", p)>>
      BY <2>2, StepIs DEF Dial
    <3>4. Bare(s.msgs)
      BY <1>2, <3>3
    <3> HIDE DEF w
    <3> QED
      BY <3>1, <3>2, <3>3, <3>4 DEF Even, Sinks
  <2> QED
    BY <1>3, <2>1, <2>2 DEF Take, ConnectSteps
<1>4. CASE r.m = "CONNECT_RESP"
  <2>1. PICK d \in LiveD \cup {"closing"} :
          s = Step(IF v.link[r.id].d # "in" THEN v ELSE SetD(v, r.id, d), <<>>)
    BY <1>4 DEF Take, ConnectRespSteps, LiveD
  <2>2. CASE v.link[r.id].d # "in"
    BY <1>1, <2>1, <2>2, EvenSame
  <2>3. CASE v.link[r.id].d = "in"
    BY <1>1, <1>4, <2>1, <2>3, EvenD
  <2> QED
    BY <2>2, <2>3
<1>5. CASE r.m = "CONNECT_B3_REQ"
  <2>1. CASE s = Step(v, <<No("CONNECT_B3_CONF", r.id)>>)
    BY <1>2, <2>1, EvenSame
  <2>2. CASE /\ s = Step(SetB(v, r.id, "conf"), <<Msg("CONNECT_B3_CONF", r.id)>>)
             /\ v.link[r.id].d = "active" /\ v.link[r.id].b = "none"
    BY <1>1, <1>2, <1>5, <2>2, EvenB DEF BStates
  <2> QED
    BY <1>5, <2>1, <2>2 DEF Take, ConnectB3Steps
<1>6. CASE r.m = "CONNECT_B3_RESP"
  <2>1. PICK b \in BStates :
          s = Step(IF v.link[r.id].b # "ind" THEN v ELSE SetB(v, r.id, b), <<>>)
    BY <1>6 DEF Take, ConnectB3RespSteps, BStates
  <2>2. CASE v.link[r.id].b # "ind"
    BY <1>1, <2>1, <2>2, EvenSame
  <2>3. CASE v.link[r.id].b = "ind"
    BY <1>1, <1>6, <2>1, <2>3, EvenB
  <2> QED
    BY <2>2, <2>3
<1>7. CASE r.m = "DISCONNECT_B3_REQ"
  <2> DEFINE can == v.link[r.id].b \in LiveB
             msgs == <<Conf("DISCONNECT_B3_CONF", r.id, can)>>
  <2>1. s = Step(IF can THEN SetB(v, r.id, "closing") ELSE v, msgs)
    BY <1>7 DEF Take, DisconnectB3Steps
  <2>2. Bare(msgs)
    <3>1. can \in BOOLEAN /\ "DISCONNECT_B3_CONF" # "DISCONNECT_B3_IND"
      OBVIOUS
    <3> HIDE DEF can
    <3> QED
      BY <3>1 DEF Bare, IsData, Conf, Msg
  <2> HIDE DEF msgs
  <2>3. CASE ~can
    BY <2>1, <2>2, <2>3, EvenSame
  <2>4. CASE can
    <3>1. v.link[r.id].b \notin {"none", "down"} /\ "closing" \in BStates
      BY <2>4 DEF LiveB, BStates
    <3> QED
      BY <1>1, <1>7, <2>1, <2>2, <2>4, <3>1, EvenB
  <2> QED
    BY <2>3, <2>4
<1>8. CASE r.m = "DISCONNECT_REQ"
  <2>1. PICK m : /\ Bare(<<m>>)
                 /\ s = Step(v, <<m>>) \/ s = Step(SetD(v, r.id, "closing"), <<m>>)
    <3>1. s \in DisconnectSteps(v, r)
      BY <1>8 DEF Take
    <3> DEFINE d == v.link[r.id].d
               y == Msg("DISCONNECT_CONF", r.id)
               n == No("DISCONNECT_CONF", r.id)
    <3>2. s \in {Step(v, <<y>>), Step(SetD(v, r.id, "closing"), <<y>>), Step(v, <<n>>)}
      <4>1. CASE d \in LiveD
        BY <3>1, <4>1 DEF DisconnectSteps
      <4>2. CASE d = "closing"
        BY <3>1, <4>2 DEF DisconnectSteps, LiveD
      <4>3. CASE d \notin LiveD \cup {"closing"}
        BY <3>1, <4>3 DEF DisconnectSteps
      <4> QED
        BY <4>1, <4>2, <4>3
    <3> QED
      BY <1>2, <3>2
  <2>2. CASE s = Step(v, <<m>>)
    BY <2>1, <2>2, EvenSame
  <2>3. CASE s = Step(SetD(v, r.id, "closing"), <<m>>)
    BY <1>1, <1>8, <2>1, <2>3, EvenD
  <2> QED
    BY <2>1, <2>2, <2>3
<1>9. CASE r.m = "DISCONNECT_RESP"
  <2> DEFINE w == [v EXCEPT !.link[r.id] = NoLink]
  <2>1. s = Step(IF v.link[r.id].d = "down" THEN w ELSE v, <<>>)
    BY <1>9 DEF Take, DisconnectRespSteps
  <2>2. w.link[r.id] = NoLink /\ \A q \in Plcis : q # r.id => w.link[q] = v.link[q]
    BY <1>1, <1>9 DEF Drivers
  <2> HIDE DEF w
  <2>3. CASE v.link[r.id].d # "down"
    BY <1>1, <2>1, <2>3, EvenSame
  <2>4. CASE v.link[r.id].d = "down"
    <3>1. s.v = w /\ s.msgs = <<>>
      BY <2>1, <2>4, StepIs
    <3> QED
      BY <1>1, <2>2, <2>4, <3>1 DEF Even, Sinks, NoLink
  <2> QED
    BY <2>3, <2>4
<1>10. CASE r.m = "LISTEN_REQ"
  <2>1. \/ s = Step([v EXCEPT !.listen = TRUE], <<Msg("LISTEN_CONF", 0)>>)
        \/ s = Step(v, <<No("LISTEN_CONF", 0)>>)
    BY <1>10 DEF Take
  <2>2. [v EXCEPT !.listen = TRUE].link = v.link
    BY DEF Drivers
  <2> QED
    BY <1>2, <2>1, <2>2, EvenSame
<1> QED
  BY <1>1, <1>3, <1>4, <1>5, <1>6, <1>7, <1>8, <1>9, <1>10 DEF Requests

(* What the network does.                                                  *)
LEMMA NetworkEven ==
  ASSUME NEW v \in Drivers, NEW data, NEW digit, NEW s \in Network(v, data, digit)
  PROVE  Even(v, s)
<1>1. Bare(<<>>)
  BY DEF Bare
<1>2. ASSUME NEW m \in {"CONNECT_IND", "INFO_IND", "CONNECT_ACTIVE_IND", "CONNECT_B3_IND",
                        "CONNECT_B3_ACTIVE_IND", "DATA_B3_IND"}, NEW x
      PROVE  Bare(<<Msg(m, x)>>)
  BY DEF Bare, IsData, Msg
<1>3. ASSUME NEW p \in Plcis, NEW n,
             s = Step([SetD(v, p, "in") EXCEPT !.calls = n], <<Msg("CONNECT_IND", p)>>)
      PROVE  Even(v, s)
  <2> DEFINE u == SetD(v, p, "in")
             w == [u EXCEPT !.calls = n]
  <2>1. "in" \in DStates /\ "in" \in LiveD
    BY DEF DStates, LiveD
  <2>2. u \in Drivers
    BY <2>1, SetDIs
  <2> HIDE DEF u
  <2>3. w.link = u.link
    BY <2>2 DEF Drivers
  <2>4. s = Step(w, <<Msg("CONNECT_IND", p)>>)
    BY <1>3 DEF u
  <2> HIDE DEF w
  <2>5. w.link = SetD(v, p, "in").link
    BY <2>3 DEF u
  <2> QED
    BY <1>2, <2>1, <2>4, <2>5, EvenD
<1>4. ASSUME NEW p \in Plcis, NEW m \in {"INFO_IND", "DATA_B3_IND"}, s = Step(v, <<Msg(m, p)>>)
      PROVE  Even(v, s)
  BY <1>2, <1>4, EvenSame
<1>5. ASSUME NEW p \in Plcis, NEW d \in {"active", "closing"}, NEW msgs, Bare(msgs),
             s = Step(SetD(v, p, d), msgs)
      PROVE  Even(v, s)
  BY <1>5, EvenD DEF LiveD
<1>6. ASSUME NEW p \in Plcis, NEW b \in {"ind", "up", "closing"}, NEW msgs, Bare(msgs),
             s = Step(SetB(v, p, b), msgs),
             (v.link[p].d = "active" /\ v.link[p].b # "down") \/ v.link[p].b \in LiveB
      PROVE  Even(v, s)
  BY <1>6, EvenB DEF BStates, LiveB
<1>7. \/ \E p \in Plcis :
           s = Step([SetD(v, p, "in") EXCEPT !.calls = @ + 1], <<Msg("CONNECT_IND", p)>>)
      \/ \E p \in Plcis, m \in {"INFO_IND", "DATA_B3_IND"} : s = Step(v, <<Msg(m, p)>>)
      \/ \E p \in Plcis : s = Step(SetD(v, p, "active"), <<Msg("CONNECT_ACTIVE_IND", p)>>)
      \/ \E p \in Plcis : /\ s = Step(SetB(v, p, "ind"), <<Msg("CONNECT_B3_IND", p)>>)
                          /\ v.link[p].d = "active" /\ v.link[p].b # "down"
      \/ \E p \in Plcis : /\ s = Step(SetB(v, p, "up"), <<Msg("CONNECT_B3_ACTIVE_IND", p)>>)
                          /\ v.link[p].d = "active" /\ v.link[p].b # "down"
      \/ \E p \in Plcis : s = Step(SetB(v, p, "closing"), <<>>) /\ v.link[p].b \in LiveB
      \/ \E p \in Plcis : s = Step(SetD(v, p, "closing"), <<>>)
  BY DEF Network, Unused
<1> QED
  BY <1>1, <1>2, <1>3, <1>4, <1>5, <1>6, <1>7

(* A connection that ends is reported, the logical one before the other    *)
(* and once.                                                               *)
Fades(v, s) ==
  \A p \in Plcis :
    (v.link[p].d \in {"none", "down"} => v.link[p].b \in {"none", "down"}) =>
      /\ s.v.link[p].d \in {"none", "down"} => s.v.link[p].b \in {"none", "down"}
      /\ v.link[p].b = "down" /\ v.link[p].d \notin {"none", "down"} =>
           \/ /\ s.v.link[p].b = "down" /\ s.v.link[p].d \notin {"none", "down"}
              /\ \A i \in DOMAIN s.msgs : ~EndsB3(s.msgs[i], p)
           \/ \E m : s.msgs = <<m>> /\ TakesDown(m, p)
      /\ \A i \in DOMAIN s.msgs : EndsB3(s.msgs[i], p) =>
           s.v.link[p].b = "down" /\ s.v.link[p].d \notin {"none", "down"}

LEMMA EvenFades ==
  ASSUME NEW v, NEW s, Even(v, s)
  PROVE  Fades(v, s)
BY DEF Even, Fades, Sinks, Bare, EndsB3

LEMMA ClosingFades ==
  ASSUME NEW v \in Drivers, NEW s \in Closing(v)
  PROVE  Fades(v, s) /\ \A i \in DOMAIN s.msgs : ~IsData(s.msgs[i])
<1>1. ASSUME NEW p \in Plcis, s = Step(SetB(v, p, "down"), <<Msg("DISCONNECT_B3_IND", p)>>),
             v.link[p].b \in LiveB \cup {"closing"}
      PROVE  Fades(v, s) /\ \A i \in DOMAIN s.msgs : ~IsData(s.msgs[i])
  <2> DEFINE w == SetB(v, p, "down")
             m == Msg("DISCONNECT_B3_IND", p)
  <2>1. /\ w.link[p].b = "down" /\ w.link[p].d = v.link[p].d
        /\ \A q \in Plcis : q # p => w.link[q] = v.link[q]
    BY SetBIs DEF BStates
  <2>2. m.m = "DISCONNECT_B3_IND" /\ m.id = p
    BY DEF Msg
  <2>3. s.v = w /\ s.msgs = <<m>>
    BY <1>1, StepIs
  <2> HIDE DEF w, m
  <2>4. DOMAIN s.msgs = {1} /\ s.msgs[1] = m
    BY <2>3
  <2>5. v.link[p].b \notin {"none", "down"}
    BY <1>1 DEF LiveB
  <2> QED
    BY <2>1, <2>2, <2>3, <2>4, <2>5 DEF Fades, EndsB3, IsData
<1>2. ASSUME NEW p \in Plcis, s = Step(SetD(v, p, "down"), <<Msg("DISCONNECT_IND", p)>>),
             v.link[p].b \in {"none", "down"}
      PROVE  Fades(v, s) /\ \A i \in DOMAIN s.msgs : ~IsData(s.msgs[i])
  <2> DEFINE w == SetD(v, p, "down")
             m == Msg("DISCONNECT_IND", p)
  <2>1. /\ w.link[p].b = v.link[p].b /\ \A q \in Plcis : q # p => w.link[q] = v.link[q]
    BY SetDIs DEF DStates
  <2>2. m.m = "DISCONNECT_IND" /\ m.id = p
    BY DEF Msg
  <2>3. s.v = w /\ s.msgs = <<m>>
    BY <1>2, StepIs
  <2> HIDE DEF w, m
  <2>4. DOMAIN s.msgs = {1} /\ s.msgs[1] = m
    BY <2>3
  <2> QED
    BY <1>2, <2>1, <2>2, <2>3, <2>4 DEF Fades, EndsB3, TakesDown, IsData
<1> QED
  BY <1>1, <1>2 DEF Closing

(* What is quiet stays so, and the end of a logical connection makes it    *)
(* quiet.                                                                  *)
LEMMA QuietMore ==
  ASSUME NEW v, NEW s, Fades(v, s), NEW q \in Seq(Messages(Reports)),
         NEW m \in Messages(Reports), s.msgs = <<m>>, NEW p \in Plcis,
         v.link[p].d \in {"none", "down"} => v.link[p].b \in {"none", "down"},
         NEW n \in 0 .. Len(q), Quiet(v, q, p, n)
  PROVE  Quiet(s.v, q \o <<m>>, p, n)
<1> DEFINE r == q \o <<m>>
<1>1. /\ Len(q) \in Nat /\ Len(r) = Len(q) + 1 /\ r[Len(q) + 1] = m
      /\ \A i \in 1 .. Len(q) : r[i] = q[i]
  BY OneMore
<1> HIDE DEF r
<1>2. /\ n \in Nat /\ n <= Len(q)
      /\ \A k \in n + 1 .. Len(r) : k \in n + 1 .. Len(q) \/ k = Len(q) + 1
      /\ \A k \in n + 1 .. Len(q) : k \in n + 1 .. Len(r) /\ r[k] = q[k]
      /\ Len(q) + 1 \in n + 1 .. Len(r)
  BY <1>1
<1>3. DOMAIN s.msgs = {1} /\ s.msgs[1] = m
  OBVIOUS
<1>4. CASE /\ v.link[p].b = "down" /\ v.link[p].d \notin {"none", "down"}
           /\ \A k \in n + 1 .. Len(q) : ~EndsB3(q[k], p)
  <2>1. CASE /\ s.v.link[p].b = "down" /\ s.v.link[p].d \notin {"none", "down"}
             /\ \A i \in DOMAIN s.msgs : ~EndsB3(s.msgs[i], p)
    BY <1>1, <1>2, <1>3, <1>4, <2>1 DEF Quiet, r
  <2>2. CASE TakesDown(m, p)
    <3>1. ~EndsB3(m, p)
      BY <2>2 DEF TakesDown, EndsB3
    <3>2. \A k \in n + 1 .. Len(q) + 1 : ~EndsB3(r[k], p)
      BY <1>1, <1>2, <1>4, <3>1
    <3> QED
      BY <1>1, <1>2, <2>2, <3>2 DEF Quiet, r
  <2>3. \A l : <<m>> = <<l>> => l = m
    OBVIOUS
  <2> QED
    BY <1>4, <2>1, <2>2, <2>3 DEF Fades
<1>5. ASSUME NEW j \in n + 1 .. Len(q), TakesDown(q[j], p),
             \A k \in n + 1 .. j : ~EndsB3(q[k], p)
      PROVE  Quiet(s.v, r, p, n)
  <2>1. \A k \in n + 1 .. j : k \in n + 1 .. Len(q)
    BY <1>1, <1>2
  <2> QED
    BY <1>2, <1>5, <2>1 DEF Quiet
<1> QED
  BY <1>4, <1>5 DEF Quiet, r

LEMMA LogicalMore ==
  ASSUME NEW c, NEW v, NEW s, DriverSteps(v, s), Fades(v, s), NEW q \in Seq(Messages(Reports)),
         LogicalFits(c, v, q), c.ncci \in Plcis \cup {0}
  PROVE  LogicalFits(c, s.v, q \o s.msgs)
<1>1. \A p \in Plcis : v.link[p].d \in {"none", "down"} => v.link[p].b \in {"none", "down"}
  BY DEF LogicalFits
<1>2. \A p \in Plcis : s.v.link[p].d \in {"none", "down"} => s.v.link[p].b \in {"none", "down"}
  BY <1>1 DEF Fades
<1>3. CASE s.msgs = <<>>
  <2>1. q \o s.msgs = q
    BY <1>3
  <2>2. ASSUME NEW p \in Plcis, NEW n, Quiet(v, q, p, n)
        PROVE  Quiet(s.v, q, p, n)
    <3>1. \A m : s.msgs # <<m>>
      BY <1>3
    <3> QED
      BY <1>1, <2>2, <3>1 DEF Quiet, Fades
  <2> QED
    BY <1>2, <2>1, <2>2 DEF LogicalFits
<1>4. ASSUME NEW m \in Messages(Reports), s.msgs = <<m>>
      PROVE  LogicalFits(c, s.v, q \o s.msgs)
  <2> DEFINE r == q \o <<m>>
  <2>1. /\ Len(q) \in Nat /\ DOMAIN q = 1 .. Len(q) /\ DOMAIN r = 1 .. Len(q) + 1
        /\ r[Len(q) + 1] = m /\ \A i \in 1 .. Len(q) : r[i] = q[i]
        /\ Len(r) = Len(q) + 1
    BY OneMore
  <2> HIDE DEF r
  <2>2. DOMAIN s.msgs = {1} /\ s.msgs[1] = m
    BY <1>4
  <2>3. ASSUME NEW p \in Plcis, NEW n \in 0 .. Len(q), Quiet(v, q, p, n)
        PROVE  Quiet(s.v, r, p, n)
    BY <1>1, <1>4, <2>3, QuietMore DEF r
  <2>4. ASSUME NEW p \in Plcis, NEW i \in DOMAIN r, EndsB3(r[i], p)
        PROVE  Quiet(s.v, r, p, i)
    <3>1. CASE i \in DOMAIN q
      BY <2>1, <2>3, <2>4, <3>1 DEF LogicalFits
    <3>2. CASE i = Len(q) + 1
      <4>1. s.v.link[p].b = "down" /\ s.v.link[p].d \notin {"none", "down"}
        BY <1>1, <2>1, <2>2, <2>4, <3>2 DEF Fades
      <4>2. \A k \in i + 1 .. Len(r) : FALSE
        BY <2>1, <3>2
      <4> QED
        BY <4>1, <4>2 DEF Quiet
    <3> QED
      BY <2>1, <3>1, <3>2
  <2>5. c.phase = "closing" /\ c.ncci # 0 => Quiet(s.v, r, c.ncci, 0)
    BY <2>1, <2>3 DEF LogicalFits
  <2> QED
    BY <1>2, <1>4, <2>4, <2>5 DEF LogicalFits, r
<1> QED
  BY <1>3, <1>4 DEF DriverSteps, Says

(* Reports without data that arrive.                                       *)
LEMMA HeldMore ==
  ASSUME NEW c, NEW q \in Seq(Messages(Reports)), Held(c, q), NEW msgs,
         msgs = <<>> \/ \E m \in Messages(Reports) :
                         msgs = <<m>> /\ ~IsData(m) /\ (m.m = "CONNECT_CONF" => NoData(c.down))
  PROVE  Held(c, q \o msgs) /\ (BlockWaits(c, q) => BlockWaits(c, q \o msgs))
<1>1. CASE msgs = <<>>
  <2>1. q \o msgs = q
    BY <1>1
  <2> QED
    BY <2>1
<1>2. ASSUME NEW m \in Messages(Reports), msgs = <<m>>, ~IsData(m),
             m.m = "CONNECT_CONF" => NoData(c.down)
      PROVE  Held(c, q \o msgs) /\ (BlockWaits(c, q) => BlockWaits(c, q \o msgs))
  <2> DEFINE r == q \o <<m>>
  <2>1. /\ Len(q) \in Nat /\ DOMAIN q = 1 .. Len(q) /\ DOMAIN r = 1 .. Len(q) + 1
        /\ r[Len(q) + 1] = m /\ \A i \in 1 .. Len(q) : r[i] = q[i]
    BY OneMore
  <2> HIDE DEF r
  <2>2. /\ \A i \in DOMAIN r : IsData(r[i]) => i \in DOMAIN q /\ r[i] = q[i]
        /\ \A i \in DOMAIN r : r[i].m = "CONNECT_CONF" =>
             (i \in DOMAIN q /\ r[i] = q[i]) \/ (i = Len(q) + 1 /\ NoData(c.down))
        /\ \A i \in DOMAIN q : i \in DOMAIN r /\ r[i] = q[i]
        /\ \A i, j \in DOMAIN r : i < j /\ i = Len(q) + 1 => FALSE
    <3>1. \A i \in DOMAIN r : (i \in DOMAIN q /\ r[i] = q[i]) \/ (i = Len(q) + 1 /\ r[i] = m)
      BY <2>1
    <3>2. \A i \in DOMAIN q : i \in DOMAIN r /\ r[i] = q[i]
      BY <2>1
    <3>3. ASSUME NEW i \in DOMAIN r, NEW j \in DOMAIN r, i < j, i = Len(q) + 1
          PROVE  FALSE
      <4>1. j \in 1 .. Len(q) + 1
        BY <2>1
      <4> QED
        BY <2>1, <3>3, <4>1
    <3> QED
      BY <1>2, <3>1, <3>2, <3>3
  <2>3. NoData(q) => NoData(r)
    BY <2>2 DEF NoData
  <2>4. DataAfter(c, r)
    BY <2>2, <2>3 DEF Held, DataFits, DataAfter
  <2>5. DataApart(c, r)
    BY <2>2 DEF Held, DataFits, DataApart
  <2>6. DataUsed(c, r)
    BY <2>2 DEF Held, DataFits, DataUsed
  <2>7. BlockWaits(c, q) => BlockWaits(c, r)
    BY <2>2 DEF BlockWaits
  <2> QED
    BY <1>2, <2>4, <2>5, <2>6, <2>7 DEF Held, DataFits, r
<1> QED
  BY <1>1, <1>2

(* The driver takes a request.                                             *)
LEMMA LineIs ==
  ASSUME NEW c, Typed(c), c.down # <<>>, NEW d, d.down = Tail(c.down)
  PROVE  /\ 1 \in DOMAIN c.down /\ Head(c.down) = c.down[1]
         /\ \A i \in DOMAIN d.down : /\ i \in Nat /\ i + 1 \in DOMAIN c.down
                                     /\ i + 1 # 1 /\ d.down[i] = c.down[i + 1]
         /\ \A i \in DOMAIN c.down : /\ i # 1 => i - 1 \in DOMAIN d.down
                                     /\ i # 1 => d.down[i - 1] = c.down[i]
         /\ NoData(c.down) => NoData(d.down)
<1>1. c.down \in Seq(Messages(Requests))
  BY DEF Typed, LineTyped
<1>2. /\ Len(c.down) \in Nat /\ Len(c.down) >= 1 /\ Head(c.down) = c.down[1]
      /\ Len(d.down) = Len(c.down) - 1 /\ d.down \in Seq(Messages(Requests))
      /\ \A i \in 1 .. Len(d.down) : d.down[i] = c.down[i + 1]
  BY <1>1, HeadTailProperties, EmptySeq
<1>3. DOMAIN c.down = 1 .. Len(c.down) /\ DOMAIN d.down = 1 .. Len(d.down)
  BY <1>1, <1>2
<1>4. \A i \in DOMAIN d.down : /\ i \in Nat /\ i + 1 \in DOMAIN c.down
                               /\ i + 1 # 1 /\ d.down[i] = c.down[i + 1]
  BY <1>2, <1>3
<1>5. \A i \in DOMAIN c.down : i # 1 => i - 1 \in DOMAIN d.down /\ d.down[i - 1] = c.down[i]
  <2>1. ASSUME NEW i \in DOMAIN c.down, i # 1
        PROVE  i - 1 \in DOMAIN d.down /\ d.down[i - 1] = c.down[i]
    <3>1. i - 1 \in 1 .. Len(d.down) /\ (i - 1) + 1 = i
      BY <1>2, <1>3, <2>1
    <3> QED
      BY <1>2, <1>3, <3>1
  <2> QED
    BY <2>1
<1> QED
  BY <1>2, <1>3, <1>4, <1>5 DEF NoData

LEMMA LineTaken ==
  ASSUME NEW c, Typed(c), c.down # <<>>, NEW d, d.down = Tail(c.down), Same(c, d),
         SameState(c, d), ~IsData(Head(c.down)), NEW q, Held(c, q)
  PROVE  /\ Held(d, q) /\ (BlockWaits(c, q) => BlockWaits(d, q))
         /\ Head(c.down).m = "CONNECT_REQ" => NoData(d.down)
<1>1. /\ 1 \in DOMAIN c.down /\ Head(c.down) = c.down[1]
      /\ \A i \in DOMAIN d.down : /\ i \in Nat /\ i + 1 \in DOMAIN c.down
                                  /\ i + 1 # 1 /\ d.down[i] = c.down[i + 1]
      /\ \A i \in DOMAIN c.down : /\ i # 1 => i - 1 \in DOMAIN d.down
                                  /\ i # 1 => d.down[i - 1] = c.down[i]
      /\ NoData(c.down) => NoData(d.down)
  BY LineIs
<1>2. /\ d.cs = c.cs /\ d.ncci = c.ncci /\ d.block = c.block /\ d.timer = c.timer
      /\ d.thr = c.thr /\ d.sending = c.sending
  BY DEF Same, SameState, SameFax
<1>3. DataAfter(c, q) /\ DataApart(c, q) /\ DataUsed(c, q) /\ TimerFits(c) /\ LoopFits(c)
  BY DEF Held, DataFits
<1>4. DataAfter(d, q)
  <2>1. ASSUME NEW i \in DOMAIN d.down, NEW j \in DOMAIN d.down, i < j,
               d.down[i].m = "CONNECT_REQ"
        PROVE  ~IsData(d.down[j])
    <3>1. i + 1 < j + 1
      BY <1>1, <2>1
    <3> QED
      BY <1>1, <1>3, <2>1, <3>1 DEF DataAfter
  <2> QED
    BY <1>1, <1>2, <1>3, <2>1 DEF DataAfter
<1>5. DataApart(d, q)
  <2>1. ASSUME NEW i \in DOMAIN d.down, NEW j \in DOMAIN d.down, c.ncci # 0,
               IsData(d.down[i]), IsData(d.down[j]), d.down[i].h = d.down[j].h
        PROVE  i = j
    <3>1. i + 1 = j + 1
      BY <1>1, <1>3, <2>1 DEF DataApart
    <3> QED
      BY <1>1, <3>1
  <2> QED
    BY <1>1, <1>2, <1>3, <2>1 DEF DataApart
<1>6. DataUsed(d, q)
  BY <1>1, <1>2, <1>3 DEF DataUsed
<1>7. ASSUME BlockWaits(c, q) PROVE BlockWaits(d, q)
  <2>1. \A i \in DOMAIN c.down : IsData(c.down[i]) =>
          i - 1 \in DOMAIN d.down /\ d.down[i - 1] = c.down[i]
    BY <1>1
  <2>2. ASSUME c.cs = "Connected", NEW h \in Handles, c.block[h] # 0
        PROVE  \/ \E i \in DOMAIN q : IsData(q[i]) /\ q[i].h = h
               \/ \E i \in DOMAIN d.down : IsData(d.down[i]) /\ d.down[i].h = h
    <3>1. \/ \E i \in DOMAIN q : IsData(q[i]) /\ q[i].h = h
          \/ \E i \in DOMAIN c.down : IsData(c.down[i]) /\ c.down[i].h = h
      BY <1>7, <2>2 DEF BlockWaits
    <3> QED
      BY <2>1, <3>1
  <2>3. c.cs \in Opening \cup {"D_ConnectRequest", "D_ConnectIndication"} =>
          \A h \in Handles : c.block[h] = 0
    BY <1>7 DEF BlockWaits
  <2> QED
    BY <1>2, <2>2, <2>3 DEF BlockWaits
<1>8. ASSUME c.down[1].m = "CONNECT_REQ" PROVE NoData(d.down)
  <2>1. ASSUME NEW i \in DOMAIN d.down PROVE ~IsData(d.down[i])
    <3>1. 1 < i + 1
      BY <1>1, <2>1
    <3> QED
      BY <1>1, <1>3, <1>8, <2>1, <3>1 DEF DataAfter
  <2> QED
    BY <2>1 DEF NoData
<1>9. TimerFits(d) /\ LoopFits(d)
  BY <1>2, <1>3 DEF TimerFits, LoopFits
<1> QED
  BY <1>1, <1>4, <1>5, <1>6, <1>7, <1>8, <1>9 DEF Held, DataFits

(* It takes a data block, and confirms it.                                 *)
LEMMA DataTaken ==
  ASSUME NEW c, Typed(c), c.down # <<>>, NEW d, d.down = Tail(c.down), Same(c, d),
         SameState(c, d), IsData(Head(c.down)), NEW q \in Seq(Messages(Reports)), Held(c, q),
         NEW m \in Messages(Reports), m.m = "DATA_B3_CONF", m.id = Head(c.down).id,
         m.h = Head(c.down).h
  PROVE  Held(d, q \o <<m>>) /\ (BlockWaits(c, q) => BlockWaits(d, q \o <<m>>))
<1> DEFINE r == q \o <<m>>
<1>1. /\ 1 \in DOMAIN c.down /\ Head(c.down) = c.down[1]
      /\ \A i \in DOMAIN d.down : /\ i \in Nat /\ i + 1 \in DOMAIN c.down
                                  /\ i + 1 # 1 /\ d.down[i] = c.down[i + 1]
      /\ \A i \in DOMAIN c.down : /\ i # 1 => i - 1 \in DOMAIN d.down
                                  /\ i # 1 => d.down[i - 1] = c.down[i]
      /\ NoData(c.down) => NoData(d.down)
  BY LineIs
<1>2. /\ d.cs = c.cs /\ d.ncci = c.ncci /\ d.block = c.block /\ d.timer = c.timer
      /\ d.thr = c.thr /\ d.sending = c.sending
  BY DEF Same, SameState, SameFax
<1>3. DataAfter(c, q) /\ DataApart(c, q) /\ DataUsed(c, q) /\ TimerFits(c) /\ LoopFits(c)
  BY DEF Held, DataFits
<1>4. /\ Len(q) \in Nat /\ DOMAIN q = 1 .. Len(q) /\ DOMAIN r = 1 .. Len(q) + 1
      /\ r[Len(q) + 1] = m /\ \A i \in 1 .. Len(q) : r[i] = q[i]
  BY OneMore
<1> HIDE DEF r
<1>5. /\ \A i \in DOMAIN r : (i \in DOMAIN q /\ r[i] = q[i]) \/ (i = Len(q) + 1 /\ r[i] = m)
      /\ \A i \in DOMAIN q : i \in DOMAIN r /\ r[i] = q[i]
      /\ Len(q) + 1 \in DOMAIN r /\ r[Len(q) + 1] = m
  BY <1>4
<1>6. ~NoData(c.down) /\ IsData(c.down[1]) /\ IsData(m)
  BY <1>1 DEF NoData, IsData
<1>7. DataAfter(d, r)
  <2>1. ~(App = "recv" \/ d.cs \in Opening)
    BY <1>2, <1>3, <1>6 DEF DataAfter
  <2>2. \A i \in DOMAIN r : r[i].m # "CONNECT_CONF"
    BY <1>3, <1>5, <1>6 DEF DataAfter
  <2>3. ASSUME NEW i \in DOMAIN d.down, NEW j \in DOMAIN d.down, i < j,
               d.down[i].m = "CONNECT_REQ"
        PROVE  ~IsData(d.down[j])
    <3>1. i + 1 < j + 1
      BY <1>1, <2>3
    <3> QED
      BY <1>1, <1>3, <2>3, <3>1 DEF DataAfter
  <2> QED
    BY <2>1, <2>2, <2>3 DEF DataAfter
<1>8. DataApart(d, r)
  <2> SUFFICES ASSUME c.ncci # 0 PROVE DataApart(d, r)
    BY <1>2 DEF DataApart
  <2>1. m.id = c.ncci
    BY <1>1, <1>3, <1>6 DEF DataApart
  <2>2. ASSUME NEW i \in DOMAIN r, NEW j \in DOMAIN r, IsData(r[i]), IsData(r[j]),
               r[i].h = r[j].h
        PROVE  i = j
    <3>1. \A k \in DOMAIN q : IsData(q[k]) => q[k].h # m.h
      BY <1>1, <1>3, <1>6 DEF DataApart
    <3> QED
      BY <1>3, <1>5, <2>2, <3>1 DEF DataApart
  <2>3. ASSUME NEW i \in DOMAIN d.down, NEW j \in DOMAIN d.down,
               IsData(d.down[i]), IsData(d.down[j]), d.down[i].h = d.down[j].h
        PROVE  i = j
    <3>1. /\ i + 1 \in DOMAIN c.down /\ d.down[i] = c.down[i + 1] /\ i \in Nat
          /\ j + 1 \in DOMAIN c.down /\ d.down[j] = c.down[j + 1] /\ j \in Nat
      BY <1>1
    <3>2. i + 1 = j + 1
      BY <1>3, <2>3, <3>1 DEF DataApart
    <3> QED
      BY <3>1, <3>2
  <2>4. ASSUME NEW j \in DOMAIN d.down, IsData(d.down[j]) PROVE d.down[j].h # m.h
    BY <1>1, <1>3, <1>6, <2>4 DEF DataApart
  <2>5. ASSUME NEW i \in DOMAIN r, NEW j \in DOMAIN d.down, IsData(r[i]), IsData(d.down[j])
        PROVE  r[i].h # d.down[j].h
    <3>1. j + 1 \in DOMAIN c.down /\ d.down[j] = c.down[j + 1]
      BY <1>1
    <3>2. \A k \in DOMAIN q : IsData(q[k]) => q[k].h # d.down[j].h
      BY <1>3, <2>5, <3>1 DEF DataApart
    <3> QED
      BY <1>5, <2>4, <2>5, <3>2
  <2>6. \A i \in DOMAIN r : IsData(r[i]) => r[i].id = c.ncci
    BY <1>3, <1>5, <2>1 DEF DataApart
  <2>7. \A i \in DOMAIN d.down : IsData(d.down[i]) => d.down[i].id = c.ncci
    BY <1>1, <1>3 DEF DataApart
  <2> QED
    BY <1>2, <2>2, <2>3, <2>5, <2>6, <2>7 DEF DataApart
<1>9. DataUsed(d, r)
  <2>1. ASSUME c.cs \in {"Connected", "B_DisconnectPending"}
        PROVE  /\ \A i \in DOMAIN q : IsData(q[i]) => c.block[q[i].h] # 0
               /\ \A i \in DOMAIN c.down : IsData(c.down[i]) => c.block[c.down[i].h] # 0
    BY <1>3, <2>1 DEF DataUsed
  <2>2. ASSUME c.cs \in {"Connected", "B_DisconnectPending"},
               NEW i \in DOMAIN r, IsData(r[i])
        PROVE  c.block[r[i].h] # 0
    <3>1. c.block[m.h] # 0
      BY <1>1, <1>6, <2>1, <2>2
    <3> QED
      BY <1>5, <2>1, <2>2, <3>1
  <2>3. ASSUME c.cs \in {"Connected", "B_DisconnectPending"},
               NEW i \in DOMAIN d.down, IsData(d.down[i])
        PROVE  c.block[d.down[i].h] # 0
    <3>1. i + 1 \in DOMAIN c.down /\ d.down[i] = c.down[i + 1]
      BY <1>1
    <3> QED
      BY <2>1, <2>3, <3>1
  <2> QED
    BY <1>2, <2>2, <2>3 DEF DataUsed
<1>10. ASSUME BlockWaits(c, q) PROVE BlockWaits(d, r)
  <2>1. ASSUME NEW i \in DOMAIN c.down, NEW h, IsData(c.down[i]), c.down[i].h = h
        PROVE  \/ \E k \in DOMAIN r : IsData(r[k]) /\ r[k].h = h
               \/ \E k \in DOMAIN d.down : IsData(d.down[k]) /\ d.down[k].h = h
    <3>1. CASE i = 1
      BY <1>1, <1>5, <1>6, <2>1, <3>1
    <3>2. CASE i # 1
      BY <1>1, <2>1, <3>2
    <3> QED
      BY <3>1, <3>2
  <2>2. ASSUME c.cs = "Connected", NEW h \in Handles, c.block[h] # 0
        PROVE  \/ \E k \in DOMAIN r : IsData(r[k]) /\ r[k].h = h
               \/ \E k \in DOMAIN d.down : IsData(d.down[k]) /\ d.down[k].h = h
    <3>1. \/ \E i \in DOMAIN q : IsData(q[i]) /\ q[i].h = h
          \/ \E i \in DOMAIN c.down : IsData(c.down[i]) /\ c.down[i].h = h
      BY <1>10, <2>2 DEF BlockWaits
    <3> QED
      BY <1>5, <2>1, <3>1
  <2>3. c.cs \in Opening \cup {"D_ConnectRequest", "D_ConnectIndication"} =>
          \A h \in Handles : c.block[h] = 0
    BY <1>10 DEF BlockWaits
  <2> QED
    BY <1>2, <2>2, <2>3 DEF BlockWaits
<1>11. TimerFits(d) /\ LoopFits(d)
  BY <1>2, <1>3 DEF TimerFits, LoopFits
<1> QED
  BY <1>7, <1>8, <1>9, <1>10, <1>11 DEF Held, DataFits, r

-----------------------------------------------------------------------------
(* The steps                                                               *)

(* Back, seen from the channel before the handler.                         *)
LEMMA BackAfter ==
  ASSUME NEW c, NEW e, Turn(c, e), NEW d, d = Back(e)
  PROVE  Turn(c, d) /\ d.plci = e.plci /\ (KeepsDial(c, e) => KeepsDial(c, d))
         /\ d.cs = e.cs /\ d.down = e.down
<1>1. /\ TurnDial(e, d) /\ Same(e, d)
      /\ d.cs = e.cs /\ d.plci = e.plci /\ d.down = e.down
  BY BackTurn DEF Turn
<1>2. KeepsDial(c, e) => KeepsDial(c, d)
  BY <1>1 DEF KeepsDial
<1>3. Answers(c, d) /\ Sticks(c, d)
  BY <1>1 DEF Turn, Answers, Sticks, Busy, Done, Idle, Same, SameCall, SameWish
<1> QED
  BY <1>1, <1>2, <1>3 DEF Turn, TurnDial

(* What the invariant says when the CAPI thread is there.                  *)
LEMMA Running ==
  ASSUME NEW c, NEW v, NEW q, NEW t, NEW w, NEW j, Sound(c, v, q, t, w, j), Covered,
         c.thr # "none"
  PROVE  /\ c.cs # "Released" /\ t # "disconnect"
         /\ App = "send" \/ (Prompt /\ Owned(c) /\ OwnerFits(c))
<1>1. c.cs # "Released"
  BY DEF Sound, Fits, ThreadFits
<1>2. t # "disconnect"
  BY <1>1 DEF Sound, TailFits
<1> QED
  BY <1>1, <1>2 DEF Sound, OwnFits, Owned, Covered

(* A turn of a channel whose CAPI thread exists, with the reports that go  *)
(* with it.                                                                *)
LEMMA RunningStep ==
  ASSUME NEW c, NEW v, NEW q, NEW t, NEW w, NEW j, Sound(c, v, q, t, w, j),
         c.thr # "none", App = "recv" => c.resets = 0,
         NEW d, Turn(c, d), NEW r \in Seq(Messages(Reports)),
         ReportsFit(d, r), EndsFit(v, r, d.plci)
  PROVE  Sound(d, v, r, t, w, j)
<1>1. c.cs # "Released" /\ d.cs # "Released" /\ t # "disconnect"
  BY DEF Sound, Fits, ThreadFits, TailFits, Turn
<1>2. Fits(d) /\ Answers(c, d)
  BY DEF Turn
<1>3. WaitsFit(d, w)
  BY <1>2 DEF Sound, WaitsFit, Answers, Done
<1>4. StartFits(d, j, w)
  <2>1. App = "recv" => App # "send"
    OBVIOUS
  <2> QED
    BY <1>1, <1>2, <2>1 DEF Sound, StartFits, Answers
<1>5. TailFits(d, t, j)
  BY <1>1 DEF Sound, TailFits, StartFits
<1>6. OwnFits(d, t)
  <2>1. ASSUME Prompt PROVE Owned(d)
    BY <1>1, <2>1 DEF Sound, OwnFits, Owned, Turn
  <2> QED
    BY <2>1 DEF OwnFits, Owned, OwnerFits
<1> QED
  BY <1>2, <1>3, <1>4, <1>5, <1>6 DEF Sound

(* A handler that reads no report.                                         *)
LEMMA QuietStep ==
  ASSUME NEW c, NEW v, NEW q, NEW t, NEW w, NEW j, Sound(c, v, q, t, w, j),
         c.thr # "none", App = "recv" => c.resets = 0,
         NEW e, Turn(c, e), c.cs # "D_ConnectRequest" \/ KeepsDial(c, e),
         e.plci \in {0, c.plci}, NEW d, d \in {e, Back(e)}
  PROVE  Sound(d, v, q, t, w, j) /\ Turn(c, d)
<1>1. Turn(c, d) /\ d.plci = e.plci /\ KeepsDial(c, d)
  <2>1. KeepsDial(c, e)
    BY DEF KeepsDial
  <2>2. CASE d = e
    BY <2>1, <2>2
  <2>3. CASE d = Back(e)
    BY <2>1, <2>3, BackAfter
  <2> QED
    BY <2>2, <2>3
<1>2. ReportsFit(c, q) /\ EndsFit(v, q, c.plci) /\ q \in Seq(Messages(Reports))
  BY DEF Sound
<1>3. ReportsFit(d, q) /\ EndsFit(v, q, d.plci)
  BY <1>1, <1>2, ReportsStay
<1> QED
  BY <1>1, <1>2, <1>3, RunningStep

(* A handler of the report at the head.                                    *)
LEMMA ReadStep ==
  ASSUME NEW c, NEW v, NEW q, NEW t, NEW w, NEW j, Sound(c, v, q, t, w, j),
         c.thr # "none", App = "recv" => c.resets = 0, q # <<>>,
         NEW e, Turn(c, e), KeepsDial(c, e) \/ Head(q).m = "CONNECT_CONF",
         e.plci \in {0, c.plci} \/ SetsUp(Head(q), e.plci),
         TakesDown(Head(q), c.plci) => e.plci = 0, NEW d, d = Back(e)
  PROVE  Sound(d, v, Tail(q), t, w, j) /\ Turn(c, d)
<1>1. Turn(c, d) /\ d.plci = e.plci /\ (KeepsDial(c, e) => KeepsDial(c, d))
  BY BackAfter
<1>2. ReportsFit(c, q) /\ EndsFit(v, q, c.plci) /\ q \in Seq(Messages(Reports))
  BY DEF Sound
<1>3. ReportsFit(d, Tail(q)) /\ EndsFit(v, Tail(q), d.plci)
  BY <1>1, <1>2, ReportsRead
<1>4. Tail(q) \in Seq(Messages(Reports))
  BY <1>2, HeadAndTail
<1> QED
  BY <1>1, <1>3, <1>4, RunningStep

(* What lives, lives on.                                                   *)
LEMMA OnwardTells ==
  ASSUME NEW c, NEW d, NEW v, NEW q, NEW t, Fits(c), Fits(d), Lives(c, v, q, t), Onward(c, d)
  PROVE  Lives(d, v, q, t) /\ Tells(c, d)
BY LivesOnward DEF Tells, Onward, CallOnward

LEMMA LivesBack ==
  ASSUME NEW c, NEW e, NEW v, NEW q, NEW t, Fits(e), Lives(e, v, q, t), Tells(c, e),
         NEW d, d = Back(e)
  PROVE  Lives(d, v, q, t) /\ Tells(c, d)
<1>1. Fits(d) /\ Onward(e, d) /\ Same(e, d)
  BY BackTurn DEF TurnDial, Turn
<1>2. Lives(d, v, q, t)
  BY <1>1, LivesOnward
<1>3. d.phase = e.phase /\ d.begun = e.begun
  BY <1>1 DEF Same, SameCall
<1> QED
  BY <1>2, <1>3 DEF Tells

LEMMA LivesTwice ==
  ASSUME NEW c, NEW r, NEW d, NEW v, NEW q, NEW t, Fits(r), Fits(d), Lives(r, v, q, t),
         Onward(c, r) \/ SameCall(c, r), Onward(r, d)
  PROVE  Lives(d, v, q, t) /\ Tells(c, d)
<1>1. Lives(d, v, q, t)
  BY LivesOnward
<1>2. r.phase \in {c.phase, "idle"} /\ r.begun = c.begun
  BY DEF Onward, CallOnward, SameCall
<1>3. d.phase \in {r.phase, "idle"} /\ d.begun = r.begun
  BY DEF Onward, CallOnward
<1> QED
  BY <1>1, <1>2, <1>3 DEF Tells

(* Any of the other variables keeps its type.                              *)
LEMMA InvAgain ==
  ASSUME Inv, Sound(ch', drv', up', tail', waiting', jobs'), Lives(ch', drv', up', tail'),
         jobs' \in 0 .. MaxJobs + 1, faults' \in 0 .. MaxFaults
  PROVE  Inv'
BY DEF Inv

(* An action that is such a step.                                          *)
LEMMA QuietAction ==
  ASSUME Inv, NEW e, Turn(ch, e), ch.cs # "D_ConnectRequest" \/ KeepsDial(ch, e),
         e.plci \in {0, ch.plci}, ch' \in {e, Back(e)},
         ch.thr # "none", App = "recv" => ch.resets = 0,
         Lives(ch', drv, up, tail), Tells(ch, ch'),
         UNCHANGED <<drv, up, tail, waiting, jobs>>, faults' \in 0 .. MaxFaults
  PROVE  Inv' /\ Sticks(ch, ch') /\ Tells(ch, ch')
<1>1. Sound(ch, drv, up, tail, waiting, jobs) /\ jobs' \in 0 .. MaxJobs + 1
  BY DEF Inv
<1>2. Sound(ch', drv, up, tail, waiting, jobs) /\ Turn(ch, ch')
  BY <1>1, QuietStep
<1> QED
  BY <1>1, <1>2, InvAgain DEF Turn

(* The channel while its CAPI thread exists.                               *)
LEMMA Awake ==
  ASSUME Inv, Covered, ch.thr # "none", ~Gone(ch)
  PROVE  /\ Fits(ch) /\ Typed(ch) /\ ch.cs # "Released" /\ tail # "disconnect"
         /\ App = "send" \/ (Prompt /\ Owned(ch) /\ OwnerFits(ch))
         /\ App = "recv" => ch.resets = 0
<1>1. Sound(ch, drv, up, tail, waiting, jobs)
  BY DEF Inv
<1>2. Fits(ch) /\ Typed(ch)
  BY <1>1 DEF Sound, Fits
<1>3. App = "recv" => ch.resets = 0
  BY <1>1 DEF Sound, StartFits, Gone
<1> QED
  BY <1>1, <1>2, <1>3, Running

(* The steps of the CAPI thread that read no report.                       *)
LEMMA ThreadStartsKeeps ==
  ASSUME Inv, Covered, ThreadStarts
  PROVE  Inv' /\ Sticks(ch, ch') /\ Tells(ch, ch')
<1> DEFINE e == REGISTER_COMPLETE([ch EXCEPT !.thr = "run"])
<1>1. ch.thr = "starting" /\ ~Gone(ch) /\ ch' = Back(e)
      /\ UNCHANGED <<drv, up, tail, waiting, jobs, faults>>
  BY DEF ThreadStarts
<1>2. /\ Fits(ch) /\ (App = "send" \/ OwnerFits(ch)) /\ (App = "recv" => ch.resets = 0)
      /\ tail # "disconnect" /\ Lives(ch, drv, up, tail) /\ (Prompt => Owned(ch))
  BY <1>1, Awake DEF Inv, Sound, OwnFits, Owned
<1>3. Turn(ch, e) /\ e.plci = 0 /\ ch.cs # "D_ConnectRequest" /\ Moves(ch, e)
  BY <1>1, <1>2, ThreadStartsTurn
<1>4. faults' \in 0 .. MaxFaults
  BY <1>1 DEF Inv
<1> HIDE DEF e
<1>5. Fits(e)
  BY <1>3 DEF Turn
<1>6. Lives(e, drv, up, tail)
  <2>1. CASE Onward(ch, e)
    BY <1>2, <1>5, <2>1, LivesOnward
  <2>2. CASE Opens(ch, e)
    BY <1>2, <1>3, <1>5, <2>2, LivesOpens
  <2> QED
    BY <1>3, <2>1, <2>2 DEF Moves
<1>7. Tells(ch, e)
  BY <1>3, <1>6, TellsSteps DEF Lives, Told, PhaseFits
<1>8. Lives(ch', drv, up, tail) /\ Tells(ch, ch')
  BY <1>1, <1>5, <1>6, <1>7, LivesBack
<1> QED
  BY <1>1, <1>2, <1>3, <1>4, <1>8, QuietAction

LEMMA ReadFailsKeeps ==
  ASSUME Inv, Covered, ReadFails
  PROVE  Inv' /\ Sticks(ch, ch') /\ Tells(ch, ch')
<1>1. /\ ch.thr = "run" /\ ~ch.sending /\ ~Gone(ch) /\ faults < MaxFaults
      /\ faults' = faults + 1 /\ UNCHANGED <<drv, up, tail, waiting, jobs>>
  BY DEF ReadFails
<1>2. PICK capi \in BOOLEAN : ch' = Back(RELEASE([ch EXCEPT !.capi = capi]))
  BY DEF ReadFails
<1> DEFINE e == RELEASE([ch EXCEPT !.capi = capi])
<1>3. Fits(ch) /\ (App = "recv" => ch.resets = 0) /\ Lives(ch, drv, up, tail)
  BY <1>1, Awake DEF Inv
<1>4. /\ TurnDial(ch, e) /\ e.plci = ch.plci
      /\ e.cs = ch.cs /\ e.ncci = ch.ncci /\ e.timer = ch.timer /\ e.down = ch.down
      /\ SameCall(ch, e) /\ SameFax(ch, e)
  BY <1>1, <1>3, ReadFailsTurn
<1>5. faults' \in 0 .. MaxFaults
  BY <1>1, RunAssumption DEF Inv
<1>6. ch' = Back(e)
  BY <1>2
<1> HIDE DEF e
<1>7. /\ TurnDial(e, ch') /\ Same(e, ch') /\ Onward(e, ch')
      /\ ch'.thr = "late" => ch'.sending
  BY <1>4, <1>6, BackTurn DEF TurnDial, Turn
<1>8. ch'.thr # "late"
  BY <1>1, <1>4, <1>7 DEF Same, SameFax
<1>9. Onward(ch, ch')
  BY <1>4, <1>7, <1>8 DEF Onward, LineOnward, CallOnward, StateOnward, SameCall, SameFax
<1>10. Lives(ch', drv, up, tail) /\ Tells(ch, ch')
  BY <1>3, <1>7, <1>9, OnwardTells DEF TurnDial, Turn
<1> QED
  BY <1>1, <1>3, <1>4, <1>5, <1>6, <1>10, QuietAction DEF TurnDial

LEMMA SendsFrameKeeps ==
  ASSUME Inv, Covered, SendsFrame
  PROVE  Inv' /\ Sticks(ch, ch') /\ Tells(ch, ch')
<1>1. /\ ch.sending /\ ~ch.fin /\ ~QueueFull(ch)
      /\ UNCHANGED <<drv, up, tail, waiting, jobs>>
  BY DEF SendsFrame
<1>2. /\ App = "send" /\ ch.thr # "none" /\ Fits(ch) /\ faults' \in 0 .. MaxFaults
      /\ Lives(ch, drv, up, tail) /\ up \in Seq(Messages(Reports)) /\ ReportsFit(ch, up)
  BY <1>1 DEF Inv, Sound, Fits, FaxFits, SendsFrame
<1>3. ASSUME NEW h \in Handles, ch.block[h] = 0, ch' = SendFrame(ch, h)
      PROVE  Inv' /\ Sticks(ch, ch') /\ Tells(ch, ch')
  <2>1. TurnDial(ch, ch') /\ ch'.plci \in {0, ch.plci}
    BY <1>1, <1>2, <1>3, SendFrameTurn
  <2>2. PICK r : TurnDial(ch, r) /\ (Onward(ch, r) \/ PutsFrame(ch, r, h)) /\ Onward(r, ch')
    BY <1>1, <1>2, <1>3, SendFrameTurn
  <2>3. Fits(r) /\ Fits(ch')
    BY <2>1, <2>2 DEF TurnDial, Turn
  <2>4. Lives(r, drv, up, tail)
    BY <1>1, <1>2, <1>3, <2>2, <2>3, LivesOnward, LivesPutsFrame
  <2>5. Lives(ch', drv, up, tail) /\ Tells(ch, ch')
    BY <2>2, <2>3, <2>4, LivesTwice DEF PutsFrame
  <2> QED
    BY <1>1, <1>2, <2>1, <2>5, QuietAction DEF TurnDial
<1>4. ASSUME ch' = SendDropped(ch)
      PROVE  Inv' /\ Sticks(ch, ch') /\ Tells(ch, ch')
  <2>1. TurnDial(ch, ch') /\ ch'.plci \in {0, ch.plci}
    BY <1>1, <1>2, <1>4, SendDroppedTurn
  <2>2. PICK r : TurnDial(ch, r) /\ Onward(ch, r) /\ Onward(r, ch')
    BY <1>1, <1>2, <1>4, SendDroppedTurn
  <2>3. Fits(r) /\ Fits(ch')
    BY <2>1, <2>2 DEF TurnDial, Turn
  <2>4. Lives(ch', drv, up, tail) /\ Tells(ch, ch')
    BY <1>2, <2>2, <2>3, LivesOnward, LivesTwice
  <2> QED
    BY <1>1, <1>2, <2>1, <2>4, QuietAction DEF TurnDial
<1> QED
  BY <1>3, <1>4 DEF SendsFrame

LEMMA SendDataReturnsKeeps ==
  ASSUME Inv, Covered, SendDataReturns
  PROVE  Inv' /\ Sticks(ch, ch') /\ Tells(ch, ch')
<1>1. /\ ch.sending /\ ch' = Back([ch EXCEPT !.sending = FALSE])
      /\ UNCHANGED <<drv, up, tail, waiting, jobs>>
  BY DEF SendDataReturns
<1>2. /\ App = "send" /\ ch.thr # "none" /\ Fits(ch) /\ faults' \in 0 .. MaxFaults
      /\ Lives(ch, drv, up, tail)
  BY <1>1 DEF Inv, Sound, Fits, FaxFits, SendDataReturns
<1>3. TurnDial(ch, ch') /\ ch'.plci = ch.plci
  BY <1>1, <1>2, SendDataReturnsTurn
<1>4. PICK r : TurnDial(ch, r) /\ Onward(ch, r) /\ Onward(r, ch')
  BY <1>1, <1>2, SendDataReturnsTurn
<1>5. Fits(r) /\ Fits(ch')
  BY <1>3, <1>4 DEF TurnDial, Turn
<1>6. Lives(ch', drv, up, tail) /\ Tells(ch, ch')
  BY <1>2, <1>4, <1>5, LivesOnward, LivesTwice
<1> QED
  BY <1>1, <1>2, <1>3, <1>6, QuietAction DEF TurnDial

LEMMA ThreadStopsKeeps ==
  ASSUME Inv, Covered, ThreadStops
  PROVE  Inv' /\ Sticks(ch, ch') /\ Tells(ch, ch')
<1>1. /\ ch.thr = "late" /\ ~Gone(ch) /\ ch' = Back(ch)
      /\ UNCHANGED <<drv, up, tail, waiting, jobs, faults>>
  BY DEF ThreadStops
<1>2. Fits(ch) /\ (App = "recv" => ch.resets = 0) /\ faults' \in 0 .. MaxFaults
  BY <1>1, Awake DEF Inv
<1>3. TurnDial(ch, ch)
  BY <1>2, TurnsNot
<1>4. Lives(ch', drv, up, tail) /\ Tells(ch, ch')
  BY <1>1, <1>2, LivesBack DEF Inv, Tells
<1> QED
  BY <1>1, <1>2, <1>3, <1>4, QuietAction DEF TurnDial

(* The timer runs in the states of a call only.                            *)
LEMMA TimersKeep ==
  ASSUME Inv, Covered, SetupTimer \/ DisconnectTimer
  PROVE  Inv' /\ Sticks(ch, ch') /\ Tells(ch, ch')
<1>1. /\ ch.timer # "none" /\ ~Gone(ch) /\ ch' = TimerCallBack(ch)
      /\ ch.timer = "disconnect" => ~Prompt
      /\ UNCHANGED <<drv, up, tail, waiting, jobs, faults>>
  BY DEF SetupTimer, DisconnectTimer, Timer, Prompt
<1>2. Fits(ch) /\ ch.thr # "none" /\ faults' \in 0 .. MaxFaults
  BY <1>1 DEF Inv, Sound, Fits, IdsFit, ThreadFits, CallStates
<1>3. App = "recv" => ch.resets = 0
  BY <1>1, <1>2, Awake
<1>4. TurnDial(ch, ch') /\ ch'.plci \in {0, ch.plci} /\ Onward(ch, ch')
  BY <1>1, <1>2, TimerTurn DEF Covered
<1>5. Lives(ch', drv, up, tail) /\ Tells(ch, ch')
  BY <1>2, <1>4, OnwardTells DEF Inv, TurnDial, Turn
<1> QED
  BY <1>1, <1>2, <1>3, <1>4, <1>5, QuietAction DEF TurnDial

(* The handlers of the reports.                                            *)
LEMMA ReadAction ==
  ASSUME Inv, NEW m, Reads(m), NEW e, Turn(ch, e), ch' = Back(e),
         Reacts(ch, e, Head(up)), KeepsDial(ch, e) \/ m = "CONNECT_CONF",
         e.plci \in {0, ch.plci} \/ SetsUp(Head(up), e.plci),
         m = "DISCONNECT_IND" /\ Head(up).id = ch.plci => e.plci = 0
  PROVE  Inv' /\ Sticks(ch, ch') /\ Tells(ch, ch')
<1>1. /\ ch.thr # "none" /\ ~Gone(ch) /\ up # <<>> /\ Head(up).m = m /\ up' = Tail(up)
      /\ UNCHANGED <<drv, tail, waiting, jobs, faults>>
  BY DEF Reads
<1>2. /\ Sound(ch, drv, up, tail, waiting, jobs) /\ jobs' \in 0 .. MaxJobs + 1
      /\ faults' \in 0 .. MaxFaults
  BY <1>1 DEF Inv
<1>3. App = "recv" => ch.resets = 0
  BY <1>1, <1>2 DEF Sound, StartFits, Gone
<1>4. TakesDown(Head(up), ch.plci) => e.plci = 0
  BY <1>1 DEF TakesDown
<1>5. Sound(ch', drv, Tail(up), tail, waiting, jobs) /\ Turn(ch, ch')
  BY <1>1, <1>2, <1>3, <1>4, ReadStep
<1>6. tail # "disconnect" /\ Fits(e) /\ Lives(ch, drv, up, tail)
  BY <1>1, <1>2 DEF Sound, Fits, ThreadFits, TailFits, Inv, Turn
<1>7. Lives(e, drv, Tail(up), tail) /\ Tells(ch, e)
  BY <1>1, <1>2, <1>4, <1>6, LivesReads
<1>8. Lives(ch', drv, Tail(up), tail) /\ Tells(ch, ch')
  BY <1>6, <1>7, LivesBack
<1> QED
  BY <1>1, <1>2, <1>5, <1>8, InvAgain DEF Turn

(* What is known of the report that is read.                               *)
LEMMA ReadKnows ==
  ASSUME Inv, Covered, NEW m, Reads(m)
  PROVE  /\ Fits(ch) /\ ch.thr \in {"run", "late"}
         /\ m = "DATA_B3_CONF" => ch.cs # "B_ConnectPending"
         /\ Head(up) \in Messages(Reports) /\ Head(up).m = m
         /\ Head(up).id = 0 =>
              m = "LISTEN_CONF" \/ (m = "CONNECT_CONF" /\ ~Head(up).ok)
         /\ m = "LISTEN_CONF" => App = "recv"
         /\ m = "DATA_B3_CONF" => Head(up).h \in Handles
         /\ m = "CONNECT_CONF" => ch.cs = "D_ConnectRequest" /\ NoDial(ch.down)
         /\ m = "DISCONNECT_CONF" /\ ~StrictDriver /\ ~Head(up).ok => Head(up).id # ch.plci
         /\ App = "send" \/ (Prompt /\ Owned(ch) /\ OwnerFits(ch))
<1>1. /\ ch.thr \in {"run", "late"} /\ ~Gone(ch) /\ up # <<>> /\ Head(up).m = m
      /\ up \in Seq(Messages(Reports))
  BY DEF Reads, Inv, Sound
<1>2. /\ Head(up) \in Messages(Reports) /\ Head(up) = up[1] /\ 1 \in DOMAIN up
  BY <1>1, HeadAndTail
<1>3. Fits(ch) /\ (App = "send" \/ (Prompt /\ Owned(ch) /\ OwnerFits(ch)))
  BY <1>1, Awake
<1>4. ReportsFit(ch, up) /\ EndsFit(drv, up, ch.plci)
  BY DEF Inv, Sound
<1>5. ASSUME m = "DISCONNECT_CONF", ~StrictDriver, ~Head(up).ok
      PROVE  Head(up).id # ch.plci
  <2>1. Past(up, ch.plci, up[1].id, 1)
    BY <1>1, <1>2, <1>4, <1>5 DEF EndsFit
  <2>2. ~TakesDown(up[1], up[1].id)
    BY <1>1, <1>2, <1>5 DEF TakesDown
  <2>3. \A j \in 1 .. 1 : j = 1
    OBVIOUS
  <2> QED
    BY <1>2, <2>1, <2>2, <2>3 DEF Past
<1>6. m = "DATA_B3_CONF" => ch.cs # "B_ConnectPending"
  BY <1>1, <1>2 DEF Inv, Lives, Held, DataFits, DataAfter, NoData, IsData, Opening
<1> QED
  BY <1>1, <1>2, <1>3, <1>4, <1>5, <1>6 DEF ReportsFit

(* The handlers of the reports, one action each.                           *)
LEMMA OnConnectB3ConfKeeps ==
  ASSUME Inv, Covered, OnConnectB3Conf
  PROVE  Inv' /\ Sticks(ch, ch') /\ Tells(ch, ch')
<1> DEFINE e == CONNECT_B3_CONF(ch, Head(up))
<1>1. Reads("CONNECT_B3_CONF") /\ ch' = Back(e)
  BY DEF OnConnectB3Conf
<1>2. /\ Fits(ch) /\ ch.thr \in {"run", "late"} /\ Head(up) \in Messages(Reports)
      /\ Head(up).id # 0
  BY <1>1, ReadKnows
<1>3. TurnDial(ch, e) /\ e.plci = ch.plci /\ Moves(ch, e)
  BY <1>2, ConnectB3ConfTurn
<1> HIDE DEF e
<1>4. Reacts(ch, e, Head(up))
  BY <1>1, <1>3 DEF Reads, Reacts, IsData
<1> QED
  BY <1>1, <1>3, <1>4, ReadAction DEF TurnDial

LEMMA OnDataB3ConfKeeps ==
  ASSUME Inv, Covered, OnDataB3Conf
  PROVE  Inv' /\ Sticks(ch, ch') /\ Tells(ch, ch')
<1> DEFINE e == DATA_B3_CONF(ch, Head(up))
<1>1. Reads("DATA_B3_CONF") /\ ch' = Back(e)
  BY DEF OnDataB3Conf
<1>2. /\ Fits(ch) /\ ch.thr \in {"run", "late"} /\ Head(up) \in Messages(Reports)
      /\ Head(up).id # 0
      /\ Head(up).h \in Handles /\ ch.cs # "B_ConnectPending"
  BY <1>1, ReadKnows
<1>3. /\ TurnDial(ch, e) /\ e.plci = ch.plci
      /\ Onward(ch, e) \/ Confirms(ch, e, Head(up).h)
      /\ Confirms(ch, e, Head(up).h) \/ ~(Head(up).id = ch.ncci /\ ch.block[Head(up).h] # 0)
  BY <1>2, DataB3ConfTurn
<1> HIDE DEF e
<1>4. Reacts(ch, e, Head(up))
  BY <1>1, <1>3 DEF Reads, Reacts, Moves
<1> QED
  BY <1>1, <1>3, <1>4, ReadAction DEF TurnDial

LEMMA OnDisconnectB3ConfKeeps ==
  ASSUME Inv, Covered, OnDisconnectB3Conf
  PROVE  Inv' /\ Sticks(ch, ch') /\ Tells(ch, ch')
<1> DEFINE e == DISCONNECT_B3_CONF(ch, Head(up))
<1>1. Reads("DISCONNECT_B3_CONF") /\ ch' = Back(e)
  BY DEF OnDisconnectB3Conf
<1>2. /\ Fits(ch) /\ ch.thr \in {"run", "late"} /\ Head(up) \in Messages(Reports)
      /\ Head(up).id # 0
  BY <1>1, ReadKnows
<1>3. TurnDial(ch, e) /\ e.plci = ch.plci /\ Onward(ch, e)
  BY <1>2, DisconnectB3ConfTurn
<1> HIDE DEF e
<1>4. Reacts(ch, e, Head(up))
  BY <1>1, <1>3 DEF Reads, Reacts, Moves
<1> QED
  BY <1>1, <1>3, <1>4, ReadAction DEF TurnDial

LEMMA OnConnectActiveIndKeeps ==
  ASSUME Inv, Covered, OnConnectActiveInd
  PROVE  Inv' /\ Sticks(ch, ch') /\ Tells(ch, ch')
<1> DEFINE e == CONNECT_ACTIVE_IND(ch, Head(up))
<1>1. Reads("CONNECT_ACTIVE_IND") /\ ch' = Back(e)
  BY DEF OnConnectActiveInd
<1>2. /\ Fits(ch) /\ ch.thr \in {"run", "late"} /\ Head(up) \in Messages(Reports)
      /\ Head(up).id # 0
  BY <1>1, ReadKnows
<1>3. TurnDial(ch, e) /\ e.plci = ch.plci /\ Moves(ch, e)
  BY <1>2, ConnectActiveIndTurn
<1> HIDE DEF e
<1>4. Reacts(ch, e, Head(up))
  BY <1>1, <1>3 DEF Reads, Reacts, IsData
<1> QED
  BY <1>1, <1>3, <1>4, ReadAction DEF TurnDial

LEMMA OnConnectB3IndKeeps ==
  ASSUME Inv, Covered, OnConnectB3Ind
  PROVE  Inv' /\ Sticks(ch, ch') /\ Tells(ch, ch')
<1> DEFINE e == CONNECT_B3_IND(ch, Head(up))
<1>1. Reads("CONNECT_B3_IND") /\ ch' = Back(e)
  BY DEF OnConnectB3Ind
<1>2. /\ Fits(ch) /\ ch.thr \in {"run", "late"} /\ Head(up) \in Messages(Reports)
      /\ Head(up).id # 0
  BY <1>1, ReadKnows
<1>3. TurnDial(ch, e) /\ e.plci = ch.plci /\ Moves(ch, e)
  BY <1>2, ConnectB3IndTurn
<1> HIDE DEF e
<1>4. Reacts(ch, e, Head(up))
  BY <1>1, <1>3 DEF Reads, Reacts, IsData
<1> QED
  BY <1>1, <1>3, <1>4, ReadAction DEF TurnDial

LEMMA OnDisconnectB3IndKeeps ==
  ASSUME Inv, Covered, OnDisconnectB3Ind
  PROVE  Inv' /\ Sticks(ch, ch') /\ Tells(ch, ch')
<1> DEFINE e == DISCONNECT_B3_IND(ch, Head(up))
<1>1. Reads("DISCONNECT_B3_IND") /\ ch' = Back(e)
  BY DEF OnDisconnectB3Ind
<1>2. /\ Fits(ch) /\ ch.thr \in {"run", "late"} /\ Head(up) \in Messages(Reports)
      /\ Head(up).id # 0
      /\ App = "send" \/ OwnerFits(ch)
  BY <1>1, ReadKnows
<1>3. /\ TurnDial(ch, e) /\ e.plci = ch.plci
      /\ Onward(ch, e) \/ (Head(up).id = ch.ncci /\ Closes(ch, e))
  BY <1>2, DisconnectB3IndTurn
<1> HIDE DEF e
<1>4. Reacts(ch, e, Head(up))
  BY <1>1, <1>3 DEF Reads, Reacts, Moves, EndsB3
<1> QED
  BY <1>1, <1>3, <1>4, ReadAction DEF TurnDial

LEMMA OnConnectB3ActiveIndKeeps ==
  ASSUME Inv, Covered, OnConnectB3ActiveInd
  PROVE  Inv' /\ Sticks(ch, ch') /\ Tells(ch, ch')
<1>1. PICK ready \in BOOLEAN : ch' = Back(CONNECT_B3_ACTIVE_IND(ch, Head(up), ready))
  BY DEF OnConnectB3ActiveInd
<1> DEFINE e == CONNECT_B3_ACTIVE_IND(ch, Head(up), ready)
<1>2. Reads("CONNECT_B3_ACTIVE_IND") /\ ch' = Back(e)
  BY <1>1 DEF OnConnectB3ActiveInd
<1>3. /\ Fits(ch) /\ ch.thr \in {"run", "late"} /\ Head(up) \in Messages(Reports)
      /\ Head(up).id # 0 /\ (App = "send" \/ OwnerFits(ch))
  BY <1>2, ReadKnows
<1>4. /\ TurnDial(ch, e) /\ e.plci = ch.plci
      /\ Onward(ch, e) \/ Joins(ch, e)
  BY <1>3, ConnectB3ActiveIndTurn
<1> HIDE DEF e
<1>5. Reacts(ch, e, Head(up))
  BY <1>2, <1>4 DEF Reads, Reacts, Moves, IsData
<1> QED
  BY <1>2, <1>4, <1>5, ReadAction DEF TurnDial

LEMMA OnDataB3IndKeeps ==
  ASSUME Inv, Covered, OnDataB3Ind
  PROVE  Inv' /\ Sticks(ch, ch') /\ Tells(ch, ch')
<1>1. PICK ready \in BOOLEAN : ch' = Back(DATA_B3_IND(ch, Head(up), ready))
  BY DEF OnDataB3Ind
<1> DEFINE e == DATA_B3_IND(ch, Head(up), ready)
<1>2. Reads("DATA_B3_IND") /\ ch' = Back(e)
  BY <1>1 DEF OnDataB3Ind
<1>3. Fits(ch) /\ Head(up).id # 0
  BY <1>2, ReadKnows
<1>4. TurnDial(ch, e) /\ e.plci = ch.plci /\ Onward(ch, e)
  BY <1>3, DataB3IndTurn
<1> HIDE DEF e
<1>5. Reacts(ch, e, Head(up))
  BY <1>2, <1>4 DEF Reads, Reacts, Moves
<1> QED
  BY <1>2, <1>4, <1>5, ReadAction DEF TurnDial

LEMMA OnInfoIndKeeps ==
  ASSUME Inv, Covered, OnInfoInd
  PROVE  Inv' /\ Sticks(ch, ch') /\ Tells(ch, ch')
<1>1. PICK complete \in BOOLEAN, claimed \in {FALSE, OtherClaims} :
        ch' = Back(INFO_IND(ch, Head(up), complete, claimed))
  BY DEF OnInfoInd
<1> DEFINE e == INFO_IND(ch, Head(up), complete, claimed)
<1>2. Reads("INFO_IND") /\ ch' = Back(e)
  BY <1>1 DEF OnInfoInd
<1>3. Fits(ch) /\ (App = "send" \/ (Prompt /\ OwnerFits(ch)))
  BY <1>2, ReadKnows
<1>4. TurnDial(ch, e) /\ e.plci = ch.plci /\ Moves(ch, e)
  BY <1>3, InfoIndTurn
<1> HIDE DEF e
<1>5. Reacts(ch, e, Head(up))
  BY <1>2, <1>4 DEF Reads, Reacts, IsData
<1> QED
  BY <1>2, <1>4, <1>5, ReadAction DEF TurnDial

LEMMA OnConnectIndKeeps ==
  ASSUME Inv, Covered, OnConnectInd
  PROVE  Inv' /\ Sticks(ch, ch') /\ Tells(ch, ch')
<1>1. PICK found \in {"match", "reject"} \cup (IF UseDDI THEN {"ddi", "bare"} ELSE {}),
           claimed \in {FALSE, OtherClaims} :
        ch' = Back(CONNECT_IND(ch, Head(up), found, claimed))
  BY DEF OnConnectInd
<1> DEFINE e == CONNECT_IND(ch, Head(up), found, claimed)
<1>2. Reads("CONNECT_IND") /\ ch' = Back(e)
  BY <1>1 DEF OnConnectInd
<1>3. /\ Fits(ch) /\ (App = "send" \/ (Prompt /\ Owned(ch))) /\ Head(up).m = "CONNECT_IND"
      /\ Head(up) \in Messages(Reports) /\ Head(up).id # 0
  BY <1>2, ReadKnows
<1>4. TurnDial(ch, e) /\ e.plci \in {ch.plci, 0, Head(up).id} /\ Moves(ch, e)
  BY <1>3, ConnectIndTurn
<1> HIDE DEF e
<1>5. e.plci \in {0, ch.plci} \/ SetsUp(Head(up), e.plci)
  BY <1>3, <1>4 DEF SetsUp
<1>6. Reacts(ch, e, Head(up))
  BY <1>2, <1>4 DEF Reads, Reacts, IsData
<1> QED
  BY <1>2, <1>4, <1>5, <1>6, ReadAction DEF TurnDial

LEMMA OnConnectConfKeeps ==
  ASSUME Inv, Covered, OnConnectConf
  PROVE  Inv' /\ Sticks(ch, ch') /\ Tells(ch, ch')
<1> DEFINE e == CONNECT_CONF(ch, Head(up))
<1>1. Reads("CONNECT_CONF") /\ ch' = Back(e)
  BY DEF OnConnectConf
<1>2. /\ Fits(ch) /\ ch.cs = "D_ConnectRequest" /\ NoDial(ch.down)
      /\ Head(up) \in Messages(Reports) /\ Head(up).m = "CONNECT_CONF"
      /\ Head(up).ok => Head(up).id # 0
  BY <1>1, ReadKnows
<1>3. Turn(ch, e) /\ e.plci \in {0, Head(up).id} /\ Moves(ch, e)
  BY <1>2, ConnectConfTurn
<1> HIDE DEF e
<1>4. e.plci \in {0, ch.plci} \/ SetsUp(Head(up), e.plci)
  BY <1>2, <1>3 DEF SetsUp
<1>5. Reacts(ch, e, Head(up))
  BY <1>1, <1>3 DEF Reads, Reacts, IsData
<1> QED
  BY <1>1, <1>3, <1>4, <1>5, ReadAction

LEMMA OnDisconnectConfKeeps ==
  ASSUME Inv, Covered, OnDisconnectConf
  PROVE  Inv' /\ Sticks(ch, ch') /\ Tells(ch, ch')
<1> DEFINE e == DISCONNECT_CONF(ch, Head(up))
<1>1. Reads("DISCONNECT_CONF") /\ ch' = Back(e)
  BY DEF OnDisconnectConf
<1>2. /\ Fits(ch) /\ Head(up).id # 0
      /\ Prompt /\ ~Head(up).ok => Head(up).id # ch.plci
  BY <1>1, ReadKnows DEF Prompt
<1>3. TurnDial(ch, e) /\ e.plci \in {0, ch.plci} /\ Onward(ch, e)
  BY <1>2, DisconnectConfTurn DEF Covered
<1> HIDE DEF e
<1>4. Reacts(ch, e, Head(up))
  BY <1>1, <1>3 DEF Reads, Reacts, Moves
<1> QED
  BY <1>1, <1>3, <1>4, ReadAction DEF TurnDial

LEMMA OnListenConfKeeps ==
  ASSUME Inv, Covered, OnListenConf
  PROVE  Inv' /\ Sticks(ch, ch') /\ Tells(ch, ch')
<1> DEFINE e == LISTEN_CONF(ch, Head(up))
<1>1. Reads("LISTEN_CONF") /\ ch' = Back(e)
  BY DEF OnListenConf
<1>2. Fits(ch) /\ App = "recv"
  BY <1>1, ReadKnows
<1>3. OwnerFits(ch)
  BY <1>1, <1>2, ReadKnows
<1>4. TurnDial(ch, e) /\ e.plci \in {0, ch.plci} /\ Onward(ch, e)
  BY <1>2, <1>3, ListenConfTurn
<1> HIDE DEF e
<1>5. Reacts(ch, e, Head(up))
  BY <1>1, <1>4 DEF Reads, Reacts, Moves
<1> QED
  BY <1>1, <1>4, <1>5, ReadAction DEF TurnDial

LEMMA OnDisconnectIndKeeps ==
  ASSUME Inv, Covered, OnDisconnectInd
  PROVE  Inv' /\ Sticks(ch, ch') /\ Tells(ch, ch')
<1> DEFINE e == DISCONNECT_IND(ch, Head(up))
<1>1. Reads("DISCONNECT_IND") /\ ch' = Back(e)
  BY DEF OnDisconnectInd
<1>2. /\ Fits(ch) /\ (App = "send" \/ OwnerFits(ch)) /\ Head(up).id # 0
      /\ Head(up) \in Messages(Reports)
  BY <1>1, ReadKnows
<1>3. /\ TurnDial(ch, e) /\ Onward(ch, e)
      /\ e.plci = IF Head(up).id = ch.plci THEN 0 ELSE ch.plci
  BY <1>2, DisconnectIndTurn
<1> HIDE DEF e
<1>4. Reacts(ch, e, Head(up))
  BY <1>1, <1>3 DEF Reads, Reacts, Moves
<1> QED
  BY <1>1, <1>3, <1>4, ReadAction DEF TurnDial

-----------------------------------------------------------------------------
(* The main thread, the driver, the end of the CAPI thread                 *)

(* What lives when the registration begins or ends.                        *)
LEMMA RestsTells ==
  ASSUME NEW c, NEW d, NEW v, NEW q, NEW t, NEW u, Fits(c), Fits(d), Lives(c, v, q, t),
         Rests(c, d),
         Prompt => u = "disconnect" \/ d.phase = "idle" \/ (c.cs \in IdleStates /\ t # "disconnect")
  PROVE  Lives(d, v, q, u) /\ Tells(c, d)
<1>1. Lives(d, v, q, u)
  BY LivesRests
<1>2. Prompt => d.phase # "error"
  BY <1>1 DEF Lives, Told, PhaseFits
<1> QED
  BY <1>1, <1>2, TellsSteps

(* The rest of RELEASE_COMPLETE matters to a call that it still ends.      *)
LEMMA LivesTail ==
  ASSUME NEW c, NEW v, NEW q, NEW t, NEW u, t # "disconnect", Lives(c, v, q, t)
  PROVE  Lives(c, v, q, u)
BY DEF Lives, Told, PhaseFits

(* The main threads.                                                       *)
LEMMA StartSendKeeps ==
  ASSUME Inv, StartSend
  PROVE  Inv' /\ Sticks(ch, ch') /\ Tells(ch, ch')
<1>1. /\ App = "send" /\ waiting = FALSE /\ jobs < MaxJobs /\ ch' = Send(ch) /\ waiting' = TRUE
      /\ jobs' = jobs + 1 /\ UNCHANGED <<drv, up, tail, faults>>
  BY DEF StartSend, Inv, Sound
<1>2. /\ Sound(ch, drv, up, tail, waiting, jobs) /\ Fits(ch) /\ Idle(ch) /\ ch.resets = 0
      /\ ReportsFit(ch, up) /\ EndsFit(drv, up, ch.plci)
  BY <1>1 DEF Inv, Sound, WaitsFit
<1>3. /\ Fits(ch') /\ (Busy(ch') \/ Done(ch')) /\ ch'.plci = ch.plci
      /\ ch'.cs = "Released" => ~ch'.active
      /\ "RESET" \notin ch.flags /\ ch.cs # "D_ConnectRequest" /\ Rests(ch, ch')
      /\ BlockFits(ch) => Owned(ch')
  BY <1>1, <1>2, SendFits
<1>4. ReportsFit(ch', up) /\ EndsFit(drv, up, ch'.plci)
  <2>1. KeepsDial(ch, ch') /\ ch'.plci \in {0, ch.plci}
    BY <1>3 DEF KeepsDial
  <2> QED
    BY <1>2, <2>1, ReportsStay
<1>5. WaitsFit(ch', TRUE) /\ StartFits(ch', jobs', TRUE)
  BY <1>1, <1>3 DEF WaitsFit, StartFits
<1>6. TailFits(ch', tail, jobs')
  <2>1. tail # "disconnect"
    BY <1>1, <1>2 DEF Sound, TailFits, Idle
  <2> QED
    BY <1>1, <1>3, <2>1 DEF TailFits
<1>7. OwnFits(ch', tail)
  BY <1>2, <1>3 DEF Sound, OwnFits, Owned, OwnerFits
<1>8. Sound(ch', drv', up', tail', waiting', jobs')
  BY <1>1, <1>2, <1>3, <1>4, <1>5, <1>6, <1>7 DEF Sound
<1>9. jobs' \in 0 .. MaxJobs + 1 /\ faults' \in 0 .. MaxFaults
  BY <1>1, RunAssumption DEF Inv
<1>10. Lives(ch', drv', up', tail') /\ Tells(ch, ch')
  <2>1. tail # "disconnect" /\ ch.cs \in IdleStates /\ Lives(ch, drv, up, tail)
    BY <1>1, <1>2 DEF Inv, Sound, TailFits, Idle, IdleStates
  <2>2. Lives(ch', drv, up, tail) /\ Tells(ch, ch')
    BY <1>2, <1>3, <2>1, RestsTells
  <2> QED
    BY <1>1, <2>2
<1> QED
  BY <1>3, <1>8, <1>9, <1>10, InvAgain DEF Sticks

LEMMA SendReturnsKeeps ==
  ASSUME Inv, SendReturns
  PROVE  Inv' /\ Sticks(ch, ch') /\ Tells(ch, ch')
<1>1. /\ App = "send" /\ waiting = TRUE /\ ch.resets > 0
      /\ ch' = [ch EXCEPT !.resets = @ - 1] /\ waiting' = FALSE
      /\ UNCHANGED <<drv, up, tail, jobs, faults>>
  BY DEF SendReturns, Inv, Sound
<1>2. /\ Sound(ch, drv, up, tail, waiting, jobs) /\ Fits(ch) /\ Done(ch)
      /\ ReportsFit(ch, up) /\ EndsFit(drv, up, ch.plci)
  BY <1>1 DEF Inv, Sound, WaitsFit, Busy
<1>3. /\ Fits(ch') /\ Idle(ch') /\ ch'.resets = 0 /\ (Owned(ch) => Owned(ch'))
      /\ ch'.plci = ch.plci /\ ch'.cs = ch.cs /\ ch'.active = ch.active
      /\ ch'.down = ch.down /\ ch'.flags = ch.flags /\ ch.flags = {}
      /\ Onward(ch, ch')
  BY <1>1, <1>2, SendReturnsFits
<1>4. ReportsFit(ch', up) /\ EndsFit(drv, up, ch'.plci)
  <2>1. KeepsDial(ch, ch') /\ ch'.plci \in {0, ch.plci}
    BY <1>3 DEF KeepsDial
  <2> QED
    BY <1>2, <2>1, ReportsStay
<1>5. WaitsFit(ch', FALSE) /\ StartFits(ch', jobs, FALSE)
  BY <1>1, <1>3 DEF WaitsFit, StartFits
<1>6. tail # "disconnect" /\ TailFits(ch', tail, jobs)
  BY <1>1, <1>2, <1>3 DEF Sound, TailFits, Done, Idle
<1>7. OwnFits(ch', tail)
  BY <1>2, <1>3, <1>6 DEF Sound, OwnFits, Owned, OwnerFits
<1>8. Sound(ch', drv', up', tail', waiting', jobs')
  BY <1>1, <1>2, <1>3, <1>4, <1>5, <1>6, <1>7 DEF Sound
<1>9. jobs' \in 0 .. MaxJobs + 1 /\ faults' \in 0 .. MaxFaults
  BY <1>1 DEF Inv
<1>10. Lives(ch', drv', up', tail') /\ Tells(ch, ch')
  BY <1>1, <1>2, <1>3, OnwardTells DEF Inv
<1> QED
  BY <1>3, <1>8, <1>9, <1>10, InvAgain DEF Sticks

LEMMA StartReceiveKeeps ==
  ASSUME Inv, StartReceive
  PROVE  Inv' /\ Sticks(ch, ch') /\ Tells(ch, ch')
<1>1. /\ App = "recv" /\ App # "send" /\ jobs = 0 /\ ch' = CheckListen([ch EXCEPT !.msn = TRUE])
      /\ jobs' = 1 /\ UNCHANGED <<drv, up, tail, waiting, faults>>
  BY DEF StartReceive
<1>2. /\ Sound(ch, drv, up, tail, waiting, jobs) /\ Fits(ch)
      /\ ch.cs = "Released" /\ ~ch.active /\ ch.flags = {} /\ ch.resets = 0 /\ ~waiting
      /\ tail = "none" /\ ReportsFit(ch, up) /\ EndsFit(drv, up, ch.plci)
  BY <1>1 DEF Inv, Sound, StartFits, TailFits
<1>3. Fits(ch') /\ Answers(ch, ch') /\ Sticks(ch, ch') /\ ch'.plci = 0
      /\ (Owned(ch) => Owned(ch')) /\ Rests(ch, ch')
  BY <1>1, <1>2, StartReceiveFits
<1>4. ReportsFit(ch', up) /\ EndsFit(drv, up, ch'.plci)
  <2>1. KeepsDial(ch, ch') /\ ch'.plci \in {0, ch.plci}
    BY <1>2, <1>3 DEF KeepsDial
  <2> QED
    BY <1>2, <2>1, ReportsStay
<1>5. WaitsFit(ch', waiting) /\ StartFits(ch', 1, waiting) /\ TailFits(ch', tail, 1)
  BY <1>1, <1>2, <1>3 DEF WaitsFit, StartFits, TailFits, Answers
<1>6. OwnFits(ch', tail)
  BY <1>2, <1>3 DEF Sound, OwnFits, Owned, OwnerFits
<1>7. Sound(ch', drv', up', tail', waiting', jobs')
  BY <1>1, <1>2, <1>3, <1>4, <1>5, <1>6 DEF Sound
<1>8. jobs' \in 0 .. MaxJobs + 1 /\ faults' \in 0 .. MaxFaults
  BY <1>1, RunAssumption DEF Inv
<1>9. Lives(ch', drv', up', tail') /\ Tells(ch, ch')
  <2>1. ch.cs \in IdleStates /\ tail # "disconnect" /\ Lives(ch, drv, up, tail)
    BY <1>2 DEF Inv, IdleStates
  <2>2. Lives(ch', drv, up, tail) /\ Tells(ch, ch')
    BY <1>2, <1>3, <2>1, RestsTells
  <2> QED
    BY <1>1, <2>2
<1> QED
  BY <1>3, <1>7, <1>8, <1>9, InvAgain

LEMMA DeviceStopsKeeps ==
  ASSUME Inv, Covered, DeviceStops
  PROVE  Inv' /\ Sticks(ch, ch') /\ Tells(ch, ch')
<1>1. /\ App = "recv" /\ App # "send" /\ jobs = 1 /\ ~Gone(ch) /\ ch' = StopReceive(ch)
      /\ Prompt /\ UNCHANGED <<drv, up, tail, waiting, jobs, faults>>
  BY DEF DeviceStops, Covered
<1>2. /\ Sound(ch, drv, up, tail, waiting, jobs) /\ Fits(ch) /\ ch.resets = 0 /\ ~waiting
      /\ ReportsFit(ch, up) /\ EndsFit(drv, up, ch.plci)
      /\ BlockFits(ch) /\ (tail # "disconnect" => OwnerFits(ch)) /\ (ch.ddi => ch.active)
      /\ tail = "disconnect" => ch.cs = "Released"
  BY <1>1 DEF Inv, Sound, StartFits, TailFits, OwnFits, Gone
<1>3. /\ Fits(ch') /\ Answers(ch, ch') /\ Sticks(ch, ch') /\ KeepsDial(ch, ch')
      /\ ch'.plci \in {0, ch.plci} /\ (ch.cs = "Released" => ch'.cs = "Released")
      /\ BlockFits(ch') /\ (tail # "disconnect" => OwnerFits(ch')) /\ (ch'.ddi => ch'.active)
      /\ Onward(ch, ch')
  <2>1. ch.cs # "D_ConnectRequest"
    BY <1>1, <1>2 DEF Fits, CallFits
  <2>2. KeepsDial(ch, ch')
    BY <2>1 DEF KeepsDial
  <2>3. CASE ch.cs = "Released" /\ ch.active
    <3>1. /\ Fits(ch') /\ Answers(ch, ch') /\ Sticks(ch, ch') /\ ch'.cs = "Released"
          /\ BlockFits(ch') /\ (ch'.ddi => ch'.active) /\ Onward(ch, ch')
      BY <1>1, <1>2, <2>3, StopEndedCall
    <3>2. ch'.plci = 0
      BY <3>1 DEF Fits, IdsFit, IdleStates
    <3>3. tail = "disconnect"
      BY <1>1, <1>2, <2>3 DEF OwnerFits, CallStates
    <3> QED
      BY <2>2, <3>1, <3>2, <3>3
  <2>4. CASE ~(ch.cs = "Released" /\ ch.active)
    <3>1. OwnerFits(ch)
      <4>1. CASE tail # "disconnect"
        BY <1>2, <4>1
      <4>2. CASE tail = "disconnect"
        <5>1. ch.cs = "Released" /\ ~ch.active /\ ~ch.ddi
          BY <1>2, <2>4, <4>2
        <5>2. ch.ncci = 0 /\ ch.phase = "idle"
          BY <1>2, <5>1 DEF Fits, IdsFit, CallFits
        <5> QED
          BY <5>1, <5>2 DEF OwnerFits, CallStates
      <4> QED
        BY <4>1, <4>2
    <3>2. /\ Turn(ch, ch') /\ (ch.cs = "Released" => ch'.cs = "Released")
          /\ ch'.ddi = ch.ddi /\ ch'.plci \in {0, ch.plci} /\ Onward(ch, ch')
      BY <1>1, <1>2, <3>1, StopTurn
    <3>3. Owned(ch')
      BY <1>1, <1>2, <3>1, <3>2 DEF Turn, Owned
    <3> QED
      BY <2>2, <3>2, <3>3 DEF Turn, Owned, OwnerFits
  <2> QED
    BY <2>3, <2>4
<1>4. ReportsFit(ch', up) /\ EndsFit(drv, up, ch'.plci)
  BY <1>2, <1>3, ReportsStay
<1>5. WaitsFit(ch', waiting) /\ StartFits(ch', 1, waiting) /\ TailFits(ch', tail, 1)
  BY <1>1, <1>2, <1>3 DEF WaitsFit, StartFits, TailFits, Answers
<1>6. OwnFits(ch', tail)
  BY <1>3 DEF OwnFits
<1>7. Sound(ch', drv', up', tail', waiting', jobs')
  BY <1>1, <1>2, <1>3, <1>4, <1>5, <1>6 DEF Sound
<1>8. jobs' \in 0 .. MaxJobs + 1 /\ faults' \in 0 .. MaxFaults
  BY <1>1 DEF Inv
<1>9. Lives(ch', drv', up', tail') /\ Tells(ch, ch')
  BY <1>1, <1>2, <1>3, OnwardTells DEF Inv
<1> QED
  BY <1>3, <1>7, <1>8, <1>9, InvAgain

(* The driver takes the message at the head of the line.                   *)
LEMMA LineMoves ==
  ASSUME NEW c, Fits(c), c.down # <<>>, NEW d, d = [c EXCEPT !.down = Tail(@)]
  PROVE  /\ Fits(d) /\ Same(c, d) /\ SameState(c, d)
         /\ NoDial(c.down) => NoDial(d.down)
         /\ Head(c.down) \in Messages(Requests)
         /\ Head(c.down).id = 0 => Head(c.down).m \in {"LISTEN_REQ", "CONNECT_REQ"}
         /\ Head(c.down).m = "LISTEN_REQ" => App = "recv"
         /\ Head(c.down).m = "DATA_B3_REQ" => Head(c.down).h \in Handles
         /\ Head(c.down).m = "CONNECT_REQ" =>
              c.cs = "D_ConnectRequest" /\ NoDial(d.down) /\ ~NoDial(c.down)
<1>1. Typed(c) /\ c.inuse = 0 /\ ThreadFits(c) /\ IdsFit(c) /\ AskFits(c) /\ CallFits(c)
      /\ FaxFits(c) /\ c.down \in Seq(Messages(Requests))
  BY DEF Fits, Typed, LineTyped
<1>2. /\ Len(c.down) \in Nat /\ Len(c.down) >= 1 /\ Head(c.down) = c.down[1]
      /\ Head(c.down) \in Messages(Requests) /\ Tail(c.down) \in Seq(Messages(Requests))
      /\ Len(Tail(c.down)) = Len(c.down) - 1
      /\ \A i \in 1 .. Len(c.down) - 1 : Tail(c.down)[i] = c.down[i + 1]
  BY <1>1, HeadTailProperties, EmptySeq
<1>3. /\ Shaped(d) /\ Same(c, d) /\ SameState(c, d) /\ d.down = Tail(c.down)
  BY <1>1, NamesHold DEF NamesAreIn, Typed, Shaped, Same, SameState, SameCall, SameWish, SameFax
<1>4. Typed(d)
  BY <1>1, <1>2, <1>3 DEF Typed, LineTyped, CallTyped, FaxTyped, Same, SameState, SameCall,
     SameWish, SameFax
<1>5. /\ DOMAIN c.down = 1 .. Len(c.down) /\ 1 \in DOMAIN c.down
      /\ \A i \in DOMAIN d.down : i + 1 \in DOMAIN c.down /\ i + 1 # 1 /\ d.down[i] = c.down[i + 1]
      /\ \A i \in DOMAIN d.down : i \in Nat
  BY <1>1, <1>2, <1>3
<1>6. AskFits(d) /\ (NoDial(c.down) => NoDial(d.down))
  <2>1. ASSUME NEW i \in DOMAIN d.down
        PROVE  /\ d.down[i].id = 0 => d.down[i].m \in {"LISTEN_REQ", "CONNECT_REQ"}
               /\ d.down[i].m = "LISTEN_REQ" => App = "recv"
               /\ d.down[i].m = "CONNECT_REQ" => c.cs = "D_ConnectRequest"
               /\ d.down[i].m = "DATA_B3_REQ" => d.down[i].h \in Handles
    BY <1>1, <1>5 DEF AskFits
  <2>2. ASSUME NEW i \in DOMAIN d.down, NEW j \in DOMAIN d.down,
               d.down[i].m = "CONNECT_REQ", d.down[j].m = "CONNECT_REQ"
        PROVE  i = j
    <3>1. i + 1 = j + 1
      BY <1>1, <1>5, <2>2 DEF AskFits
    <3> QED
      BY <1>5, <3>1
  <2>3. d.cs = c.cs
    BY <1>3 DEF SameState
  <2>4. NoDial(c.down) => NoDial(d.down)
    BY <1>5 DEF NoDial
  <2> QED
    BY <2>1, <2>2, <2>3, <2>4 DEF AskFits
<1>7. ThreadFits(d) /\ IdsFit(d)
  <2>1. ThreadFits(d)
    BY <1>1, <1>3 DEF ThreadFits, SameState
  <2>2. IdsFit(d)
    BY <1>1, <1>3 DEF IdsFit, SameState
  <2> QED
    BY <2>1, <2>2
<1>8. CallFits(d) /\ FaxFits(d) /\ d.inuse = 0
  BY <1>1, <1>3 DEF CallFits, FaxFits, Same, SameState, SameCall, SameWish, SameFax
<1>9. ASSUME c.down[1].m = "CONNECT_REQ"
      PROVE  c.cs = "D_ConnectRequest" /\ NoDial(d.down) /\ ~NoDial(c.down)
  <2>1. c.cs = "D_ConnectRequest" /\ ~NoDial(c.down)
    BY <1>1, <1>5, <1>9 DEF AskFits, NoDial
  <2>2. ASSUME NEW i \in DOMAIN d.down, d.down[i].m = "CONNECT_REQ"
        PROVE  FALSE
    BY <1>1, <1>5, <1>9, <2>2 DEF AskFits
  <2> QED
    BY <2>1, <2>2 DEF NoDial
<1>10. /\ c.down[1].id = 0 => c.down[1].m \in {"LISTEN_REQ", "CONNECT_REQ"}
       /\ c.down[1].m = "LISTEN_REQ" => App = "recv"
       /\ c.down[1].m = "DATA_B3_REQ" => c.down[1].h \in Handles
  BY <1>1, <1>5 DEF AskFits
<1> QED
  BY <1>2, <1>3, <1>4, <1>6, <1>7, <1>8, <1>9, <1>10 DEF Fits

(* What is left as it was, but for the line to the driver.                 *)
LEMMA LineMovesSound ==
  ASSUME NEW c, NEW d, NEW t, NEW w, NEW j, Same(c, d), SameState(c, d),
         WaitsFit(c, w), StartFits(c, j, w), TailFits(c, t, j), OwnFits(c, t)
  PROVE  /\ WaitsFit(d, w) /\ StartFits(d, j, w) /\ TailFits(d, t, j) /\ OwnFits(d, t)
         /\ Sticks(c, d)
<1>1. WaitsFit(d, w)
  BY DEF WaitsFit, Busy, Idle, Done, Same, SameState, SameCall, SameWish
<1>2. StartFits(d, j, w) /\ TailFits(d, t, j)
  BY DEF StartFits, TailFits, Same, SameState, SameCall, SameWish
<1>3. BlockFits(c) => BlockFits(d)
  BY SameBlock DEF Same, SameCall, SameFax
<1>4. OwnerFits(c) => OwnerFits(d)
  BY DEF OwnerFits, Same, SameState, SameCall, SameFax
<1>5. OwnFits(d, t)
  BY <1>3, <1>4 DEF OwnFits, Same, SameCall
<1>6. Sticks(c, d)
  BY DEF Sticks, Same, SameCall, SameWish
<1> QED
  BY <1>1, <1>2, <1>5, <1>6

(* What the driver does with the data and the connections on their way.    *)
LEMMA DriverLives ==
  ASSUME NEW c, NEW d, NEW v, NEW q \in Seq(Messages(Reports)), NEW t, NEW s, Fits(c),
         Lives(c, v, q, t), Same(c, d), SameState(c, d), DriverSteps(v, s), Fades(v, s),
         Held(d, q \o s.msgs), BlockWaits(c, q) => BlockWaits(d, q \o s.msgs)
  PROVE  Lives(d, s.v, q \o s.msgs, t) /\ Tells(c, d)
<1>1. d.phase = c.phase /\ d.begun = c.begun /\ d.cs = c.cs /\ d.ncci = c.ncci
  BY DEF Same, SameState, SameCall
<1>2. ASSUME Prompt PROVE Told(d, s.v, q \o s.msgs, t)
  <2>1. Told(c, v, q, t)
    BY <1>2 DEF Lives
  <2>2. LogicalFits(d, v, q) /\ d.ncci \in Plcis \cup {0}
    BY <1>1, <2>1 DEF Told, LogicalFits, Fits, Typed, LineTyped
  <2>3. LogicalFits(d, s.v, q \o s.msgs)
    BY <2>2, LogicalMore
  <2>4. PhaseFits(d, t)
    BY <1>1, <2>1 DEF Told, PhaseFits
  <2> QED
    BY <2>1, <2>3, <2>4 DEF Told
<1> QED
  BY <1>1, <1>2 DEF Lives, Tells

(* The driver takes a request that is not of data, or confirms a block.    *)
LEMMA TakeLives ==
  ASSUME NEW c, Fits(c), c.down # <<>>, NEW d, d.down = Tail(c.down), Same(c, d),
         SameState(c, d), NEW v \in Drivers, NEW q \in Seq(Messages(Reports)), NEW t,
         Lives(c, v, q, t), NEW r \in Messages(Requests), r = Head(c.down),
         r.id = 0 => r.m \in {"LISTEN_REQ", "CONNECT_REQ"},
         r.m = "DATA_B3_REQ" => r.h \in Handles,
         NEW s \in Take(v, r), DriverSteps(v, s), r.m # "CONNECT_REQ" => SetsNothingUp(s)
  PROVE  Lives(d, s.v, q \o s.msgs, t) /\ Tells(c, d)
<1>1. Typed(c) /\ Held(c, q)
  BY DEF Fits, Lives
<1>2. CASE r.m # "DATA_B3_REQ"
  <2>1. Even(v, s)
    BY <1>2, TakeEven
  <2>2. Fades(v, s) /\ Bare(s.msgs)
    BY <2>1, EvenFades DEF Even
  <2>3. ~IsData(Head(c.down))
    BY <1>2 DEF IsData, Messages, Requests
  <2>4. /\ Held(d, q) /\ (BlockWaits(c, q) => BlockWaits(d, q))
        /\ r.m = "CONNECT_REQ" => NoData(d.down)
    BY <1>1, <2>3, LineTaken
  <2>5. s.msgs = <<>> \/ \E m \in Messages(Reports) :
                         s.msgs = <<m>> /\ ~IsData(m) /\ (m.m = "CONNECT_CONF" => NoData(d.down))
    <3>1. ASSUME NEW m \in Messages(Reports), s.msgs = <<m>>
          PROVE  ~IsData(m) /\ (m.m = "CONNECT_CONF" => NoData(d.down))
      <4>1. 1 \in DOMAIN s.msgs /\ s.msgs[1] = m
        BY <3>1
      <4> QED
        BY <2>2, <2>4, <4>1 DEF Bare, SetsNothingUp
    <3> QED
      BY <3>1 DEF DriverSteps, Says
  <2>6. Held(d, q \o s.msgs) /\ (BlockWaits(d, q) => BlockWaits(d, q \o s.msgs))
    BY <2>4, <2>5, HeldMore
  <2> QED
    BY <2>2, <2>4, <2>6, DriverLives
<1>3. CASE r.m = "DATA_B3_REQ"
  <2> DEFINE m == [m |-> "DATA_B3_CONF", id |-> r.id, h |-> r.h, ok |-> v.link[r.id].b = "up"]
  <2>1. s = Step(v, <<m>>)
    BY <1>3 DEF Take, DataSteps
  <2>2. m.m = "DATA_B3_CONF" /\ m.id = r.id /\ m.h = r.h
    OBVIOUS
  <2> HIDE DEF m
  <2>3. s.v = v /\ s.msgs = <<m>>
    <3>1. Step(v, <<m>>).v = v /\ Step(v, <<m>>).msgs = <<m>>
      BY StepIs
    <3> QED
      BY <2>1, <3>1
  <2>4. m \in Messages(Reports)
    <3>1. ASSUME NEW n, s.msgs = <<n>>, Says(v, s.v, n) PROVE n = m
      BY <2>3, <3>1
    <3>2. s.msgs # <<>>
      BY <2>3
    <3> QED
      BY <3>1, <3>2 DEF DriverSteps, Says
  <2>5. Fades(v, s)
    <3>1. DOMAIN s.msgs = {1} /\ s.msgs[1] = m
      BY <2>3
    <3>2. \A i \in DOMAIN s.msgs, p \in Plcis : ~EndsB3(s.msgs[i], p)
      BY <2>2, <3>1 DEF EndsB3
    <3> QED
      BY <2>3, <3>2 DEF Fades
  <2>6. IsData(Head(c.down))
    BY <1>3 DEF IsData
  <2>7. Held(d, q \o <<m>>) /\ (BlockWaits(c, q) => BlockWaits(d, q \o <<m>>))
    BY <1>1, <2>2, <2>4, <2>6, DataTaken
  <2> QED
    BY <2>3, <2>5, <2>7, DriverLives
<1> QED
  BY <1>2, <1>3

(* The driver and the network.                                             *)
LEMMA DriverTakesKeeps ==
  ASSUME Inv, DriverTakes
  PROVE  Inv' /\ Sticks(ch, ch') /\ Tells(ch, ch')
<1>1. /\ ch.down # <<>> /\ ch' = [ch EXCEPT !.down = Tail(@)]
      /\ UNCHANGED <<tail, waiting, jobs, faults>>
  BY DEF DriverTakes
<1>2. PICK s \in Take(drv, Head(ch.down)) : drv' = s.v /\ up' = up \o s.msgs
  BY DEF DriverTakes
<1>3. /\ drv \in Drivers /\ up \in Seq(Messages(Reports)) /\ Fits(ch)
      /\ ReportsFit(ch, up) /\ EndsFit(drv, up, ch.plci)
      /\ WaitsFit(ch, waiting) /\ StartFits(ch, jobs, waiting) /\ TailFits(ch, tail, jobs)
      /\ OwnFits(ch, tail) /\ tail \in {"none", "disconnect", "release"} /\ waiting \in BOOLEAN
  BY DEF Inv, Sound
<1> DEFINE r == Head(ch.down)
<1>4. /\ Fits(ch') /\ Same(ch, ch') /\ SameState(ch, ch')
      /\ NoDial(ch.down) => NoDial(ch'.down)
      /\ r \in Messages(Requests)
      /\ r.id = 0 => r.m \in {"LISTEN_REQ", "CONNECT_REQ"}
      /\ r.m = "LISTEN_REQ" => App = "recv"
      /\ r.m = "DATA_B3_REQ" => r.h \in Handles
      /\ r.m = "CONNECT_REQ" =>
           ch.cs = "D_ConnectRequest" /\ NoDial(ch'.down) /\ ~NoDial(ch.down)
  BY ZenonT(60), <1>1, <1>3, LineMoves
<1> HIDE DEF r
<1>5. s \in Take(drv, r)
  BY <1>2 DEF r
<1>6. DriverSteps(drv, s) /\ (r.m # "CONNECT_REQ" => SetsNothingUp(s))
  BY <1>3, <1>4, <1>5, TakeIs
<1>7. ReportsFit(ch', up) /\ EndsFit(drv, up, ch'.plci)
  <2>1. KeepsDial(ch, ch') /\ ch'.plci \in {0, ch.plci}
    BY <1>4 DEF KeepsDial, SameState
  <2> QED
    BY <1>3, <2>1, ReportsStay
<1>8. r.m = "CONNECT_REQ" =>
        ch'.cs = "D_ConnectRequest" /\ NoDial(ch'.down) /\ NoAnswer(up)
  BY <1>3, <1>4 DEF ReportsFit, NoAnswer, SameState
<1>9. /\ drv' \in Drivers /\ up' \in Seq(Messages(Reports))
      /\ ReportsFit(ch', up') /\ EndsFit(drv', up', ch'.plci)
  BY <1>2, <1>3, <1>6, <1>7, <1>8, DriverReports
<1>10. /\ WaitsFit(ch', waiting) /\ StartFits(ch', jobs, waiting) /\ TailFits(ch', tail, jobs)
       /\ OwnFits(ch', tail) /\ Sticks(ch, ch')
  BY <1>3, <1>4, LineMovesSound
<1>11. Sound(ch', drv', up', tail', waiting', jobs')
  BY <1>1, <1>3, <1>4, <1>9, <1>10 DEF Sound
<1>12. jobs' \in 0 .. MaxJobs + 1 /\ faults' \in 0 .. MaxFaults
  BY <1>1 DEF Inv
<1>13. Lives(ch', drv', up', tail') /\ Tells(ch, ch')
  <2>1. Lives(ch, drv, up, tail) /\ ch'.down = Tail(ch.down)
    BY <1>1, <1>3 DEF Inv, Fits, Typed, Shaped, Names
  <2>2. Lives(ch', s.v, up \o s.msgs, tail) /\ Tells(ch, ch')
    BY <1>1, <1>3, <1>4, <1>5, <1>6, <2>1, TakeLives DEF r
  <2> QED
    BY <1>1, <1>2, <2>2
<1> QED
  BY <1>10, <1>11, <1>12, <1>13, InvAgain

LEMMA DriverKeeps ==
  ASSUME Inv, NetworkActs \/ DriverCloses
  PROVE  Inv' /\ Sticks(ch, ch') /\ Tells(ch, ch')
<1>1. /\ drv \in Drivers /\ up \in Seq(Messages(Reports))
      /\ ReportsFit(ch, up) /\ EndsFit(drv, up, ch.plci)
  BY DEF Inv, Sound
<1>2. PICK s : /\ DriverSteps(drv, s) /\ SetsNothingUp(s) /\ Fades(drv, s)
               /\ \A i \in DOMAIN s.msgs : ~IsData(s.msgs[i])
               /\ drv' = s.v /\ up' = up \o s.msgs
  <2>1. CASE NetworkActs
    BY <1>1, <2>1, NetworkIs, NetworkEven, EvenFades DEF Even, Bare, NetworkActs, DriverActs
  <2>2. CASE DriverCloses
    BY <1>1, <2>2, ClosingIs, ClosingFades DEF DriverCloses, DriverActs
  <2> QED
    BY <2>1, <2>2
<1>3. UNCHANGED <<ch, tail, waiting, jobs, faults>>
  BY DEF NetworkActs, DriverCloses, DriverActs
<1>4. /\ drv' \in Drivers /\ up' \in Seq(Messages(Reports))
      /\ ReportsFit(ch, up') /\ EndsFit(drv', up', ch.plci)
  BY <1>1, <1>2, DriverReports
<1>5. Sound(ch', drv', up', tail', waiting', jobs')
  BY <1>3, <1>4 DEF Inv, Sound
<1>6. jobs' \in 0 .. MaxJobs + 1 /\ faults' \in 0 .. MaxFaults
  BY <1>3 DEF Inv
<1>7. Lives(ch', drv', up', tail') /\ Tells(ch, ch')
  <2>1. Fits(ch) /\ Lives(ch, drv, up, tail)
    BY DEF Inv, Sound
  <2>2. s.msgs = <<>> \/ \E m \in Messages(Reports) :
                         s.msgs = <<m>> /\ ~IsData(m) /\ (m.m = "CONNECT_CONF" => NoData(ch.down))
    <3>1. ASSUME NEW m \in Messages(Reports), s.msgs = <<m>>
          PROVE  ~IsData(m) /\ m.m # "CONNECT_CONF"
      <4>1. 1 \in DOMAIN s.msgs /\ s.msgs[1] = m
        BY <3>1
      <4> QED
        BY <1>2, <4>1 DEF SetsNothingUp
    <3> QED
      BY <1>2, <3>1 DEF DriverSteps, Says
  <2>3. Held(ch, up \o s.msgs) /\ (BlockWaits(ch, up) => BlockWaits(ch, up \o s.msgs))
    BY <1>1, <2>1, <2>2, HeldMore DEF Lives
  <2>4. Same(ch, ch) /\ SameState(ch, ch)
    BY DEF Same, SameState, SameCall, SameWish, SameFax
  <2>5. Lives(ch, s.v, up \o s.msgs, tail) /\ Tells(ch, ch)
    BY <1>1, <1>2, <2>1, <2>3, <2>4, DriverLives
  <2> QED
    BY <1>2, <1>3, <2>5
<1> QED
  BY <1>3, <1>5, <1>6, <1>7, InvAgain DEF Sticks

(* RELEASE_COMPLETE.                                                       *)
LEMMA ThreadEndsKeeps ==
  ASSUME Inv, Covered, ThreadEnds
  PROVE  Inv' /\ Sticks(ch, ch') /\ Tells(ch, ch')
<1>1. /\ ch.thr = "exit" /\ tail = "none" /\ ~Gone(ch)
      /\ ch' = [ResetValues(ch) EXCEPT !.cs = "Released", !.timer = "none",
                                       !.thr = "none", !.down = <<>>]
      /\ tail' = IF ch.cs \in IdleStates THEN "release" ELSE "disconnect"
      /\ drv' = Fresh(drv.calls) /\ up' = <<>> /\ UNCHANGED <<waiting, jobs, faults>>
  BY DEF ThreadEnds
<1>2. /\ Sound(ch, drv, up, tail, waiting, jobs) /\ Fits(ch) /\ ch.cs # "Released"
      /\ (App = "recv" => ch.resets = 0)
  BY <1>1, Awake DEF Inv
<1>3. /\ Fits(ch') /\ SameCall(ch, ch') /\ SameWish(ch, ch') /\ SameFax(ch, ch')
      /\ ch'.cs = "Released" /\ ch'.plci = 0
      /\ Answers(ch, ch') /\ Sticks(ch, ch') /\ (BlockFits(ch) => BlockFits(ch'))
      /\ OwnerFits(ch) /\ ch.cs \in IdleStates => OwnerFits(ch')
      /\ Rests(ch, ch') /\ ch'.ncci = 0
  BY <1>1, <1>2, ThreadEndsFits
<1>4. drv' \in Drivers
  <2>1. drv.calls \in 0 .. MaxCalls /\ NoLink \in Links
    BY <1>2 DEF Sound, Drivers, NoLink, Links
  <2> QED
    BY <1>1, <2>1 DEF Fresh, Drivers
<1>5. up' \in Seq(Messages(Reports)) /\ ReportsFit(ch', up') /\ EndsFit(drv', up', ch'.plci)
  <2>1. up' = <<>> /\ Len(up') = 0 /\ DOMAIN up' = {} /\ up' \in Seq(Messages(Reports))
    BY <1>1
  <2>2. ReportsFit(ch', up')
    BY <2>1 DEF ReportsFit
  <2>3. \A p \in Plcis : ch'.plci # p /\ \A i \in 1 .. 0 : ~SetsUp(up'[i], p)
    BY <1>3, DriverAssumption
  <2> QED
    BY <2>1, <2>2, <2>3 DEF EndsFit, Past
<1>6. WaitsFit(ch', waiting)
  BY <1>2, <1>3 DEF Sound, WaitsFit, Answers, Done
<1>7. App = "recv" => App # "send" /\ jobs # 0 /\ ~waiting /\ ch'.resets = 0
  BY <1>2, <1>3 DEF Sound, StartFits, SameWish
<1>8. StartFits(ch', jobs, waiting)
  BY <1>7 DEF StartFits
<1>9. TailFits(ch', tail', jobs)
  <2>1. App = "send" /\ ch.cs \notin IdleStates => ch'.active
    BY <1>2, <1>3 DEF Fits, CallFits, Typed, LineTyped, SameCall
  <2> QED
    BY <1>1, <1>3, <1>7, <2>1 DEF TailFits
<1>10. OwnFits(ch', tail')
  BY <1>1, <1>2, <1>3 DEF Sound, OwnFits, SameCall
<1>11. Sound(ch', drv', up', tail', waiting', jobs')
  BY <1>1, <1>2, <1>3, <1>4, <1>5, <1>6, <1>8, <1>9, <1>10 DEF Sound
<1>12. jobs' \in 0 .. MaxJobs + 1 /\ faults' \in 0 .. MaxFaults
  BY <1>1 DEF Inv
<1>13. Lives(ch', drv', up', tail') /\ Tells(ch, ch')
  <2>1. Lives(ch, drv, up, tail)
    BY DEF Inv
  <2>2. tail' = "disconnect" \/ (ch.cs \in IdleStates /\ tail # "disconnect")
    BY <1>1
  <2>3. Lives(ch', drv, up, tail') /\ Tells(ch, ch')
    BY <1>2, <1>3, <2>1, <2>2, RestsTells
  <2>4. Held(ch', <<>>)
    BY <2>3 DEF Lives, Held, DataFits, DataAfter, DataApart, DataUsed, NoData
  <2>5. BlockWaits(ch', <<>>)
    BY <1>3 DEF BlockWaits, Opening
  <2>6. LogicalFits(ch', drv', <<>>)
    <3>1. \A p \in Plcis : drv'.link[p].b = "none"
      BY <1>1 DEF Fresh, NoLink
    <3> QED
      BY <1>3, <3>1 DEF LogicalFits
  <2> QED
    BY <1>1, <2>3, <2>4, <2>5, <2>6 DEF Lives, Told
<1> QED
  BY <1>3, <1>11, <1>12, <1>13, InvAgain

(* The rest of RELEASE_COMPLETE, without the lock.                         *)
LEMMA ReleaseDisconnectsKeeps ==
  ASSUME Inv, Covered, ReleaseDisconnects
  PROVE  Inv' /\ Sticks(ch, ch') /\ Tells(ch, ch')
<1>1. /\ tail = "disconnect" /\ ~Gone(ch) /\ ch' = DisconnectInd(ch) /\ tail' = "release"
      /\ UNCHANGED <<drv, up, waiting, jobs, faults>>
  BY DEF ReleaseDisconnects
<1>2. /\ Sound(ch, drv, up, tail, waiting, jobs) /\ Fits(ch) /\ ch.cs = "Released"
      /\ ReportsFit(ch, up) /\ EndsFit(drv, up, ch.plci)
      /\ App = "send" => ch.active
  BY <1>1 DEF Inv, Sound, TailFits
<1>3. App = "send" => ch.active /\ "RESET" \notin ch.flags
  BY <1>2 DEF Fits, CallFits
<1>4. ch.ddi => ch.active
  BY <1>2 DEF Sound, OwnFits, Covered, Fits, CallFits
<1>5. /\ Fits(ch') /\ Answers(ch, ch') /\ Sticks(ch, ch') /\ ch'.plci = 0
      /\ ch'.cs \in {"Released", "Registering"}
      /\ (BlockFits(ch) => BlockFits(ch')) /\ OwnerFits(ch')
      /\ Rests(ch, ch') /\ ch'.phase = "idle"
  BY <1>1, <1>2, <1>3, <1>4, ReleaseDisconnectsFits
<1>6. ReportsFit(ch', up) /\ EndsFit(drv, up, ch'.plci)
  <2>1. KeepsDial(ch, ch') /\ ch'.plci \in {0, ch.plci}
    BY <1>2, <1>5 DEF KeepsDial
  <2> QED
    BY <1>2, <2>1, ReportsStay
<1>7. WaitsFit(ch', waiting)
  BY <1>2, <1>5 DEF Sound, WaitsFit, Answers, Done
<1>8. StartFits(ch', jobs, waiting) /\ TailFits(ch', tail', jobs)
  <2>1. App = "recv" => App # "send" /\ ch.resets = 0 /\ jobs # 0
    BY <1>1, <1>2 DEF Sound, StartFits, TailFits, Gone
  <2>2. App = "recv" => ch'.resets \in {0, 1}
    BY <1>5, <2>1 DEF Answers
  <2> QED
    BY <1>1, <1>2, <2>1, <2>2 DEF Sound, StartFits, TailFits
<1>9. OwnFits(ch', tail')
  BY <1>1, <1>2, <1>5 DEF Sound, OwnFits, OwnerFits
<1>10. Sound(ch', drv', up', tail', waiting', jobs')
  BY <1>1, <1>2, <1>5, <1>6, <1>7, <1>8, <1>9 DEF Sound
<1>11. jobs' \in 0 .. MaxJobs + 1 /\ faults' \in 0 .. MaxFaults
  BY <1>1 DEF Inv
<1>12. Lives(ch', drv', up', tail') /\ Tells(ch, ch')
  BY <1>1, <1>2, <1>5, RestsTells DEF Inv
<1> QED
  BY <1>5, <1>10, <1>11, <1>12, InvAgain

LEMMA ReleaseCompletesKeeps ==
  ASSUME Inv, Covered, ReleaseCompletes
  PROVE  Inv' /\ Sticks(ch, ch') /\ Tells(ch, ch')
<1>1. /\ tail = "release" /\ ~Gone(ch) /\ ch' = Release_Complete(ch) /\ tail' = "none"
      /\ UNCHANGED <<drv, up, waiting, jobs, faults>>
  BY DEF ReleaseCompletes
<1>2. /\ Sound(ch, drv, up, tail, waiting, jobs) /\ Fits(ch)
      /\ ReportsFit(ch, up) /\ EndsFit(drv, up, ch.plci)
      /\ App = "send" \/ (Prompt /\ Owned(ch) /\ OwnerFits(ch))
  BY <1>1 DEF Inv, Sound, OwnFits, Owned, Covered
<1>3. /\ TurnDial(ch, ch') /\ ch'.plci = ch.plci /\ (ch'.cs = "Released" => ~ch'.active)
      /\ Onward(ch, ch') \/ (ch.cs = "Released" /\ Rests(ch, ch'))
  BY <1>1, <1>2, ReleaseCompletesTurn
<1>4. Fits(ch') /\ Answers(ch, ch') /\ Sticks(ch, ch') /\ KeepsDial(ch, ch')
      /\ (Prompt /\ Owned(ch) => Owned(ch'))
  BY <1>3 DEF TurnDial, Turn
<1>5. ReportsFit(ch', up) /\ EndsFit(drv, up, ch'.plci)
  BY <1>2, <1>3, <1>4, ReportsStay
<1>6. WaitsFit(ch', waiting)
  BY <1>2, <1>4 DEF Sound, WaitsFit, Answers, Done
<1>7. StartFits(ch', jobs, waiting) /\ TailFits(ch', tail', jobs)
  <2>1. App = "recv" => App # "send" /\ ch.resets = 0 /\ jobs # 0
    BY <1>1, <1>2 DEF Sound, StartFits, TailFits, Gone
  <2>2. App = "recv" => ch'.resets \in {0, 1}
    BY <1>4, <2>1 DEF Answers
  <2> QED
    BY <1>1, <1>2, <1>3, <2>1, <2>2 DEF Sound, StartFits, TailFits
<1>8. OwnFits(ch', tail')
  <2>1. Prompt => Owned(ch)
    BY <1>1, <1>2 DEF Sound, OwnFits, Owned
  <2> QED
    BY <1>4, <2>1 DEF OwnFits, Owned, OwnerFits
<1>9. Sound(ch', drv', up', tail', waiting', jobs')
  BY <1>1, <1>2, <1>4, <1>5, <1>6, <1>7, <1>8 DEF Sound
<1>10. jobs' \in 0 .. MaxJobs + 1 /\ faults' \in 0 .. MaxFaults
  BY <1>1 DEF Inv
<1>11. Lives(ch', drv', up', tail') /\ Tells(ch, ch')
  <2>1. Lives(ch, drv, up, tail)
    BY DEF Inv
  <2>2. CASE Onward(ch, ch')
    <3>1. Lives(ch', drv, up, tail) /\ Tells(ch, ch')
      BY <1>2, <1>4, <2>1, <2>2, OnwardTells
    <3>2. Lives(ch', drv, up, tail')
      BY <1>1, <3>1, LivesTail
    <3> QED
      BY <1>1, <3>1, <3>2
  <2>3. CASE ch.cs = "Released" /\ Rests(ch, ch')
    <3>1. ch.cs \in IdleStates /\ tail # "disconnect"
      BY <1>1, <2>3 DEF IdleStates
    <3>2. Lives(ch', drv, up, tail') /\ Tells(ch, ch')
      BY <1>2, <1>4, <2>1, <2>3, <3>1, RestsTells
    <3> QED
      BY <1>1, <3>2
  <2> QED
    BY <1>3, <2>2, <2>3
<1> QED
  BY <1>4, <1>9, <1>10, <1>11, InvAgain

-----------------------------------------------------------------------------
(* The theorems                                                            *)

(* The channel starts sound.                                               *)
LEMMA InvInit ==
  ASSUME Init
  PROVE  Inv
<1>1. PICK capi \in BOOLEAN : ch = New(capi)
  BY DEF Init
<1>2. /\ ch.cs = "Released" /\ ch.plci = 0 /\ ch.ncci = 0 /\ ch.init = FALSE
      /\ ch.timer = "none" /\ ch.appl = FALSE /\ ch.thr = "none" /\ ch.down = <<>>
      /\ ch.active = FALSE /\ ch.flags = {} /\ ch.inuse = 0 /\ ch.msn = FALSE
      /\ ch.ddi = FALSE /\ ch.block = [h \in Handles |-> 0] /\ ch.capi \in BOOLEAN
  BY <1>1 DEF New
<1>3. /\ ch.resets = 0 /\ ch.next = 1 /\ ch.fin = TRUE /\ ch.sending = FALSE
      /\ ch.quit = FALSE /\ ch.deleted = [f \in Frames |-> 0] /\ ch.phase = "idle"
      /\ ch.begun = 0
  BY <1>1 DEF New
<1>4. Shaped(ch)
  BY <1>1 DEF Shaped, Names, New
<1>5. LineTyped(ch)
  <2>1. ch.down \in Seq(Messages(Requests))
    BY <1>2
  <2> QED
    BY <1>2, <2>1 DEF LineTyped, IdleStates
<1>6. CallTyped(ch) /\ FaxTyped(ch)
  <2>1. ch.block \in [Handles -> Frames \cup {0}] /\ ch.deleted \in [Frames -> Nat]
    BY <1>2, <1>3
  <2>2. CallTyped(ch)
    <3>1. ch.flags \in SUBSET {"WAIT_REGISTER", "WAIT_RELEASE", "RESET"}
      BY <1>2
    <3>2. /\ ch.active \in BOOLEAN /\ ch.inuse \in {0, 1} /\ ch.msn \in BOOLEAN
          /\ ch.ddi \in BOOLEAN /\ ch.capi \in BOOLEAN
      BY <1>2
    <3>3. ch.resets \in Nat /\ ch.begun \in Nat
      BY <1>3
    <3>4. ch.quit \in BOOLEAN /\ ch.phase \in {"idle", "unseen", "setup", "connected", "closing", "error"}
      BY <1>3
    <3> QED
      BY <3>1, <3>2, <3>3, <3>4 DEF CallTyped
  <2>3. 1 \in 1 .. MaxFrames + 1
    BY ChannelAssumption
  <2>4. FaxTyped(ch)
    BY <1>2, <1>3, <2>1, <2>3 DEF FaxTyped
  <2> QED
    BY <2>2, <2>4
<1>7. ThreadFits(ch) /\ IdsFit(ch) /\ CallFits(ch) /\ FaxFits(ch)
  <2>1. ThreadFits(ch)
    BY <1>2 DEF ThreadFits, CallStates
  <2>2. IdsFit(ch)
    BY <1>2 DEF IdsFit, IdleStates, CallStates
  <2>3. CallFits(ch) /\ FaxFits(ch)
    BY <1>2, <1>3 DEF CallFits, FaxFits, CallStates
  <2> QED
    BY <2>1, <2>2, <2>3
<1>8. AskFits(ch)
  BY <1>2 DEF AskFits
<1>9. Fits(ch)
  BY <1>2, <1>4, <1>5, <1>6, <1>7, <1>8 DEF Fits, Typed
<1>10. drv = Fresh(0) /\ up = <<>> /\ tail = "none" /\ waiting = FALSE /\ jobs = 0 /\ faults = 0
  BY DEF Init
<1>11. drv \in Drivers
  <2>1. NoLink \in Links /\ 0 \in 0 .. MaxCalls
    BY DriverAssumption DEF NoLink, Links
  <2> QED
    BY <1>10, <2>1 DEF Fresh, Drivers
<1>12. up \in Seq(Messages(Reports)) /\ ReportsFit(ch, up) /\ EndsFit(drv, up, ch.plci)
  <2>1. up = <<>> /\ Len(up) = 0 /\ DOMAIN up = {} /\ up \in Seq(Messages(Reports))
    BY <1>10
  <2>2. ReportsFit(ch, up)
    BY <2>1 DEF ReportsFit
  <2>3. \A p \in Plcis : ch.plci # p /\ \A i \in 1 .. 0 : ~SetsUp(up[i], p)
    BY <1>2, DriverAssumption
  <2> QED
    BY <2>1, <2>2, <2>3 DEF EndsFit, Past
<1>13. WaitsFit(ch, waiting) /\ StartFits(ch, jobs, waiting) /\ TailFits(ch, tail, jobs)
  BY <1>2, <1>3, <1>10 DEF WaitsFit, StartFits, TailFits, Idle
<1>14. OwnFits(ch, tail)
  <2>1. BlockFits(ch)
    <3>1. \A h \in Handles : ch.block[h] = 0
      BY <1>2
    <3>2. \A f \in Frames : ch.deleted[f] = 0 /\ ~(f < 1)
      BY <1>3 DEF Frames
    <3>3. \A h \in Handles : ch.block[h] < ch.next
      BY <1>3, <3>1
    <3> QED
      BY <1>2, <1>3, <3>1, <3>2, <3>3 DEF BlockFits
  <2>2. OwnerFits(ch)
    BY <1>2, <1>3 DEF OwnerFits, CallStates
  <2> QED
    BY <1>2, <2>1, <2>2 DEF OwnFits
<1>15. jobs \in 0 .. MaxJobs + 1 /\ faults \in 0 .. MaxFaults
  BY <1>10, RunAssumption
<1>16. Lives(ch, drv, up, tail)
  <2>1. DOMAIN up = {} /\ DOMAIN ch.down = {}
    BY <1>2, <1>10
  <2>2. DataFits(ch, up)
    BY <1>2, <2>1 DEF DataFits, DataAfter, DataApart, DataUsed, NoData
  <2>3. BlockWaits(ch, up)
    BY <1>2 DEF BlockWaits, Opening
  <2>4. LogicalFits(ch, drv, up)
    <3>1. \A p \in Plcis : drv.link[p].b = "none"
      BY <1>10 DEF Fresh, NoLink
    <3> QED
      BY <1>2, <2>1, <3>1 DEF LogicalFits
  <2>5. TimerFits(ch) /\ LoopFits(ch) /\ PhaseFits(ch, tail)
    BY <1>2, <1>3 DEF TimerFits, LoopFits, PhaseFits
  <2> QED
    BY <2>2, <2>3, <2>4, <2>5 DEF Lives, Held, Told
<1> QED
  BY <1>9, <1>10, <1>11, <1>12, <1>13, <1>14, <1>15, <1>16 DEF Inv, Sound

(* Every step keeps the invariant, and keeps a reset that was asked for.   *)
LEMMA InvNext ==
  ASSUME Inv, Covered, [Next]_vars
  PROVE  Inv' /\ Sticks(ch, ch') /\ Tells(ch, ch')
<1>1. CASE StartSend \/ SendReturns \/ StartReceive \/ DeviceStops
  BY <1>1, StartSendKeeps, SendReturnsKeeps, StartReceiveKeeps, DeviceStopsKeeps
<1>2. CASE SetupTimer \/ DisconnectTimer
  BY <1>2, TimersKeep
<1>3. CASE ReadsMessage
  <2>1. CASE OnConnectConf
    BY <2>1, OnConnectConfKeeps
  <2>2. CASE OnConnectB3Conf
    BY <2>2, OnConnectB3ConfKeeps
  <2>3. CASE OnDataB3Conf
    BY <2>3, OnDataB3ConfKeeps
  <2>4. CASE OnDisconnectB3Conf
    BY <2>4, OnDisconnectB3ConfKeeps
  <2>5. CASE OnDisconnectConf
    BY <2>5, OnDisconnectConfKeeps
  <2>6. CASE OnListenConf
    BY <2>6, OnListenConfKeeps
  <2>7. CASE OnConnectInd
    BY <2>7, OnConnectIndKeeps
  <2>8. CASE OnInfoInd
    BY <2>8, OnInfoIndKeeps
  <2>9. CASE OnConnectActiveInd
    BY <2>9, OnConnectActiveIndKeeps
  <2>10. CASE OnConnectB3Ind
    BY <2>10, OnConnectB3IndKeeps
  <2>11. CASE OnConnectB3ActiveInd
    BY <2>11, OnConnectB3ActiveIndKeeps
  <2>12. CASE OnDataB3Ind
    BY <2>12, OnDataB3IndKeeps
  <2>13. CASE OnDisconnectB3Ind
    BY <2>13, OnDisconnectB3IndKeeps
  <2>14. CASE OnDisconnectInd
    BY <2>14, OnDisconnectIndKeeps
  <2> QED
    BY <1>3, <2>1, <2>2, <2>3, <2>4, <2>5, <2>6, <2>7, <2>8, <2>9, <2>10, <2>11, <2>12,
       <2>13, <2>14 DEF ReadsMessage
<1>4. CASE ThreadStarts \/ SendsFrame \/ SendDataReturns \/ ThreadStops \/ ReadFails
  BY <1>4, ThreadStartsKeeps, SendsFrameKeeps, SendDataReturnsKeeps, ThreadStopsKeeps,
     ReadFailsKeeps
<1>5. CASE ThreadEnds \/ ReleaseDisconnects \/ ReleaseCompletes
  BY <1>5, ThreadEndsKeeps, ReleaseDisconnectsKeeps, ReleaseCompletesKeeps
<1>6. CASE DriverTakes \/ NetworkActs \/ DriverCloses
  BY <1>6, DriverTakesKeeps, DriverKeeps
<1>7. CASE UNCHANGED vars
  BY <1>7 DEF vars, Inv, Sticks, Tells
<1> QED
  BY <1>1, <1>2, <1>3, <1>4, <1>5, <1>6, <1>7 DEF Next, CapiThread, Finished

(* The invariant holds in every state of the system.                       *)
LEMMA InvHolds == ASSUME Covered PROVE Spec => []Inv
<1>1. Init => Inv
  BY InvInit
<1>2. Inv /\ [Next]_vars => Inv'
  BY InvNext
<1> QED
  BY <1>1, <1>2, PTL DEF Spec

(* Types and identifiers: what the dasserts on PLCI, NCCI and initiator in *)
(* CapiChan.cpp rely on, in faxsend with any driver and in faxrecv with a  *)
(* driver that ends the calls it is asked to end.                          *)
THEOREM IdsAlwaysMatch ==
  ASSUME Covered
  PROVE  Spec => [](TypeOK /\ IdsMatchState)
<1>1. Inv => TypeOK /\ IdsMatchState
  <2> SUFFICES ASSUME Inv PROVE TypeOK /\ IdsMatchState
    OBVIOUS
  <2>1. Fits(ch) /\ Typed(ch)
    BY DEF Inv, Sound, Fits
  <2>2. ch \in Channels
    BY <2>1, ChannelIs
  <2>3. TypeOK
    BY <2>2 DEF Inv, Sound, TypeOK
  <2>4. IdsMatchState
    BY <2>1 DEF Fits, IdsFit, IdsMatchState, IdleStates, CallStates
  <2> QED
    BY <2>3, <2>4
<1>2. Spec => []Inv
  BY InvHolds
<1> QED
  BY <1>1, <1>2, PTL

(* sem_post and sem_wait pair up, also when the driver stays silent or     *)
(* refuses to hang up.                                                     *)
THEOREM PostsPairUp ==
  ASSUME Covered
  PROVE  Spec => []SinglePost
<1>1. Inv => SinglePost
  <2> SUFFICES ASSUME Inv PROVE SinglePost
    OBVIOUS
  <2>1. /\ WaitsFit(ch, waiting) /\ StartFits(ch, jobs, waiting) /\ waiting \in BOOLEAN
        /\ CallFits(ch)
    BY DEF Inv, Sound, Fits
  <2>2. CASE App = "send"
    <3>1. CASE waiting
      <4>1. Busy(ch) \/ Done(ch)
        BY <2>1, <2>2, <3>1 DEF WaitsFit
      <4>2. ch.resets = 0 \/ (ch.resets = 1 /\ ~ch.active)
        BY <4>1 DEF Busy, Done, Idle
      <4> QED
        BY <2>1, <2>2, <3>1, <4>2 DEF CallFits, SinglePost
    <3>2. CASE ~waiting
      <4>1. ch.resets = 0
        BY <2>1, <2>2, <3>2 DEF WaitsFit
      <4> QED
        BY <2>2, <3>2, <4>1 DEF SinglePost
    <3> QED
      BY <3>1, <3>2
  <2>3. CASE App = "recv"
    BY <2>1, <2>3 DEF StartFits, SinglePost
  <2> QED
    BY <2>2, <2>3, ChannelAssumption
<1>2. Spec => []Inv
  BY InvHolds
<1> QED
  BY <1>1, <1>2, PTL

(* A reset that was asked for is not forgotten, whatever happens to the    *)
(* call and to the registration in between.                                *)
THEOREM ResetsAreDone ==
  ASSUME Covered
  PROVE  Spec => ResetSticks
<1>1. Inv /\ [Next]_vars =>
        [ "RESET" \in ch.flags =>
            /\ ch'.begun = ch.begun
            /\ "RESET" \in ch'.flags \/ ch'.resets = ch.resets + 1 ]_vars
  BY InvNext DEF Sticks
<1>2. Spec => []Inv
  BY InvHolds
<1> QED
  BY <1>1, <1>2, PTL DEF Spec, ResetSticks

(* The channel's members agree at every return of a handler, and no call   *)
(* and no frame is left behind, when the driver ends the calls it is asked *)
(* to end.                                                                 *)
THEOREM MembersAgree ==
  ASSUME Prompt
  PROVE  Spec => []ChannelInv
<1>1. Inv => ChannelInv
  <2> SUFFICES ASSUME Inv PROVE ChannelInv
    OBVIOUS
  <2>1. Fits(ch) /\ Typed(ch) /\ TailFits(ch, tail, jobs) /\ OwnFits(ch, tail)
        /\ BlockFits(ch)
    BY DEF Inv, Sound, Fits, OwnFits
  <2>2. ch \in Channels
    BY <2>1, ChannelIs
  <2>3. TypeOK
    BY <2>2 DEF Inv, Sound, TypeOK
  <2>4. IdsMatchState
    BY <2>1 DEF Fits, IdsFit, IdsMatchState, IdleStates, CallStates
  <2>5. CallOwner
    <3>1. ch.active /\ tail # "disconnect" =>
            \/ ch.cs \in CallStates
            \/ App = "send" /\ ch.cs \in {"Registering", "Releasing"}
            \/ App = "send" /\ ch.cs = "Released" /\ tail = "release"
      <4> SUFFICES ASSUME ch.active, tail # "disconnect", ch.cs \notin CallStates
                   PROVE  \/ App = "send" /\ ch.cs \in {"Registering", "Releasing"}
                          \/ App = "send" /\ ch.cs = "Released" /\ tail = "release"
        OBVIOUS
      <4>1. App = "send" /\ ch.cs \in IdleStates
        BY <2>1 DEF OwnFits, OwnerFits, Fits, Typed, LineTyped
      <4>2. ch.cs # "Registered"
        BY <2>1, <4>1 DEF Fits, CallFits
      <4>3. ch.cs = "Released" => tail = "release"
        BY <2>1, <4>1 DEF TailFits, Inv, Sound
      <4> QED
        BY <4>1, <4>2, <4>3 DEF IdleStates
    <3>2. ch.cs \in CallStates =>
            ch.active \/ (OtherClaims /\ ch.cs = "D_DisconnectPending")
      BY <2>1 DEF TailFits, OwnFits, OwnerFits, CallStates
    <3>3. ch.active /\ ~ch.ddi <=> ch.phase # "idle"
      BY <2>1 DEF Fits, CallFits
    <3>4. ~ch.active => \A h \in Handles : ch.block[h] = 0
      BY <2>1 DEF BlockFits
    <3>5. (ch.ddi \/ ch.phase = "unseen") /\ tail # "disconnect" =>
            ch.cs \in {"D_ConnectIndication", "D_DisconnectPending"}
      BY <2>1 DEF OwnFits, OwnerFits
    <3> QED
      BY <3>1, <3>2, <3>3, <3>4, <3>5 DEF CallOwner
  <2> QED
    BY <2>3, <2>4, <2>5 DEF ChannelInv
<1>2. Spec => []Inv
  BY InvHolds DEF Covered
<1> QED
  BY <1>1, <1>2, PTL

(* No buffer of SendData leaks and none is deleted twice, however the call *)
(* ends.                                                                   *)
THEOREM BuffersAreOwned ==
  ASSUME Prompt
  PROVE  Spec => []BufferOwnedOnce
<1>1. Inv => BufferOwnedOnce
  <2> SUFFICES ASSUME Inv, NEW f \in Frames
               PROVE  ch.deleted[f] + Cardinality({h \in Handles : ch.block[h] = f}) =
                        IF f < ch.next THEN 1 ELSE 0
    BY DEF BufferOwnedOnce
  <2>1. BlockFits(ch) /\ Typed(ch)
    BY DEF Inv, Sound, Fits, OwnFits
  <2>2. f # 0
    BY ChannelAssumption DEF Frames
  <2>3. CASE \A h \in Handles : ch.block[h] # f
    <3>1. {h \in Handles : ch.block[h] = f} = {}
      BY <2>3
    <3>2. Cardinality({h \in Handles : ch.block[h] = f}) = 0
      BY <3>1, FS_EmptySet
    <3>3. ch.deleted[f] = IF f < ch.next THEN 1 ELSE 0
      BY <2>1, <2>3 DEF BlockFits
    <3> QED
      BY <3>2, <3>3
  <2>4. ASSUME NEW h \in Handles, ch.block[h] = f
        PROVE  ch.deleted[f] + Cardinality({k \in Handles : ch.block[k] = f}) =
                 IF f < ch.next THEN 1 ELSE 0
    <3>1. {k \in Handles : ch.block[k] = f} = {h}
      BY <2>1, <2>2, <2>4 DEF BlockFits
    <3>2. Cardinality({k \in Handles : ch.block[k] = f}) = 1
      BY <3>1, FS_Singleton
    <3>3. f < ch.next /\ ch.deleted[f] = 0
      BY <2>1, <2>4 DEF BlockFits
    <3> QED
      BY <3>2, <3>3
  <2> QED
    BY <2>3, <2>4
<1>2. Spec => []Inv
  BY InvHolds DEF Covered
<1> QED
  BY <1>1, <1>2, PTL

(* The timer never fires in a state that StateChangeTimer_CallBack does    *)
(* not know (CapiChan.cpp:52), whichever order the report, the hanging up  *)
(* and the time-out come in.                                               *)
THEOREM TimersAreHandled ==
  ASSUME Covered
  PROVE  Spec => []TimerHasHandler
<1>1. Inv => TimerHasHandler
  BY DEF Inv, Sound, Fits, IdsFit, Lives, Held, TimerFits, Opening, TimerHasHandler
<1>2. Spec => []Inv
  BY InvHolds
<1> QED
  BY <1>1, <1>2, PTL

(* The requests and confirmations on their way for one handle.             *)
LEMMA PendingIs ==
  ASSUME Inv, NEW h \in Handles
  PROVE  /\ ch.ncci = 0 => Pending(h) = {}
         /\ Pending(h) = {} \/ \E x : Pending(h) = {x}
         /\ Pending(h) # {} =>
              \/ \E i \in DOMAIN up : IsData(up[i]) /\ up[i].h = h
              \/ \E i \in DOMAIN ch.down : IsData(ch.down[i]) /\ ch.down[i].h = h
<1> DEFINE U == {i \in 1 .. Len(up) : up[i].m = "DATA_B3_CONF" /\ up[i].id = ch.ncci /\ up[i].h = h}
           D == {j \in 1 .. Len(ch.down) : /\ ch.down[j].m = "DATA_B3_REQ"
                                           /\ ch.down[j].id = ch.ncci /\ ch.down[j].h = h}
<1>1. Pending(h) = U \cup {-i : i \in D}
  BY DEF Pending
<1>2. /\ up \in Seq(Messages(Reports)) /\ ch.down \in Seq(Messages(Requests))
      /\ ReportsFit(ch, up) /\ AskFits(ch) /\ DataApart(ch, up)
  BY DEF Inv, Sound, Fits, Typed, LineTyped, Lives, Held, DataFits
<1>3. DOMAIN up = 1 .. Len(up) /\ DOMAIN ch.down = 1 .. Len(ch.down)
  BY <1>2
<1>4. /\ \A i \in U : i \in DOMAIN up /\ IsData(up[i]) /\ up[i].h = h /\ up[i].id = ch.ncci
      /\ \A i \in U : up[i].m = "DATA_B3_CONF"
      /\ \A j \in D : /\ j \in DOMAIN ch.down /\ IsData(ch.down[j]) /\ ch.down[j].h = h
                      /\ ch.down[j].m = "DATA_B3_REQ" /\ ch.down[j].id = ch.ncci
  BY <1>3 DEF IsData
<1> HIDE DEF U, D
<1>5. ch.ncci = 0 => U = {} /\ D = {}
  BY <1>2, <1>4 DEF ReportsFit, AskFits
<1>6. ASSUME ch.ncci # 0
      PROVE  /\ \A i, j \in U : i = j
             /\ \A i, j \in D : i = j
             /\ U = {} \/ D = {}
  <2>1. \A i, j \in U : i = j
    BY <1>2, <1>4, <1>6 DEF DataApart
  <2>2. \A i, j \in D : i = j
    BY <1>2, <1>4, <1>6 DEF DataApart
  <2>3. \A i \in U, j \in D : FALSE
    BY <1>2, <1>4, <1>6 DEF DataApart
  <2> QED
    BY <2>1, <2>2, <2>3
<1>7. CASE U = {} /\ D = {}
  BY <1>1, <1>7
<1>8. ASSUME NEW i \in U, ch.ncci # 0
      PROVE  Pending(h) = {i}
  <2>1. U = {i} /\ D = {}
    BY <1>6, <1>8
  <2> QED
    BY <1>1, <2>1
<1>9. ASSUME NEW j \in D, ch.ncci # 0
      PROVE  Pending(h) = {-j}
  <2>1. D = {j} /\ U = {}
    BY <1>6, <1>9
  <2> QED
    BY <1>1, <2>1
<1> QED
  BY <1>4, <1>5, <1>7, <1>8, <1>9

(* A frame is in the send block exactly while its request or confirmation  *)
(* is on its way, until the channel hangs up: DataB3Conf (Channel.cpp:938) *)
(* finds every handle in use that it is told of, and none waits for ever.  *)
THEOREM DataIsInFlight ==
  ASSUME Prompt
  PROVE  Spec => []DataInFlight
<1>1. Inv => DataInFlight
  <2> SUFFICES ASSUME Inv, NEW h \in Handles
               PROVE  /\ Cardinality(Pending(h)) <= 1
                      /\ ch.ncci # 0 /\ ch.cs # "D_DisconnectPending" /\ Pending(h) # {} =>
                           ch.block[h] # 0
                      /\ ch.cs = "Connected" /\ ch.block[h] # 0 => Pending(h) # {}
    BY DEF DataInFlight
  <2>1. /\ Pending(h) = {} \/ \E x : Pending(h) = {x}
        /\ Pending(h) # {} =>
             \/ \E i \in DOMAIN up : IsData(up[i]) /\ up[i].h = h
             \/ \E i \in DOMAIN ch.down : IsData(ch.down[i]) /\ ch.down[i].h = h
    BY PendingIs
  <2>2. /\ up \in Seq(Messages(Reports)) /\ ch.down \in Seq(Messages(Requests))
        /\ Typed(ch) /\ IdsFit(ch) /\ AskFits(ch) /\ ReportsFit(ch, up)
        /\ DataAfter(ch, up) /\ DataApart(ch, up) /\ DataUsed(ch, up) /\ BlockWaits(ch, up)
    BY DEF Inv, Sound, Fits, Typed, LineTyped, Lives, Held, Told, DataFits
  <2>3. DOMAIN up = 1 .. Len(up) /\ DOMAIN ch.down = 1 .. Len(ch.down)
    BY <2>2
  <2>4. Cardinality(Pending(h)) <= 1
    <3>1. Cardinality(Pending(h)) = 0 \/ Cardinality(Pending(h)) = 1
      BY <2>1, FS_EmptySet, FS_Singleton
    <3> QED
      BY <3>1
  <2>5. ASSUME ch.ncci # 0, ch.cs # "D_DisconnectPending", Pending(h) # {}
        PROVE  ch.block[h] # 0
    <3>1. ~(NoData(ch.down) /\ NoData(up))
      BY <2>1, <2>5 DEF NoData
    <3>2. ch.cs \in {"Connected", "B_DisconnectPending"}
      BY <2>2, <2>5, <3>1 DEF IdsFit, DataAfter, Opening
    <3> QED
      BY <2>1, <2>2, <2>5, <3>2 DEF DataUsed
  <2>6. ASSUME ch.cs = "Connected", ch.block[h] # 0
        PROVE  Pending(h) # {}
    <3>1. ch.ncci # 0
      BY <2>2, <2>6 DEF IdsFit
    <3>2. \/ \E i \in DOMAIN up : IsData(up[i]) /\ up[i].h = h
          \/ \E i \in DOMAIN ch.down : IsData(ch.down[i]) /\ ch.down[i].h = h
      BY <2>2, <2>6 DEF BlockWaits
    <3>3. \/ \E i \in 1 .. Len(up) :
               up[i].m = "DATA_B3_CONF" /\ up[i].id = ch.ncci /\ up[i].h = h
          \/ \E i \in 1 .. Len(ch.down) :
               ch.down[i].m = "DATA_B3_REQ" /\ ch.down[i].id = ch.ncci /\ ch.down[i].h = h
      <4>1. ASSUME NEW i \in DOMAIN up, IsData(up[i])
            PROVE  up[i].m = "DATA_B3_CONF" /\ up[i].id = ch.ncci
        BY <2>2, <3>1, <4>1, DataHandles DEF DataApart
      <4>2. ASSUME NEW i \in DOMAIN ch.down, IsData(ch.down[i])
            PROVE  ch.down[i].m = "DATA_B3_REQ" /\ ch.down[i].id = ch.ncci
        BY <2>2, <3>1, <4>2, DataHandles DEF DataApart
      <4> QED
        BY <2>3, <3>2, <4>1, <4>2
    <3> QED
      BY <3>3 DEF Pending
  <2> QED
    BY <2>4, <2>5, <2>6
<1>2. Spec => []Inv
  BY InvHolds DEF Covered
<1> QED
  BY <1>1, <1>2, PTL

(* The virtual functions of CTransferChannel are called in the order that  *)
(* CallLife promises: of each call one end, before it at most one          *)
(* IsConnected and at most one DisconnectInquiry; and an end that no call  *)
(* was told of comes only of a call with an empty DDI prefix that is hung  *)
(* up before its number is complete.                                       *)
THEOREM CallbacksInOrder ==
  ASSUME Prompt
  PROVE  Spec => CallbackOrder
<1>1. Init => Life!Init
  BY DEF Init, New, Life!Init
<1>2. Inv /\ [Next]_vars => [Life!Next]_(Life!vars)
  <2> SUFFICES ASSUME Inv, [Next]_vars PROVE [Life!Next]_(Life!vars)
    OBVIOUS
  <2>1. Tells(ch, ch')
    BY InvNext DEF Covered
  <2>2. CASE ch'.phase \in {ch.phase, "idle"} /\ ch'.begun = ch.begun
    BY <2>2 DEF Life!Next, Life!Ends, Life!vars
  <2>3. CASE /\ ch.phase \in {"idle", "unseen"}
             /\ ch'.phase \in {ch.phase, "setup"} \ {"unseen"}
             /\ ch'.begun = ch.begun + 1
    BY <2>3 DEF Life!Next, Life!Begins, Life!Fails
  <2>4. CASE ch.phase = "setup" /\ ch'.phase = "connected" /\ ch'.begun = ch.begun
    BY <2>4 DEF Life!Next, Life!Connects
  <2>5. CASE /\ ch.phase \in {"setup", "connected"} /\ ch'.phase = "closing"
             /\ ch'.begun = ch.begun
    BY <2>5 DEF Life!Next, Life!Inquires
  <2>6. CASE ch.phase = "idle" /\ ch'.phase = "unseen" /\ ch'.begun = ch.begun
    BY <2>6 DEF Life!Next, Life!Awaits
  <2> QED
    BY <2>1, <2>2, <2>3, <2>4, <2>5, <2>6 DEF Tells
<1>3. Spec => []Inv
  BY InvHolds DEF Covered
<1> QED
  BY <1>1, <1>2, <1>3, PTL DEF Spec, CallbackOrder, Life!Spec

-----------------------------------------------------------------------------
(* No call is forgotten: what the operations put to CAPI                   *)

(* A request that neither accepts a connection nor lets go of one that the *)
(* driver has taken down.                                                  *)
Ordinary(r) == r.m # "DISCONNECT_RESP" /\ ~(r.m = "CONNECT_RESP" /\ r.ok)

(* Only such requests are added to p.                                      *)
Mild(p, q) ==
  /\ DOMAIN p \subseteq DOMAIN q
  /\ \A i \in DOMAIN p : q[i] = p[i]
  /\ \A i \in DOMAIN q \ DOMAIN p : Ordinary(q[i]) /\ \A j \in DOMAIN p : j < i

Lined(c) == Shaped(c) /\ \E S : c.down \in Seq(S)

Still(c, d) == Lined(d) /\ d.cs = c.cs /\ d.plci = c.plci /\ d.down = c.down

(* The connection stays with the channel, or the registration is given up  *)
(* and with it every connection.                                           *)
Minded(c, d) ==
  /\ Lined(d) /\ (c.cs = "Releasing" => d.cs = "Releasing")
  /\ d.cs # "Releasing" => d.plci = c.plci /\ Mild(c.down, d.down)

(* Two such operations are one.                                            *)
LEMMA MindedTwice ==
  ASSUME NEW c, NEW d, NEW e, Minded(c, d), Minded(d, e)
  PROVE  Minded(c, e)
<1>1. ASSUME Mild(c.down, d.down), Mild(d.down, e.down) PROVE Mild(c.down, e.down)
  <2>1. ASSUME NEW i \in DOMAIN e.down \ DOMAIN c.down
        PROVE  Ordinary(e.down[i]) /\ \A j \in DOMAIN c.down : j < i
    BY <1>1 DEF Mild
  <2> QED
    BY <1>1, <2>1 DEF Mild
<1> QED
  BY <1>1 DEF Minded

(* An operation that leaves state, PLCI and requests is one.               *)
LEMMA MindedStill ==
  ASSUME NEW c, NEW d, Still(c, d)
  PROVE  Minded(c, d)
BY DEF Still, Minded, Mild

(* The state alone is written, not when the registration is given up.      *)
LEMMA MindedMoves ==
  ASSUME NEW c, NEW d, Lined(d), c.cs # "Releasing", d.plci = c.plci, d.down = c.down
  PROVE  Minded(c, d)
BY DEF Minded, Mild

(* The operations, from the innermost: Put.                                *)
LEMMA PutMinds ==
  ASSUME NEW c, Lined(c), NEW msg, Ordinary(msg), NEW d, d = Put(c, msg)
  PROVE  Minded(c, d)
<1>1. Shaped(d) /\ d.cs = c.cs /\ d.plci = c.plci
      /\ d.down = IF c.appl THEN Append(c.down, msg) ELSE c.down
  BY NamesHold DEF NamesAreIn, Lined, Shaped, Put
<1>2. PICK S : c.down \in Seq(S)
  BY DEF Lined
<1>3. CASE c.appl
  <2>1. d.down = Append(c.down, msg)
    BY <1>1, <1>3
  <2>2. c.down \in Seq(S \cup {msg}) /\ msg \in S \cup {msg}
    BY <1>2
  <2>3. /\ d.down \in Seq(S \cup {msg}) /\ Len(d.down) = Len(c.down) + 1
        /\ d.down[Len(c.down) + 1] = msg /\ Len(c.down) \in Nat
        /\ \A i \in 1 .. Len(c.down) : d.down[i] = c.down[i]
    BY <2>1, <2>2, AppendProperties
  <2>4. DOMAIN d.down = 1 .. Len(c.down) + 1 /\ DOMAIN c.down = 1 .. Len(c.down)
    BY <1>2, <2>3
  <2>5. \A i \in DOMAIN d.down \ DOMAIN c.down : i = Len(c.down) + 1
    BY <2>3, <2>4
  <2>6. Mild(c.down, d.down)
    BY <2>3, <2>4, <2>5 DEF Mild
  <2> QED
    BY <1>1, <2>3, <2>6 DEF Minded, Lined
<1>4. CASE ~c.appl
  BY <1>1, <1>2, <1>4 DEF Minded, Mild, Lined
<1> QED
  BY <1>3, <1>4

(* Release gives the registration up.                                      *)
LEMMA ReleaseMinds ==
  ASSUME NEW c, Lined(c), NEW d, d = Release(c)
  PROVE  Minded(c, d)
<1>1. Shaped(d) /\ d.cs = "Releasing" /\ d.down = c.down
  BY NamesHold DEF NamesAreIn, Lined, Shaped, Release, RELEASE, ResetValues
<1> QED
  BY <1>1 DEF Minded, Lined

(* The ends of a reset.                                                    *)
LEMMA CheckFinishResetMinds ==
  ASSUME NEW c, Lined(c), NEW new, NEW d, d = CheckFinishReset(c, new)
  PROVE  Still(c, d)
<1>1. Shaped(d) /\ d.cs = c.cs /\ d.plci = c.plci /\ d.down = c.down
  BY NamesHold DEF NamesAreIn, Lined, Shaped, CheckFinishReset, IsReseted
<1> QED
  BY <1>1 DEF Still, Lined

LEMMA CheckListenResetMinds ==
  ASSUME NEW c, Lined(c), NEW d, d = CheckListenReset(c)
  PROVE  Minded(c, d)
<1> DEFINE e == [c EXCEPT !.flags = @ \cup {"WAIT_RELEASE"}]
<1>1. Still(c, e)
  BY NamesHold DEF NamesAreIn, Lined, Shaped, Still
<1>2. CASE c.cs = "Registered"
  <2>1. d = Release(e)
    BY <1>2 DEF CheckListenReset
  <2> HIDE DEF e
  <2> QED
    BY <1>1, <2>1, ReleaseMinds, MindedStill, MindedTwice DEF Still
<1>3. CASE c.cs # "Registered"
  <2>1. Still(c, d)
    BY <1>3 DEF CheckListenReset, Still
  <2> QED
    BY <2>1, MindedStill
<1> QED
  BY <1>2, <1>3

(* ResetChannel, when the channel is idle.                                 *)
LEMMA ResetIdleMinds ==
  ASSUME NEW c, Lined(c), NEW d, d = ResetIdle(c)
  PROVE  Minded(c, d)
<1> DEFINE e == [c EXCEPT !.flags = @ \cup {"RESET"}, !.msn = FALSE]
<1>1. Still(c, e)
  BY NamesHold DEF NamesAreIn, Lined, Shaped, Still
<1>2. CASE c.cs = "Released" /\ c.flags = {} /\ c.inuse = 0
  <2>1. Still(c, d)
    BY <1>2, NamesHold DEF NamesAreIn, Lined, Shaped, Still, ResetIdle, IsReseted
  <2> QED
    BY <2>1, MindedStill
<1>3. CASE ~(c.cs = "Released" /\ c.flags = {} /\ c.inuse = 0)
  <2>1. d = CheckListenReset(e)
    BY <1>3 DEF ResetIdle
  <2> HIDE DEF e
  <2> QED
    BY <1>1, <2>1, CheckListenResetMinds, MindedStill, MindedTwice DEF Still
<1> QED
  BY <1>2, <1>3

(* The application is told of the end of its call.                         *)
LEMMA IsDisconnectedMinds ==
  ASSUME NEW c, Lined(c), NEW d, d = IsDisconnected(c)
  PROVE  Minded(c, d)
<1> DEFINE e == CallEnds(c)
<1>1. Still(c, e)
  BY NamesHold DEF NamesAreIn, Lined, Shaped, Still, CallEnds
<1>2. d = e \/ d = ResetIdle(e)
  BY DEF IsDisconnected
<1> HIDE DEF e
<1> QED
  BY <1>1, <1>2, ResetIdleMinds, MindedStill, MindedTwice DEF Still

(* The application is told that it cannot listen.                          *)
LEMMA ListenErrorMinds ==
  ASSUME NEW c, Lined(c), NEW d, d = ListenErrorIdle(c)
  PROVE  Minded(c, d)
<1> DEFINE e == [c EXCEPT !.quit = TRUE]
<1>1. Still(c, e) /\ d = ResetIdle(e)
  BY NamesHold DEF NamesAreIn, Lined, Shaped, Still, ListenErrorIdle
<1> HIDE DEF e
<1> QED
  BY <1>1, ResetIdleMinds, MindedStill, MindedTwice DEF Still

(* Register starts a thread, or fails and tells the application.           *)
LEMMA RegisterMinds ==
  ASSUME NEW c, Lined(c), NEW d, d = Register(c)
  PROVE  Minded(c, d)
<1>1. CASE c.cs # "Released"
  <2>1. Still(c, d)
    BY <1>1 DEF Register, Still
  <2> QED
    BY <2>1, MindedStill
<1>2. CASE c.cs = "Released" /\ c.capi
  <2>1. Shaped(d) /\ d.plci = c.plci /\ d.down = c.down
    BY <1>2, NamesHold DEF NamesAreIn, Lined, Shaped, Register
  <2> QED
    BY <1>2, <2>1, MindedMoves DEF Lined
<1>3. CASE c.cs = "Released" /\ ~c.capi
  <2> DEFINE f == [c EXCEPT !.active = FALSE]
             g == IF c.active THEN IsDisconnected(f) ELSE c
             h == IF g.msn THEN ListenErrorIdle(g) ELSE g
  <2>1. Still(c, f) /\ Still(c, c)
    BY NamesHold DEF NamesAreIn, Lined, Shaped, Still
  <2>2. d = CheckFinishReset(h, {})
    BY <1>3 DEF Register, RegisterFailed
  <2> HIDE DEF f
  <2>3. Minded(c, g)
    BY <2>1, IsDisconnectedMinds, MindedStill, MindedTwice DEF Still
  <2> HIDE DEF g
  <2>4. Lined(g)
    BY <2>3 DEF Minded
  <2>5. Minded(c, h)
    BY <2>3, <2>4, ListenErrorMinds, MindedTwice
  <2> HIDE DEF h
  <2>6. Lined(h)
    BY <2>5 DEF Minded
  <2> QED
    BY <2>2, <2>5, <2>6, CheckFinishResetMinds, MindedStill, MindedTwice
<1> QED
  BY <1>1, <1>2, <1>3

(* CheckListen, with what it starts in its turn.                           *)
LEMMA CheckListenMinds ==
  ASSUME NEW c, Lined(c), NEW d, d = CheckListen(c)
  PROVE  Minded(c, d)
<1> DEFINE e == [c EXCEPT !.inuse = 1]
           f == ListenTurn(e)
           g == [f EXCEPT !.inuse = 0]
           wr == [e EXCEPT !.flags = @ \cup {"WAIT_REGISTER"}]
           wl == [e EXCEPT !.flags = @ \cup {"WAIT_RELEASE"}]
<1>1. Still(c, e) /\ Still(e, wr) /\ Still(e, wl)
  BY NamesHold DEF NamesAreIn, Lined, Shaped, Still
<1>2. \/ f = Register(wr) \/ f = Release(wl)
      \/ f = Put(e, Msg("LISTEN_REQ", 0)) \/ f = e
  BY DEF ListenTurn
<1>3. d = CheckListenReset(c) \/ d = CheckFinishReset(g, {}) \/ d = g
  BY DEF CheckListen
<1>4. Ordinary(Msg("LISTEN_REQ", 0))
  BY DEF Ordinary, Msg
<1> HIDE DEF e, f, wr, wl
<1>5. Lined(e) /\ Lined(wr) /\ Lined(wl) /\ Minded(c, e)
  BY <1>1, MindedStill DEF Still
<1>6. Minded(e, f)
  <2>1. f = e => Minded(e, f)
    BY <1>5, MindedStill DEF Still
  <2> QED
    BY <1>1, <1>2, <1>4, <1>5, <2>1, RegisterMinds, ReleaseMinds, PutMinds, MindedStill, MindedTwice
<1>7. Minded(c, f) /\ Lined(f)
  BY <1>5, <1>6, MindedTwice DEF Minded
<1>8. Still(f, g)
  BY <1>7, NamesHold DEF NamesAreIn, Lined, Shaped, Still
<1> HIDE DEF g
<1>9. Minded(c, g) /\ Lined(g)
  BY <1>7, <1>8, MindedStill, MindedTwice DEF Still
<1> QED
  BY <1>3, <1>9, CheckListenResetMinds, CheckFinishResetMinds, MindedStill, MindedTwice

(* The end of a call, as the channel treats it.                            *)
LEMMA DisconnectIndMinds ==
  ASSUME NEW c, Lined(c), NEW d, d = DisconnectInd(c)
  PROVE  Minded(c, d)
<1> DEFINE e == [c EXCEPT !.active = FALSE, !.ddi = FALSE]
           f == ResetSendBlock(e)
           g == IF c.ddi THEN f ELSE IsDisconnected(f)
<1>1. Still(c, c) /\ Still(c, e)
  BY NamesHold DEF NamesAreIn, Lined, Shaped, Still
<1>2. d = c \/ d = CheckListen(g)
  BY DEF DisconnectInd
<1> HIDE DEF e
<1>3. Still(e, f)
  BY <1>1, NamesHold DEF NamesAreIn, Lined, Shaped, Still, ResetSendBlock
<1> HIDE DEF f
<1>4. Minded(c, f) /\ Lined(f)
  BY <1>1, <1>3, MindedStill, MindedTwice DEF Still
<1>5. Minded(c, g)
  BY <1>4, IsDisconnectedMinds, MindedTwice
<1> HIDE DEF g
<1>6. Lined(g)
  BY <1>5 DEF Minded
<1> QED
  BY <1>1, <1>2, <1>5, <1>6, CheckListenMinds, MindedStill, MindedTwice

(* A call that is hung up is not let go of before the driver reports it.   *)
LEMMA HangUpMinds ==
  ASSUME NEW c, Lined(c), c.cs # "Releasing", NEW fast, NEW d, d = HangUp(c, fast)
  PROVE  Minded(c, d)
<1> DEFINE e == [c EXCEPT !.cs = "D_DisconnectPending", !.timer = "disconnect"]
           f == [c EXCEPT !.cs = "B_DisconnectPending"]
<1>1. \/ d = c \/ d = e
      \/ d = Put(e, No("CONNECT_RESP", c.plci)) \/ d = Put(e, Msg("DISCONNECT_REQ", c.plci))
      \/ d = Put(f, Msg("DISCONNECT_B3_REQ", c.ncci))
  BY DEF HangUp
<1>2. Lined(e) /\ e.plci = c.plci /\ e.down = c.down
      /\ Lined(f) /\ f.plci = c.plci /\ f.down = c.down
  BY NamesHold DEF NamesAreIn, Lined, Shaped
<1> HIDE DEF e, f
<1>3. Minded(c, c) /\ Minded(c, e) /\ Minded(c, f)
  BY <1>2, MindedMoves
<1>4. \A p : Ordinary(No("CONNECT_RESP", p)) /\ Ordinary(Msg("DISCONNECT_REQ", p))
             /\ Ordinary(Msg("DISCONNECT_B3_REQ", p))
  BY DEF Ordinary, No, Msg
<1> QED
  BY <1>1, <1>2, <1>3, <1>4, PutMinds, MindedTwice

(* DisconnectReq in any state.                                             *)
LEMMA DisconnectReqMinds ==
  ASSUME NEW c, Lined(c), NEW fast, NEW d, d = DisconnectReq(c, fast)
  PROVE  Minded(c, d)
<1>1. d = DisconnectInd(c) \/ (d = HangUp(c, fast) /\ c.cs # "Releasing")
  BY DEF DisconnectReq, IdleStates
<1> QED
  BY <1>1, DisconnectIndMinds, HangUpMinds

(* The main thread stops a receiver.                                       *)
LEMMA StopReceiveMinds ==
  ASSUME NEW c, Lined(c), NEW d, d = StopReceive(c)
  PROVE  Minded(c, d)
<1> DEFINE k == [c EXCEPT !.quit = TRUE]
           e == [k EXCEPT !.flags = @ \cup {"RESET"}]
           f == DisconnectReq(e, TRUE)
           g == [f EXCEPT !.msn = FALSE]
<1>1. Still(c, k)
  BY NamesHold DEF NamesAreIn, Lined, Shaped, Still
<1>2. d = IsReseted(k) \/ d = CheckListenReset(g)
  BY DEF StopReceive, ResetChannel
<1> HIDE DEF k
<1>3. Lined(k) /\ Minded(c, k) /\ Still(k, e) /\ Still(k, IsReseted(k))
  BY <1>1, MindedStill, NamesHold DEF NamesAreIn, Lined, Shaped, Still, IsReseted
<1> HIDE DEF e
<1>4. Minded(c, e) /\ Lined(e) /\ Minded(c, IsReseted(k))
  BY <1>3, MindedStill, MindedTwice DEF Still
<1>5. Minded(c, f)
  BY <1>4, DisconnectReqMinds, MindedTwice
<1> HIDE DEF f
<1>6. Lined(f)
  BY <1>5 DEF Minded
<1>7. Still(f, g)
  BY <1>6, NamesHold DEF NamesAreIn, Lined, Shaped, Still
<1> HIDE DEF g
<1> QED
  BY <1>2, <1>4, <1>5, <1>7, MindedStill, CheckListenResetMinds, MindedTwice DEF Still

(* The CAPI thread has registered.                                         *)
LEMMA RegisterCompleteMinds ==
  ASSUME NEW c, Lined(c), NEW d, d = REGISTER_COMPLETE(c)
  PROVE  Minded(c, d)
<1>1. CASE c.cs = "Releasing"
  <2>1. Shaped(d) /\ d.cs = "Releasing" /\ d.down = c.down
    BY <1>1, NamesHold DEF NamesAreIn, Lined, Shaped, REGISTER_COMPLETE, RELEASE, ResetValues
  <2> QED
    BY <2>1 DEF Minded, Lined
<1>2. CASE c.cs # "Releasing"
  <2> DEFINE e == [c EXCEPT !.cs = "Registered"]
             f == [e EXCEPT !.flags = @ \cup {"WAIT_RELEASE"}]
             g == [e EXCEPT !.cs = "D_ConnectRequest", !.init = TRUE]
             h == IF e.active THEN Put(g, Msg("CONNECT_REQ", 0)) ELSE e
             k == [h EXCEPT !.flags = {}]
  <2>1. Lined(e) /\ e.cs = "Registered" /\ e.plci = c.plci /\ e.down = c.down
    BY NamesHold DEF NamesAreIn, Lined, Shaped
  <2>2. d = Release(f) \/ d = CheckListen(k)
    BY <1>2 DEF REGISTER_COMPLETE, Registered
  <2> HIDE DEF e
  <2>3. Still(e, f) /\ Lined(g) /\ g.plci = e.plci /\ g.down = e.down /\ g.cs = "D_ConnectRequest"
    BY <2>1, NamesHold DEF NamesAreIn, Lined, Shaped, Still
  <2> HIDE DEF f, g
  <2>4. Minded(c, e) /\ Minded(e, g) /\ Minded(e, e) /\ Minded(e, f) /\ Lined(f)
    BY <1>2, <2>1, <2>3, MindedMoves, MindedStill DEF Still
  <2>5. Ordinary(Msg("CONNECT_REQ", 0))
    BY DEF Ordinary, Msg
  <2>6. Minded(e, h)
    BY <2>3, <2>4, <2>5, PutMinds, MindedTwice
  <2> HIDE DEF h
  <2>7. Lined(h)
    BY <2>6 DEF Minded
  <2>8. Still(h, k)
    BY <2>7, NamesHold DEF NamesAreIn, Lined, Shaped, Still
  <2> HIDE DEF k
  <2>9. Minded(c, k) /\ Lined(k) /\ Minded(c, f)
    BY <2>4, <2>6, <2>8, MindedStill, MindedTwice DEF Still
  <2> QED
    BY <2>2, <2>4, <2>9, ReleaseMinds, CheckListenMinds, MindedTwice
<1> QED
  BY <1>1, <1>2

(* The last part of RELEASE_COMPLETE.                                      *)
LEMMA ReleaseCompleteMinds ==
  ASSUME NEW c, Lined(c), NEW d, d = Release_Complete(c)
  PROVE  Minded(c, d)
<1> DEFINE e == CheckFinishReset(c, IF c.active \/ c.msn THEN {"WAIT_REGISTER"} ELSE {})
<1>1. d = e \/ d = Register(e)
  BY DEF Release_Complete
<1>2. Still(c, e)
  BY CheckFinishResetMinds
<1> HIDE DEF e
<1> QED
  BY <1>1, <1>2, RegisterMinds, MindedStill, MindedTwice DEF Still

(* The main thread sends a fax.                                            *)
LEMMA SendMinds ==
  ASSUME NEW c, Lined(c), NEW d, d = Send(c)
  PROVE  Minded(c, d)
<1> DEFINE e == [c EXCEPT !.next = 1, !.fin = FALSE, !.sending = FALSE,
                          !.deleted = [f \in Frames |-> 0]]
           g == CallBegins([e EXCEPT !.active = TRUE])
           h == [g EXCEPT !.flags = @ \cup {"WAIT_REGISTER"}]
           k == [g EXCEPT !.cs = "D_ConnectRequest", !.init = TRUE]
<1>1. d = MakeCall(e)
  BY DEF Send
<1>2. Still(c, e)
  BY NamesHold DEF NamesAreIn, Lined, Shaped, Still
<1> HIDE DEF e
<1>3. d = e \/ d = g \/ d = Register(h)
      \/ (e.cs = "Registered" /\ d = Put(k, Msg("CONNECT_REQ", 0)))
  BY <1>1 DEF MakeCall
<1>4. Still(e, g)
  BY <1>2, NamesHold DEF NamesAreIn, Lined, Shaped, Still, CallBegins
<1> HIDE DEF g
<1>5. Still(g, h) /\ Lined(k) /\ k.plci = g.plci /\ k.down = g.down
  BY <1>4, NamesHold DEF NamesAreIn, Lined, Shaped, Still
<1> HIDE DEF h, k
<1>6. Minded(c, e) /\ Minded(c, g) /\ Minded(c, h) /\ Lined(h)
  BY <1>2, <1>4, <1>5, MindedStill, MindedTwice DEF Still
<1>7. e.cs = "Registered" => Minded(g, k)
  BY <1>4, <1>5, MindedMoves DEF Still
<1>8. Ordinary(Msg("CONNECT_REQ", 0))
  BY DEF Ordinary, Msg
<1> QED
  BY <1>3, <1>5, <1>6, <1>7, <1>8, RegisterMinds, PutMinds, MindedTwice

(* A data block is confirmed.                                              *)
LEMMA DataB3ConfMinds ==
  ASSUME NEW c, Lined(c), NEW h, NEW connected, NEW d, d = DataB3Conf(c, h, connected)
  PROVE  Minded(c, d)
<1> DEFINE e == [c EXCEPT !.block[h] = 0]
           f == PutDataComplete(e, c.block[h], connected)
<1>1. d = f \/ d = DisconnectReq(c, FALSE)
  BY DEF DataB3Conf
<1>2. Still(c, f)
  BY NamesHold DEF NamesAreIn, Lined, Shaped, Still, PutDataComplete
<1> HIDE DEF f
<1> QED
  BY <1>1, <1>2, MindedStill, DisconnectReqMinds

(* A frame is sent.                                                        *)
LEMMA SendFrameMinds ==
  ASSUME NEW c, Lined(c), NEW h, NEW d, d = SendFrame(c, h)
  PROVE  Minded(c, d)
<1> DEFINE e == SendSFF(c)
           f == [e EXCEPT !.block[h] = c.next]
           m == [m |-> "DATA_B3_REQ", id |-> e.ncci, ok |-> TRUE, h |-> h]
           g == DataB3Req(e, h, c.next)
           n == [m |-> "DATA_B3_REQ", id |-> f.ncci, ok |-> TRUE, h |-> h]
<1>1. d = g \/ d = DisconnectReq(g, FALSE)
  BY DEF SendFrame
<1>2. Still(c, e)
  BY NamesHold DEF NamesAreIn, Lined, Shaped, Still, SendSFF
<1> HIDE DEF e
<1>3. Still(e, f)
  BY <1>2, NamesHold DEF NamesAreIn, Lined, Shaped, Still
<1>4. g = Put(f, m) \/ g = DataB3Conf(f, h, FALSE)
  BY DEF DataB3Req
<1>5. Ordinary(m)
  BY DEF Ordinary
<1> HIDE DEF f, g, m
<1>6. Minded(c, f) /\ Lined(f)
  BY <1>2, <1>3, MindedStill, MindedTwice DEF Still
<1>7. Minded(c, g)
  BY <1>4, <1>5, <1>6, PutMinds, DataB3ConfMinds, MindedTwice
<1>8. Lined(g)
  BY <1>7 DEF Minded
<1> QED
  BY <1>1, <1>7, <1>8, DisconnectReqMinds, MindedTwice

(* A frame is dropped.                                                     *)
LEMMA SendDroppedMinds ==
  ASSUME NEW c, Lined(c), NEW d, d = SendDropped(c)
  PROVE  Minded(c, d)
<1> DEFINE e == SendSFF(c)
           f == [e EXCEPT !.deleted[c.next] = @ + 1]
<1>1. d = DisconnectReq(f, TRUE)
  BY DEF SendDropped
<1>2. Still(c, e)
  BY NamesHold DEF NamesAreIn, Lined, Shaped, Still, SendSFF
<1> HIDE DEF e
<1>3. Still(e, f)
  BY <1>2, NamesHold DEF NamesAreIn, Lined, Shaped, Still
<1> HIDE DEF f
<1> QED
  BY <1>1, <1>2, <1>3, DisconnectReqMinds, MindedStill, MindedTwice DEF Still

(* The timer fires.                                                        *)
LEMMA TimerMinds ==
  ASSUME NEW c, Lined(c), NEW d, d = TimerCallBack(c)
  PROVE  Minded(c, d)
<1> DEFINE e == [c EXCEPT !.timer = "none"]
<1>1. d = e \/ d = DisconnectReq(e, FALSE) \/ d = Release(e)
  BY DEF TimerCallBack
<1>2. Still(c, e)
  BY NamesHold DEF NamesAreIn, Lined, Shaped, Still
<1> HIDE DEF e
<1>3. Minded(c, e) /\ Lined(e)
  BY <1>2, MindedStill DEF Still
<1> QED
  BY <1>1, <1>3, DisconnectReqMinds, ReleaseMinds, MindedTwice

-----------------------------------------------------------------------------
(* The handlers                                                            *)

(* A request that accepts an incoming connection, one that refuses it, and *)
(* one that lets go of a connection that is down.                          *)
Accepts(r, p) == r.m = "CONNECT_RESP" /\ r.ok /\ r.id = p

Refuses(r, p) == r.m = "CONNECT_RESP" /\ ~r.ok /\ r.id = p

LetsGo(r, p) == r.m = "DISCONNECT_RESP" /\ r.id = p

(* The requests a become b: a connection is accepted by the channel that   *)
(* has it (its PLCI is y), and let go of when the report of its end is msg. *)
Added(a, b, y, msg) ==
  /\ DOMAIN a \subseteq DOMAIN b /\ \A i \in DOMAIN a : b[i] = a[i]
  /\ \A i \in DOMAIN b \ DOMAIN a, p \in Plcis :
       /\ Accepts(b[i], p) => y = p
       /\ LetsGo(b[i], p) => TakesDown(msg, p)
  /\ \A i \in DOMAIN b \ DOMAIN a : \A j \in DOMAIN a : j < i
  /\ \A i, j \in DOMAIN b \ DOMAIN a :
       b[i].m = "DISCONNECT_RESP" /\ b[j].m = "DISCONNECT_RESP" => i = j

(* The channel takes a connection that is set up, or refuses it; and lets  *)
(* go of one that is taken down.                                           *)
Settles(c, d, msg) ==
  /\ d.plci = c.plci \/ (c.plci = 0 /\ SetsUp(msg, d.plci))
     \/ (TakesDown(msg, c.plci) /\ d.plci = 0)
  /\ Added(c.down, d.down, d.plci, msg)
  /\ \A p \in Plcis :
       /\ SetsUp(msg, p) /\ msg.ok =>
            \/ d.plci = p
            \/ /\ msg.m = "CONNECT_IND"
               /\ \E i \in DOMAIN d.down \ DOMAIN c.down : Refuses(d.down[i], p)
       /\ TakesDown(msg, p) =>
            /\ d.plci # p
            /\ \E i \in DOMAIN d.down \ DOMAIN c.down : LetsGo(d.down[i], p)

Attends(c, d, msg) ==
  /\ Lined(d) /\ (c.cs = "Releasing" => d.cs = "Releasing")
  /\ d.cs # "Releasing" => Settles(c, d, msg)

(* A handler that does no more, of a report about no connection.           *)
LEMMA MindedReads ==
  ASSUME NEW c, NEW d, Minded(c, d), NEW msg,
         msg.m \notin {"CONNECT_IND", "DISCONNECT_IND"}, msg.m = "CONNECT_CONF" => ~msg.ok
  PROVE  Attends(c, d, msg)
<1>1. ASSUME d.cs # "Releasing" PROVE Settles(c, d, msg)
  <2>1. d.plci = c.plci /\ Mild(c.down, d.down)
    BY <1>1 DEF Minded
  <2>2. Added(c.down, d.down, d.plci, msg)
    BY <2>1 DEF Added, Mild, Ordinary, Accepts, LetsGo
  <2> QED
    BY <2>1, <2>2 DEF Settles, SetsUp, TakesDown
<1> QED
  BY <1>1 DEF Attends, Minded

(* One request is put to CAPI.                                             *)
LEMMA AddedPut ==
  ASSUME NEW c, Lined(c), c.appl, NEW r, NEW d, d = Put(c, r), NEW y, NEW msg,
         \A p \in Plcis : Accepts(r, p) => y = p,
         \A p \in Plcis : LetsGo(r, p) => TakesDown(msg, p)
  PROVE  /\ Lined(d) /\ d.cs = c.cs /\ d.plci = c.plci
         /\ Added(c.down, d.down, y, msg)
         /\ \E i \in DOMAIN d.down \ DOMAIN c.down : d.down[i] = r
<1>1. Shaped(d) /\ d.cs = c.cs /\ d.plci = c.plci /\ d.down = Append(c.down, r)
  BY NamesHold DEF NamesAreIn, Lined, Shaped, Put
<1>2. PICK S : c.down \in Seq(S)
  BY DEF Lined
<1>3. c.down \in Seq(S \cup {r}) /\ r \in S \cup {r}
  BY <1>2
<1>4. /\ d.down \in Seq(S \cup {r}) /\ Len(d.down) = Len(c.down) + 1
      /\ d.down[Len(c.down) + 1] = r /\ Len(c.down) \in Nat
      /\ \A i \in 1 .. Len(c.down) : d.down[i] = c.down[i]
  BY <1>1, <1>3, AppendProperties
<1>5. DOMAIN d.down = 1 .. Len(c.down) + 1 /\ DOMAIN c.down = 1 .. Len(c.down)
  BY <1>2, <1>4
<1>6. \A i \in DOMAIN d.down \ DOMAIN c.down : i = Len(c.down) + 1
  BY <1>4, <1>5
<1>7. Added(c.down, d.down, y, msg)
  BY <1>4, <1>5, <1>6 DEF Added
<1>8. Len(c.down) + 1 \in DOMAIN d.down \ DOMAIN c.down
  BY <1>4, <1>5
<1> QED
  BY <1>1, <1>4, <1>7, <1>8 DEF Lined

(* A connection is answered, then the channel goes on.                     *)
LEMMA AddedMild ==
  ASSUME NEW a, NEW b, NEW e, NEW y, NEW msg, Added(a, b, y, msg), Mild(b, e)
  PROVE  /\ Added(a, e, y, msg)
         /\ \A i \in DOMAIN b \ DOMAIN a : i \in DOMAIN e \ DOMAIN a /\ e[i] = b[i]
<1>1. \A i \in DOMAIN e \ DOMAIN a : i \in DOMAIN b \ DOMAIN a \/ i \in DOMAIN e \ DOMAIN b
  BY DEF Added, Mild
<1>2. \A i \in DOMAIN b \ DOMAIN a : i \in DOMAIN e \ DOMAIN a /\ e[i] = b[i]
  BY DEF Mild
<1>3. \A i \in DOMAIN e \ DOMAIN b, p \in Plcis : ~Accepts(e[i], p) /\ ~LetsGo(e[i], p)
                                                  /\ e[i].m # "DISCONNECT_RESP"
  BY DEF Mild, Ordinary, Accepts, LetsGo
<1>4. \A i \in DOMAIN e \ DOMAIN a : \A j \in DOMAIN a : j < i
  BY <1>1 DEF Added, Mild
<1>5. DOMAIN a \subseteq DOMAIN e /\ \A i \in DOMAIN a : e[i] = a[i]
  BY DEF Added, Mild
<1>6. \A i \in DOMAIN e \ DOMAIN a, p \in Plcis :
        /\ Accepts(e[i], p) => y = p
        /\ LetsGo(e[i], p) => TakesDown(msg, p)
  BY <1>1, <1>2, <1>3 DEF Added
<1>7. \A i, j \in DOMAIN e \ DOMAIN a :
        e[i].m = "DISCONNECT_RESP" /\ e[j].m = "DISCONNECT_RESP" => i = j
  <2> SUFFICES ASSUME NEW i \in DOMAIN e \ DOMAIN a, NEW j \in DOMAIN e \ DOMAIN a,
                      e[i].m = "DISCONNECT_RESP", e[j].m = "DISCONNECT_RESP"
               PROVE  i = j
    OBVIOUS
  <2>1. i \in DOMAIN b \ DOMAIN a /\ j \in DOMAIN b \ DOMAIN a
    BY <1>1 DEF Mild, Ordinary
  <2> QED
    BY <1>2, <2>1 DEF Added
<1> QED
  BY <1>2, <1>4, <1>5, <1>6, <1>7 DEF Added

(* CONNECT_CONF: the channel takes the connection.                         *)
LEMMA ConnectConfMinds ==
  ASSUME NEW c, Lined(c), NEW msg, msg.m = "CONNECT_CONF",
         msg.ok => c.cs = "D_ConnectRequest" /\ c.plci = 0,
         NEW d, d = CONNECT_CONF(c, msg)
  PROVE  Attends(c, d, msg)
<1>1. CASE ~msg.ok
  <2> DEFINE e == [c EXCEPT !.init = FALSE,
                     !.cs = IF @ \in {"D_ConnectRequest", "D_DisconnectPending"}
                            THEN "Registered" ELSE @]
  <2>1. /\ Lined(e) /\ e.plci = c.plci /\ e.down = c.down
        /\ c.cs = "Releasing" => e.cs = c.cs
    BY NamesHold DEF NamesAreIn, Lined, Shaped
  <2>2. d = DisconnectInd(e)
    BY <1>1 DEF CONNECT_CONF
  <2> HIDE DEF e
  <2>3. Minded(c, e)
    BY <2>1, MindedMoves, MindedStill DEF Still
  <2>4. Minded(c, d)
    BY <2>1, <2>2, <2>3, DisconnectIndMinds, MindedTwice
  <2> QED
    BY <1>1, <2>4, MindedReads
<1>2. CASE msg.ok
  <2>1. Shaped(d) /\ d.plci = msg.id /\ d.down = c.down
    BY <1>2, NamesHold DEF NamesAreIn, Lined, Shaped, CONNECT_CONF
  <2>2. Added(c.down, d.down, d.plci, msg)
    BY <2>1 DEF Added
  <2>3. Settles(c, d, msg)
    BY <1>2, <2>1, <2>2 DEF Settles, SetsUp, TakesDown
  <2> QED
    BY <1>2, <2>1, <2>3 DEF Attends, Lined
<1> QED
  BY <1>1, <1>2

(* The requests about a connection that stays.                             *)
LEMMA RequestsAreOrdinary ==
  ASSUME NEW p
  PROVE  /\ Ordinary(Msg("DISCONNECT_REQ", p)) /\ Ordinary(Msg("DISCONNECT_B3_REQ", p))
         /\ Ordinary(Msg("CONNECT_B3_REQ", p)) /\ Ordinary(Msg("CONNECT_B3_RESP", p))
         /\ Ordinary(No("CONNECT_B3_RESP", p)) /\ Ordinary(No("CONNECT_RESP", p))
BY DEF Ordinary, Msg, No

(* The reports about the logical connection.                               *)
LEMMA ConnectB3ConfMinds ==
  ASSUME NEW c, Lined(c), NEW msg, msg.m = "CONNECT_B3_CONF", NEW d,
         d = CONNECT_B3_CONF(c, msg)
  PROVE  Attends(c, d, msg)
<1> DEFINE e == [c EXCEPT !.cs = "B_ConnectPending", !.ncci = msg.id]
<1>1. (d = e /\ c.cs # "Releasing") \/ d = Put(c, Msg("DISCONNECT_REQ", msg.id))
  BY DEF CONNECT_B3_CONF
<1>2. Lined(e) /\ e.plci = c.plci /\ e.down = c.down
  BY NamesHold DEF NamesAreIn, Lined, Shaped
<1> HIDE DEF e
<1>3. Minded(c, d)
  BY <1>1, <1>2, MindedMoves, PutMinds, RequestsAreOrdinary
<1> QED
  BY <1>3, MindedReads

(* The connection is up.                                                   *)
LEMMA ConnectActiveMinds ==
  ASSUME NEW c, Lined(c), NEW msg, msg.m = "CONNECT_ACTIVE_IND", NEW d,
         d = CONNECT_ACTIVE_IND(c, msg)
  PROVE  Attends(c, d, msg)
<1> DEFINE e == [c EXCEPT !.cs = "D_Connected", !.timer = "bchannel", !.init = FALSE]
<1>1. \/ c.cs # "Releasing" /\ (d = e \/ d = Put(e, Msg("CONNECT_B3_REQ", c.plci)))
      \/ d = Put(c, Msg("DISCONNECT_REQ", msg.id))
  BY DEF CONNECT_ACTIVE_IND
<1>2. Lined(e) /\ e.plci = c.plci /\ e.down = c.down
  BY NamesHold DEF NamesAreIn, Lined, Shaped
<1> HIDE DEF e
<1>3. c.cs # "Releasing" => Minded(c, e)
  BY <1>2, MindedMoves
<1>4. Minded(c, d)
  BY <1>1, <1>2, <1>3, PutMinds, RequestsAreOrdinary, MindedTwice
<1> QED
  BY <1>4, MindedReads

(* The other side sets up the logical connection.                          *)
LEMMA ConnectB3IndMinds ==
  ASSUME NEW c, Lined(c), NEW msg, msg.m = "CONNECT_B3_IND", NEW d,
         d = CONNECT_B3_IND(c, msg)
  PROVE  Attends(c, d, msg)
<1> DEFINE e == [c EXCEPT !.cs = "B_ConnectPending", !.ncci = msg.id]
<1>1. \/ c.cs # "Releasing" /\ d = Put(e, Msg("CONNECT_B3_RESP", msg.id))
      \/ d = Put(c, No("CONNECT_B3_RESP", msg.id))
  BY DEF CONNECT_B3_IND
<1>2. Lined(e) /\ e.plci = c.plci /\ e.down = c.down
  BY NamesHold DEF NamesAreIn, Lined, Shaped
<1> HIDE DEF e
<1>3. c.cs # "Releasing" => Minded(c, e)
  BY <1>2, MindedMoves
<1>4. Minded(c, d)
  BY <1>1, <1>2, <1>3, PutMinds, RequestsAreOrdinary, MindedTwice
<1> QED
  BY <1>4, MindedReads

(* The logical connection is up.                                           *)
LEMMA ConnectB3ActiveMinds ==
  ASSUME NEW c, Lined(c), NEW msg, msg.m = "CONNECT_B3_ACTIVE_IND", NEW ready, NEW d,
         d = CONNECT_B3_ACTIVE_IND(c, msg, ready)
  PROVE  Attends(c, d, msg)
<1> DEFINE e == [c EXCEPT !.cs = "Connected", !.timer = "none"]
           f == CallConnected(e)
           g == [f EXCEPT !.sending = TRUE]
<1>1. \/ c.cs # "Releasing" /\ (d = f \/ d = g \/ d = HangUp(f, TRUE))
      \/ d = Put(c, Msg("DISCONNECT_B3_REQ", msg.id))
  BY DEF CONNECT_B3_ACTIVE_IND, IsConnected
<1>2. Lined(e) /\ e.plci = c.plci /\ e.down = c.down /\ e.cs = "Connected"
  BY NamesHold DEF NamesAreIn, Lined, Shaped
<1> HIDE DEF e
<1>3. Still(e, f)
  BY <1>2, NamesHold DEF NamesAreIn, Lined, Shaped, Still, CallConnected
<1> HIDE DEF f
<1>4. Still(f, g)
  BY <1>3, NamesHold DEF NamesAreIn, Lined, Shaped, Still
<1> HIDE DEF g
<1>5. c.cs # "Releasing" => Minded(c, f) /\ Minded(c, g)
  BY <1>2, <1>3, <1>4, MindedMoves, MindedStill, MindedTwice
<1>6. Lined(f) /\ f.cs # "Releasing"
  BY <1>2, <1>3 DEF Still
<1>7. Minded(f, HangUp(f, TRUE)) /\ Minded(c, Put(c, Msg("DISCONNECT_B3_REQ", msg.id)))
  BY <1>6, HangUpMinds, PutMinds, RequestsAreOrdinary
<1>8. Minded(c, d)
  <2>1. c.cs # "Releasing" => Minded(c, HangUp(f, TRUE))
    BY <1>5, <1>7, MindedTwice
  <2> QED
    BY <1>1, <1>5, <1>7, <2>1
<1> QED
  BY <1>8, MindedReads

(* The logical connection is down.                                         *)
LEMMA DisconnectB3IndMinds ==
  ASSUME NEW c, Lined(c), NEW msg, msg.m = "DISCONNECT_B3_IND",
         msg.id = c.ncci => c.cs # "Releasing", NEW d,
         d = DISCONNECT_B3_IND(c, msg)
  PROVE  Attends(c, d, msg)
<1> DEFINE e == ResetSendBlock(c)
           f == CallClosing(e)
           g == [f EXCEPT !.ncci = 0, !.cs = "D_DisconnectPending", !.timer = "disconnect"]
<1>1. \/ d = c \/ d = f
      \/ c.cs # "Releasing" /\ d = Put(g, Msg("DISCONNECT_REQ", c.plci))
  BY DEF DISCONNECT_B3_IND
<1>2. Still(c, e)
  BY NamesHold DEF NamesAreIn, Lined, Shaped, Still, ResetSendBlock
<1> HIDE DEF e
<1>3. Still(e, f)
  BY <1>2, NamesHold DEF NamesAreIn, Lined, Shaped, Still, CallClosing
<1> HIDE DEF f
<1>4. Lined(g) /\ g.plci = f.plci /\ g.down = f.down
  BY <1>3, NamesHold DEF NamesAreIn, Lined, Shaped, Still
<1> HIDE DEF g
<1>5. Minded(c, c) /\ Minded(c, f) /\ (c.cs # "Releasing" => Minded(f, g))
  BY <1>2, <1>3, <1>4, MindedMoves, MindedStill, MindedTwice DEF Still
<1>6. Minded(c, d)
  BY <1>1, <1>4, <1>5, PutMinds, RequestsAreOrdinary, MindedTwice
<1> QED
  BY <1>6, MindedReads

(* The reports whose handlers put at most one request, hang up or reset.   *)
LEMMA OtherReportsMind ==
  ASSUME NEW c, Lined(c), NEW msg, NEW ready, NEW d,
         \/ msg.m = "DATA_B3_CONF" /\ d = DATA_B3_CONF(c, msg)
         \/ msg.m = "DISCONNECT_B3_CONF" /\ d = DISCONNECT_B3_CONF(c, msg)
         \/ msg.m = "DISCONNECT_CONF" /\ d = DISCONNECT_CONF(c, msg)
         \/ msg.m = "LISTEN_CONF" /\ d = LISTEN_CONF(c, msg)
         \/ msg.m = "DATA_B3_IND" /\ d = DATA_B3_IND(c, msg, ready)
  PROVE  Attends(c, d, msg)
<1> DEFINE e == [c EXCEPT !.timer = "none"]
<1>1. \/ d = c
      \/ d = Put(c, Msg("DISCONNECT_B3_REQ", msg.id)) \/ d = Put(c, Msg("DISCONNECT_REQ", msg.id))
      \/ d = DataB3Conf(c, msg.h, TRUE) \/ d = Release(e) \/ d = StopReceive(c)
      \/ d = DisconnectReq(c, TRUE)
  BY DEF DATA_B3_CONF, DISCONNECT_B3_CONF, DISCONNECT_CONF, LISTEN_CONF, DATA_B3_IND
<1>2. Still(c, e) /\ Minded(c, c)
  BY MindedStill, NamesHold DEF NamesAreIn, Lined, Shaped, Still
<1> HIDE DEF e
<1>3. Minded(c, e) /\ Lined(e)
  BY <1>2, MindedStill DEF Still
<1>4. Minded(c, Release(e))
  BY <1>3, ReleaseMinds, MindedTwice
<1>5. Minded(c, Put(c, Msg("DISCONNECT_B3_REQ", msg.id)))
      /\ Minded(c, Put(c, Msg("DISCONNECT_REQ", msg.id)))
  BY PutMinds, RequestsAreOrdinary
<1>6. Minded(c, DataB3Conf(c, msg.h, TRUE)) /\ Minded(c, StopReceive(c))
      /\ Minded(c, DisconnectReq(c, TRUE))
  BY DataB3ConfMinds, StopReceiveMinds, DisconnectReqMinds
<1>7. Minded(c, d)
  BY <1>1, <1>2, <1>4, <1>5, <1>6
<1>8. msg.m \notin {"CONNECT_IND", "DISCONNECT_IND", "CONNECT_CONF"}
  OBVIOUS
<1> QED
  BY <1>7, <1>8, MindedReads

(* The call is accepted, by the channel that has the connection.           *)
LEMMA IncomingCallMinds ==
  ASSUME NEW c, Lined(c), c.appl, NEW d, d = IncomingCall(c), NEW msg
  PROVE  /\ Lined(d) /\ d.plci = c.plci /\ Added(c.down, d.down, d.plci, msg)
<1> DEFINE e == [c EXCEPT !.cs = "D_ConnectPending", !.active = TRUE, !.ddi = FALSE]
           r == Msg("CONNECT_RESP", c.plci)
           f == Put(e, r)
<1>1. Lined(e) /\ e.plci = c.plci /\ e.down = c.down /\ e.appl
  BY NamesHold DEF NamesAreIn, Lined, Shaped
<1>2. d = CallBegins(f)
  BY DEF IncomingCall
<1>3. \A p \in Plcis : (Accepts(r, p) => c.plci = p) /\ ~LetsGo(r, p)
  BY DEF Accepts, LetsGo, Msg
<1> HIDE DEF e, r
<1>4. Lined(f) /\ f.plci = e.plci /\ Added(e.down, f.down, c.plci, msg)
  BY <1>1, <1>3, AddedPut
<1> HIDE DEF f
<1>5. Still(f, d)
  BY <1>2, <1>4, NamesHold DEF NamesAreIn, Lined, Shaped, Still, CallBegins
<1> QED
  BY <1>1, <1>4, <1>5 DEF Still

(* INFO_IND: the number of a waiting call goes on, and the call is         *)
(* accepted or not.                                                        *)
LEMMA InfoIndMinds ==
  ASSUME NEW c, Lined(c), c.cs # "Releasing" => c.appl, NEW msg, msg.m = "INFO_IND",
         NEW complete, NEW claimed, NEW d, d = INFO_IND(c, msg, complete, claimed)
  PROVE  Attends(c, d, msg)
<1>1. d = c \/ (c.cs # "Releasing" /\ (d = HangUp(c, FALSE) \/ d = IncomingCall(c)))
  BY DEF INFO_IND
<1>2. CASE d = c \/ (c.cs # "Releasing" /\ d = HangUp(c, FALSE))
  <2>1. Still(c, c)
    BY DEF Still
  <2>2. Minded(c, d)
    BY <1>2, <2>1, MindedStill, HangUpMinds
  <2> QED
    BY <2>2, MindedReads
<1>3. CASE c.cs # "Releasing" /\ d = IncomingCall(c)
  <2>1. /\ Lined(d) /\ d.plci = c.plci /\ Added(c.down, d.down, d.plci, msg)
    BY <1>3, IncomingCallMinds
  <2>2. Settles(c, d, msg)
    BY <2>1 DEF Settles, SetsUp, TakesDown
  <2> QED
    BY <1>3, <2>1, <2>2 DEF Attends
<1> QED
  BY <1>1, <1>2, <1>3

(* CONNECT_IND: the channel takes the connection or refuses it.            *)
LEMMA ConnectIndMinds ==
  ASSUME NEW c, Lined(c), c.cs # "Releasing" => c.appl, NEW msg, msg.m = "CONNECT_IND",
         c.cs = "Registered" => c.plci = 0,
         NEW found, NEW claimed, NEW d, d = CONNECT_IND(c, msg, found, claimed)
  PROVE  Attends(c, d, msg)
<1> DEFINE e == [c EXCEPT !.cs = "D_ConnectIndication", !.plci = msg.id]
           r == No("CONNECT_RESP", msg.id)
           f == [e EXCEPT !.active = TRUE, !.ddi = TRUE]
           b == [e EXCEPT !.active = TRUE, !.phase = "unseen"]
           g == [e EXCEPT !.cs = "D_DisconnectPending", !.timer = "disconnect"]
           k == [ResetValues(Put(e, r)) EXCEPT !.cs = "Registered"]
<1>1. /\ r.m = "CONNECT_RESP" /\ r.ok = FALSE /\ r.id = msg.id
      /\ Ordinary(r)
      /\ \A p \in Plcis : ~Accepts(r, p) /\ ~LetsGo(r, p) /\ (SetsUp(msg, p) => Refuses(r, p))
  BY DEF No, Msg, Ordinary, Accepts, Refuses, LetsGo, SetsUp
<1>2. /\ Lined(e) /\ e.plci = msg.id /\ e.down = c.down /\ e.appl = c.appl
      /\ e.cs = "D_ConnectIndication"
  BY NamesHold DEF NamesAreIn, Lined, Shaped
<1>3. \/ c.cs # "Registered" /\ d = Put(c, r)
      \/ c.cs = "Registered" /\ (d = k \/ d \in {f, b} \/ d = Put(g, r) \/ d = IncomingCall(e))
  <2>1. Reject(e) = k
    BY <1>2 DEF Reject
  <2>2. HangUp(e, FALSE) = Put(g, r)
    BY <1>2 DEF HangUp
  <2> QED
    BY <2>1, <2>2 DEF CONNECT_IND
<1> HIDE DEF e, r
<1>4. CASE c.cs # "Registered" /\ d = Put(c, r)
  <2>1. CASE c.cs = "Releasing"
    <3>1. Minded(c, d)
      BY <1>1, <1>4, PutMinds
    <3> QED
      BY <2>1, <3>1 DEF Minded, Attends
  <2>2. CASE c.cs # "Releasing"
    <3>1. /\ Lined(d) /\ d.cs = c.cs /\ d.plci = c.plci
          /\ Added(c.down, d.down, d.plci, msg)
          /\ \E i \in DOMAIN d.down \ DOMAIN c.down : d.down[i] = r
      BY <1>1, <1>4, <2>2, AddedPut
    <3>2. Settles(c, d, msg)
      BY <1>1, <3>1 DEF Settles, TakesDown
    <3> QED
      BY <2>2, <3>1, <3>2 DEF Attends
  <2> QED
    BY <2>1, <2>2
<1>5. CASE c.cs = "Registered" /\ d = k
  <2> DEFINE n == Put(e, r)
  <2>1. /\ Lined(n) /\ Added(c.down, n.down, 0, msg)
        /\ \E i \in DOMAIN n.down \ DOMAIN c.down : n.down[i] = r
    BY <1>1, <1>2, <1>5, AddedPut
  <2>2. Lined(d) /\ d.plci = 0 /\ d.down = n.down
    BY <1>5, <2>1, NamesHold DEF NamesAreIn, Lined, Shaped, ResetValues
  <2> HIDE DEF n
  <2>3. Settles(c, d, msg)
    BY <1>1, <1>5, <2>1, <2>2 DEF Settles, TakesDown
  <2> QED
    BY <1>5, <2>2, <2>3 DEF Attends
<1>6. CASE c.cs = "Registered" /\ d \in {f, b}
  <2>1. Lined(d) /\ d.plci = msg.id /\ d.down = c.down
    BY <1>2, <1>6, NamesHold DEF NamesAreIn, Lined, Shaped
  <2>2. Added(c.down, d.down, d.plci, msg)
    BY <2>1 DEF Added
  <2>3. Settles(c, d, msg)
    BY <1>6, <2>1, <2>2 DEF Settles, SetsUp, TakesDown
  <2> QED
    BY <1>6, <2>1, <2>3 DEF Attends
<1>7. CASE c.cs = "Registered" /\ d = Put(g, r)
  <2>1. Lined(g) /\ g.plci = msg.id /\ g.down = c.down /\ g.appl = c.appl
    BY <1>2, NamesHold DEF NamesAreIn, Lined, Shaped
  <2> HIDE DEF g
  <2>2. /\ Lined(d) /\ d.plci = msg.id /\ Added(c.down, d.down, d.plci, msg)
    BY <1>1, <1>7, <2>1, AddedPut
  <2>3. Settles(c, d, msg)
    BY <1>7, <2>2 DEF Settles, SetsUp, TakesDown
  <2> QED
    BY <1>7, <2>2, <2>3 DEF Attends
<1>8. CASE c.cs = "Registered" /\ d = IncomingCall(e)
  <2>1. Lined(d) /\ d.plci = msg.id /\ Added(c.down, d.down, d.plci, msg)
    BY <1>2, <1>8, IncomingCallMinds
  <2>2. Settles(c, d, msg)
    BY <1>8, <2>1 DEF Settles, SetsUp, TakesDown
  <2> QED
    BY <1>8, <2>1, <2>2 DEF Attends
<1> QED
  BY <1>3, <1>4, <1>5, <1>6, <1>7, <1>8

(* DISCONNECT_IND: the channel lets go of the connection, whosever it was. *)
LEMMA DisconnectIndMindsIt ==
  ASSUME NEW c, Lined(c), c.cs # "Releasing" => c.appl, NEW msg, msg.m = "DISCONNECT_IND",
         c.cs = "Releasing" => msg.id # c.plci, msg.id # 0,
         NEW d, d = DISCONNECT_IND(c, msg)
  PROVE  Attends(c, d, msg)
<1> DEFINE r == Msg("DISCONNECT_RESP", msg.id)
           e == Put(c, r)
           f == [ResetValues(e) EXCEPT !.timer = "none", !.cs = "Registered"]
<1>1. \A p \in Plcis : ~Accepts(r, p) /\ (LetsGo(r, p) <=> TakesDown(msg, p))
  BY DEF Msg, Accepts, LetsGo, TakesDown
<1>2. \/ msg.id # c.plci /\ d = e
      \/ msg.id = c.plci /\ d = DisconnectInd(f)
  BY DEF DISCONNECT_IND
<1> HIDE DEF r
<1>3. CASE c.cs = "Releasing"
  <2>1. Shaped(d) /\ d.cs = c.cs /\ d = e
    BY <1>2, <1>3, NamesHold DEF NamesAreIn, Lined, Shaped, Put
  <2>2. Lined(d)
    <3>1. PICK S : c.down \in Seq(S)
      BY DEF Lined
    <3>2. d.down = Append(c.down, r) \/ d.down = c.down
      BY <2>1, NamesHold DEF NamesAreIn, Lined, Shaped, Put
    <3>3. c.down \in Seq(S \cup {r}) /\ r \in S \cup {r}
      BY <3>1
    <3>4. Append(c.down, r) \in Seq(S \cup {r})
      BY <3>3
    <3>5. d.down \in Seq(S \cup {r})
      BY <3>2, <3>3, <3>4
    <3> QED
      BY <2>1, <3>5 DEF Lined
  <2> QED
    BY <1>3, <2>1, <2>2 DEF Attends
<1>4. ASSUME c.cs # "Releasing" PROVE Attends(c, d, msg)
  <2>1. /\ Lined(e) /\ e.plci = c.plci
        /\ \A y : Added(c.down, e.down, y, msg)
        /\ \E i \in DOMAIN e.down \ DOMAIN c.down : e.down[i] = r
    <3>1. ASSUME NEW y PROVE Added(c.down, e.down, y, msg)
      BY <1>1, <1>4, AddedPut
    <3> QED
      BY <1>1, <1>4, <3>1, AddedPut
  <2> HIDE DEF e
  <2>2. CASE msg.id # c.plci /\ d = e
    <3>1. Settles(c, d, msg)
      BY <1>1, <2>1, <2>2 DEF Settles, SetsUp, TakesDown
    <3> QED
      BY <1>4, <2>1, <2>2, <3>1 DEF Attends
  <2>3. CASE msg.id = c.plci /\ d = DisconnectInd(f)
    <3>1. Lined(f) /\ f.plci = 0 /\ f.down = e.down /\ f.cs = "Registered"
      BY <2>1, NamesHold DEF NamesAreIn, Lined, Shaped, ResetValues
    <3> HIDE DEF f
    <3>2. Minded(f, d)
      BY <2>3, <3>1, DisconnectIndMinds
    <3>3. ASSUME d.cs # "Releasing" PROVE Settles(c, d, msg)
      <4>1. d.plci = 0 /\ Mild(e.down, d.down)
        BY <3>1, <3>2, <3>3 DEF Minded
      <4>2. /\ Added(c.down, d.down, d.plci, msg)
            /\ \E i \in DOMAIN d.down \ DOMAIN c.down : d.down[i] = r
        BY <2>1, <4>1, AddedMild
      <4>3. \A p \in Plcis : TakesDown(msg, p) => d.plci # p
        BY <4>1 DEF TakesDown
      <4> QED
        BY <1>1, <2>3, <4>1, <4>2, <4>3 DEF Settles, SetsUp, TakesDown
    <3> QED
      BY <1>4, <3>2, <3>3 DEF Minded, Attends
  <2> QED
    BY <1>2, <2>2, <2>3
<1> QED
  BY <1>3, <1>4

-----------------------------------------------------------------------------
(* The connections of the driver                                           *)

(* The connection p comes up and goes down once in the reports q that are  *)
(* not read and the requests a that are not taken, and the channel, whose  *)
(* PLCI is x, lets go of it when it has lost it.                           *)
Once(q, a, x, p) ==
  /\ \A i, j \in DOMAIN q : SetsUp(q[i], p) /\ SetsUp(q[j], p) => i = j
  /\ \A i, j \in DOMAIN q : TakesDown(q[i], p) /\ TakesDown(q[j], p) => i = j
  /\ \A i, j \in DOMAIN q : SetsUp(q[i], p) /\ TakesDown(q[j], p) => i < j
  /\ \A i \in DOMAIN q : SetsUp(q[i], p) =>
       q[i].ok /\ x # p /\ \A j \in DOMAIN a : ~Accepts(a[j], p) /\ ~LetsGo(a[j], p)
  /\ \A j \in DOMAIN a : LetsGo(a[j], p) =>
       /\ x # p /\ \A i \in DOMAIN q : ~TakesDown(q[i], p)
       /\ \A i \in DOMAIN a : LetsGo(a[i], p) => i = j
       /\ \A i \in DOMAIN a : Accepts(a[i], p) => i < j

(* The driver, where the connection p is in the state d, is waited for by  *)
(* the channel or waits for a request that is on its way.                  *)
Attended(d, q, a, x, p) ==
  /\ d # "down" => /\ \A i \in DOMAIN q : ~TakesDown(q[i], p)
                   /\ \A j \in DOMAIN a : ~LetsGo(a[j], p)
  /\ d = "none" => /\ x # p /\ \A i \in DOMAIN q : ~SetsUp(q[i], p)
                   /\ \A j \in DOMAIN a : ~Accepts(a[j], p)
  /\ d = "down" => \/ \E i \in DOMAIN q : TakesDown(q[i], p)
                   \/ \E j \in DOMAIN a : LetsGo(a[j], p)
  /\ d \in LiveD => \/ x = p \/ \E i \in DOMAIN q : SetsUp(q[i], p)
                    \/ /\ d = "in" /\ \E j \in DOMAIN a : Refuses(a[j], p)
                       /\ \A j \in DOMAIN a : ~Accepts(a[j], p)
  /\ d \in LiveD \ {"in"} => \A i \in DOMAIN q : q[i].m = "CONNECT_IND" => q[i].id # p

Minds(c, v, q) ==
  c.cs # "Releasing" =>
    \A p \in Plcis : /\ Once(q, c.down, c.plci, p)
                     /\ Attended(v.link[p].d, q, c.down, c.plci, p)

(* b is a without its first k elements.                                    *)
Shifted(a, b, k) ==
  /\ k \in {0, 1}
  /\ \A i \in DOMAIN b : i \in Nat \ {0} /\ i + k \in DOMAIN a /\ b[i] = a[i + k]
  /\ \A i \in DOMAIN a : i \in Nat \ {0} /\ (i <= k \/ (i - k \in DOMAIN b /\ b[i - k] = a[i]))

(* The first element is taken.                                             *)
LEMMA TailShifts ==
  ASSUME NEW S, NEW a \in Seq(S), a # <<>>
  PROVE  /\ Shifted(a, Tail(a), 1) /\ 1 \in DOMAIN a /\ Head(a) = a[1]
         /\ Tail(a) \in Seq(S)
<1>1. /\ Len(a) \in Nat \ {0} /\ DOMAIN a = 1 .. Len(a) /\ Head(a) = a[1]
      /\ Tail(a) \in Seq(S) /\ Len(Tail(a)) = Len(a) - 1
      /\ \A i \in 1 .. Len(Tail(a)) : Tail(a)[i] = a[i + 1]
  BY HeadTailProperties, EmptySeq, LenProperties
<1>2. DOMAIN Tail(a) = 1 .. Len(a) - 1
  BY <1>1
<1> QED
  BY <1>1, <1>2 DEF Shifted

(* None is taken.                                                          *)
LEMMA NothingShifts ==
  ASSUME NEW S, NEW a \in Seq(S)
  PROVE  Shifted(a, a, 0)
BY DEF Shifted

(* What a handler that reads the first report makes of the connection p.   *)
LEMMA OnceReads ==
  ASSUME NEW q, NEW w, Shifted(q, w, 1), 1 \in DOMAIN q, NEW p \in Plcis,
         NEW c, NEW d, Settles(c, d, q[1]), NEW k,
         Once(q, c.down, c.plci, p), Attended(k, q, c.down, c.plci, p)
  PROVE  Once(w, d.down, d.plci, p) /\ Attended(k, w, d.down, d.plci, p)
<1> DEFINE a == c.down
           b == d.down
           x == c.plci
           y == d.plci
           m == q[1]
<1>0. p # 0
  BY DriverAssumption
<1>1. /\ \A i \in DOMAIN w : i \in Nat \ {0} /\ i + 1 \in DOMAIN q /\ w[i] = q[i + 1]
      /\ \A i \in DOMAIN q : i \in Nat \ {0} /\ (i = 1 \/ (i - 1 \in DOMAIN w /\ w[i - 1] = q[i]))
  BY DEF Shifted
<1>2. /\ y = x \/ (x = 0 /\ SetsUp(m, y)) \/ (TakesDown(m, x) /\ y = 0)
      /\ Added(a, b, y, m)
      /\ SetsUp(m, p) /\ m.ok =>
           \/ y = p
           \/ m.m = "CONNECT_IND" /\ \E i \in DOMAIN b \ DOMAIN a : Refuses(b[i], p)
      /\ TakesDown(m, p) =>
           y # p /\ \E i \in DOMAIN b \ DOMAIN a : LetsGo(b[i], p)
  BY DEF Settles
<1>3. /\ DOMAIN a \subseteq DOMAIN b /\ \A i \in DOMAIN a : b[i] = a[i]
      /\ \A i \in DOMAIN b \ DOMAIN a : Accepts(b[i], p) => y = p
      /\ \A i \in DOMAIN b \ DOMAIN a : LetsGo(b[i], p) => TakesDown(m, p)
      /\ \A i \in DOMAIN b \ DOMAIN a : \A j \in DOMAIN a : j < i
      /\ \A i, j \in DOMAIN b \ DOMAIN a : LetsGo(b[i], p) /\ LetsGo(b[j], p) => i = j
  BY <1>2 DEF Added, LetsGo
<1>4. SetsUp(m, p) => ~TakesDown(m, p)
  BY DEF SetsUp, TakesDown
<1>5. ~TakesDown(m, p) /\ ~SetsUp(m, p) => (x = p <=> y = p)
  BY <1>0, <1>2
<1>6. /\ \A i, j \in DOMAIN q : SetsUp(q[i], p) /\ SetsUp(q[j], p) => i = j
      /\ \A i, j \in DOMAIN q : TakesDown(q[i], p) /\ TakesDown(q[j], p) => i = j
      /\ \A i, j \in DOMAIN q : SetsUp(q[i], p) /\ TakesDown(q[j], p) => i < j
      /\ \A i \in DOMAIN q : SetsUp(q[i], p) =>
           q[i].ok /\ x # p /\ \A j \in DOMAIN a : ~Accepts(a[j], p) /\ ~LetsGo(a[j], p)
      /\ \A j \in DOMAIN a : LetsGo(a[j], p) =>
           /\ x # p /\ \A i \in DOMAIN q : ~TakesDown(q[i], p)
           /\ \A i \in DOMAIN a : LetsGo(a[i], p) => i = j
           /\ \A i \in DOMAIN a : Accepts(a[i], p) => i < j
  BY DEF Once
<1>7. /\ k # "down" => /\ \A i \in DOMAIN q : ~TakesDown(q[i], p)
                       /\ \A j \in DOMAIN a : ~LetsGo(a[j], p)
      /\ k = "none" => /\ x # p /\ \A i \in DOMAIN q : ~SetsUp(q[i], p)
                       /\ \A j \in DOMAIN a : ~Accepts(a[j], p)
      /\ k = "down" => \/ \E i \in DOMAIN q : TakesDown(q[i], p)
                       \/ \E j \in DOMAIN a : LetsGo(a[j], p)
      /\ k \in LiveD => \/ x = p \/ \E i \in DOMAIN q : SetsUp(q[i], p)
                        \/ /\ k = "in" /\ \E j \in DOMAIN a : Refuses(a[j], p)
                           /\ \A j \in DOMAIN a : ~Accepts(a[j], p)
      /\ k \in LiveD \ {"in"} => \A i \in DOMAIN q : q[i].m = "CONNECT_IND" => q[i].id # p
  BY DEF Attended
<1>8. SetsUp(m, p) <=> m.m \in {"CONNECT_CONF", "CONNECT_IND"} /\ m.id = p
  BY DEF SetsUp
<1>9. "down" \notin LiveD /\ "none" \notin LiveD
  BY DEF LiveD
<1> HIDE DEF a, b, x, y, m
<1>10. /\ \A i, j \in DOMAIN w : SetsUp(w[i], p) /\ SetsUp(w[j], p) => i = j
       /\ \A i, j \in DOMAIN w : TakesDown(w[i], p) /\ TakesDown(w[j], p) => i = j
       /\ \A i, j \in DOMAIN w : SetsUp(w[i], p) /\ TakesDown(w[j], p) => i < j
  <2>1. \A i, j \in DOMAIN w : SetsUp(w[i], p) /\ SetsUp(w[j], p) => i = j
    BY <1>1, <1>6
  <2>2. \A i, j \in DOMAIN w : TakesDown(w[i], p) /\ TakesDown(w[j], p) => i = j
    BY <1>1, <1>6
  <2>3. \A i, j \in DOMAIN w : SetsUp(w[i], p) /\ TakesDown(w[j], p) => i < j
    BY <1>1, <1>6
  <2> QED
    BY <2>1, <2>2, <2>3
<1>11. \A i \in DOMAIN w : SetsUp(w[i], p) => ~SetsUp(m, p) /\ ~TakesDown(m, p)
  BY <1>1, <1>6 DEF m
<1>12. \A i \in DOMAIN w : TakesDown(w[i], p) => ~TakesDown(m, p)
  BY <1>1, <1>6 DEF m
<1>13. SetsUp(m, p) =>
         m.ok /\ x # p /\ \A j \in DOMAIN a : ~Accepts(a[j], p) /\ ~LetsGo(a[j], p)
  BY <1>6 DEF m
<1>14. \A j \in DOMAIN a : LetsGo(a[j], p) => ~TakesDown(m, p) /\ ~SetsUp(m, p)
  BY <1>6, <1>13 DEF m
<1>15. \A i \in DOMAIN w : SetsUp(w[i], p) =>
         w[i].ok /\ y # p /\ \A j \in DOMAIN b : ~Accepts(b[j], p) /\ ~LetsGo(b[j], p)
  <2> SUFFICES ASSUME NEW i \in DOMAIN w, SetsUp(w[i], p)
               PROVE  w[i].ok /\ y # p /\ \A j \in DOMAIN b : ~Accepts(b[j], p) /\ ~LetsGo(b[j], p)
    OBVIOUS
  <2>1. w[i].ok /\ x # p /\ \A j \in DOMAIN a : ~Accepts(a[j], p) /\ ~LetsGo(a[j], p)
    BY <1>1, <1>6
  <2>2. y # p /\ ~TakesDown(m, p)
    BY <1>5, <1>11, <2>1
  <2> QED
    BY <1>3, <2>1, <2>2
<1>16. \A j \in DOMAIN b : LetsGo(b[j], p) =>
         /\ y # p /\ \A i \in DOMAIN w : ~TakesDown(w[i], p)
         /\ \A i \in DOMAIN b : LetsGo(b[i], p) => i = j
         /\ \A i \in DOMAIN b : Accepts(b[i], p) => i < j
  <2> SUFFICES ASSUME NEW j \in DOMAIN b, LetsGo(b[j], p)
               PROVE  /\ y # p /\ \A i \in DOMAIN w : ~TakesDown(w[i], p)
                      /\ \A i \in DOMAIN b : LetsGo(b[i], p) => i = j
                      /\ \A i \in DOMAIN b : Accepts(b[i], p) => i < j
    OBVIOUS
  <2>1. CASE j \in DOMAIN a
    <3>1. LetsGo(a[j], p)
      BY <1>3, <2>1
    <3>2. ~TakesDown(m, p) /\ ~SetsUp(m, p) /\ x # p
      BY <1>6, <1>14, <2>1, <3>1
    <3>3. y # p /\ \A i \in DOMAIN b \ DOMAIN a : ~LetsGo(b[i], p) /\ ~Accepts(b[i], p)
      BY <1>3, <1>5, <3>2
    <3>4. \A i \in DOMAIN w : ~TakesDown(w[i], p)
      BY <1>1, <1>6, <2>1, <3>1
    <3> QED
      BY <1>3, <1>6, <2>1, <3>1, <3>3, <3>4
  <2>2. CASE j \notin DOMAIN a
    <3>1. TakesDown(m, p) /\ y # p
      BY <1>2, <1>3, <2>2
    <3>2. \A i \in DOMAIN b \ DOMAIN a : ~Accepts(b[i], p)
      BY <1>3, <3>1
    <3>3. \A i \in DOMAIN a : ~LetsGo(a[i], p)
      BY <1>14, <3>1
    <3>4. \A i \in DOMAIN w : ~TakesDown(w[i], p)
      BY <1>12, <3>1
    <3>5. \A i \in DOMAIN b : LetsGo(b[i], p) => i = j
      BY <1>3, <2>2, <3>3
    <3>6. \A i \in DOMAIN b : Accepts(b[i], p) => i < j
      BY <1>3, <2>2, <3>2
    <3> QED
      BY <3>1, <3>4, <3>5, <3>6
  <2> QED
    BY <2>1, <2>2
<1>17. Once(w, b, y, p)
  BY <1>10, <1>15, <1>16 DEF Once
<1>18. k # "down" => /\ ~TakesDown(m, p)
                     /\ \A i \in DOMAIN w : ~TakesDown(w[i], p)
                     /\ \A j \in DOMAIN b : ~LetsGo(b[j], p)
  <2> SUFFICES ASSUME k # "down"
               PROVE  /\ ~TakesDown(m, p)
                      /\ \A i \in DOMAIN w : ~TakesDown(w[i], p)
                      /\ \A j \in DOMAIN b : ~LetsGo(b[j], p)
    OBVIOUS
  <2>1. ~TakesDown(m, p) /\ \A i \in DOMAIN w : ~TakesDown(w[i], p)
    BY <1>1, <1>7 DEF m
  <2> QED
    BY <1>3, <1>7, <2>1
<1>19. k = "none" => /\ y # p /\ \A i \in DOMAIN w : ~SetsUp(w[i], p)
                     /\ \A j \in DOMAIN b : ~Accepts(b[j], p)
  <2> SUFFICES ASSUME k = "none"
               PROVE  /\ y # p /\ \A i \in DOMAIN w : ~SetsUp(w[i], p)
                      /\ \A j \in DOMAIN b : ~Accepts(b[j], p)
    OBVIOUS
  <2>1. ~SetsUp(m, p) /\ \A i \in DOMAIN w : ~SetsUp(w[i], p)
    BY <1>1, <1>7 DEF m
  <2>2. y # p
    BY <1>5, <1>7, <1>18, <2>1
  <2> QED
    BY <1>3, <1>7, <2>1, <2>2
<1>20. k = "down" => \/ \E i \in DOMAIN w : TakesDown(w[i], p)
                     \/ \E j \in DOMAIN b : LetsGo(b[j], p)
  <2>1. ASSUME NEW i \in DOMAIN q, TakesDown(q[i], p), i # 1
        PROVE  \E j \in DOMAIN w : TakesDown(w[j], p)
    BY <1>1, <2>1
  <2>2. TakesDown(m, p) => \E j \in DOMAIN b : LetsGo(b[j], p)
    BY <1>2
  <2>3. ASSUME NEW j \in DOMAIN a, LetsGo(a[j], p)
        PROVE  \E i \in DOMAIN b : LetsGo(b[i], p)
    BY <1>3, <2>3
  <2> QED
    BY <1>7, <2>1, <2>2, <2>3 DEF m
<1>21. k \in LiveD => \/ y = p \/ \E i \in DOMAIN w : SetsUp(w[i], p)
                      \/ /\ k = "in" /\ \E j \in DOMAIN b : Refuses(b[j], p)
                         /\ \A j \in DOMAIN b : ~Accepts(b[j], p)
  <2> SUFFICES ASSUME k \in LiveD, y # p, \A i \in DOMAIN w : ~SetsUp(w[i], p)
               PROVE  /\ k = "in" /\ \E j \in DOMAIN b : Refuses(b[j], p)
                      /\ \A j \in DOMAIN b : ~Accepts(b[j], p)
    OBVIOUS
  <2>1. ~TakesDown(m, p)
    BY <1>9, <1>18
  <2>2. CASE SetsUp(m, p)
    <3>1. m.m = "CONNECT_IND" /\ \E i \in DOMAIN b \ DOMAIN a : Refuses(b[i], p)
      BY <1>2, <1>13, <2>2
    <3>2. k = "in"
      BY <1>7, <1>8, <2>2, <3>1 DEF m
    <3>3. \A j \in DOMAIN b : ~Accepts(b[j], p)
      BY <1>3, <1>13, <2>2
    <3> QED
      BY <3>1, <3>2, <3>3
  <2>3. CASE ~SetsUp(m, p)
    <3>1. x # p
      BY <1>5, <2>1, <2>3
    <3>2. \A i \in DOMAIN q : ~SetsUp(q[i], p)
      BY <1>1, <2>3 DEF m
    <3>3. /\ k = "in" /\ \E j \in DOMAIN a : Refuses(a[j], p)
          /\ \A j \in DOMAIN a : ~Accepts(a[j], p)
      BY <1>7, <3>1, <3>2
    <3>4. \E j \in DOMAIN b : Refuses(b[j], p)
      BY <1>3, <3>3
    <3>5. \A j \in DOMAIN b : ~Accepts(b[j], p)
      BY <1>3, <3>3
    <3> QED
      BY <3>3, <3>4, <3>5
  <2> QED
    BY <2>2, <2>3
<1>22. k \in LiveD \ {"in"} => \A i \in DOMAIN w : w[i].m = "CONNECT_IND" => w[i].id # p
  BY <1>1, <1>7
<1>23. Attended(k, w, b, y, p)
  BY <1>18, <1>19, <1>20, <1>21, <1>22 DEF Attended
<1> QED
  BY <1>17, <1>23 DEF b, y

(* The handler of the report at the head.                                  *)
LEMMA MindsReads ==
  ASSUME NEW c, NEW d, NEW v, NEW S, NEW q \in Seq(S), q # <<>>,
         Minds(c, v, q), Attends(c, d, Head(q))
  PROVE  Minds(d, v, Tail(q))
<1>1. /\ Shifted(q, Tail(q), 1) /\ 1 \in DOMAIN q /\ Head(q) = q[1]
  BY TailShifts
<1>2. ASSUME d.cs # "Releasing", NEW p \in Plcis
      PROVE  /\ Once(Tail(q), d.down, d.plci, p)
             /\ Attended(v.link[p].d, Tail(q), d.down, d.plci, p)
  <2>1. c.cs # "Releasing" /\ Settles(c, d, q[1])
    BY <1>1, <1>2 DEF Attends
  <2>2. /\ Once(q, c.down, c.plci, p)
        /\ Attended(v.link[p].d, q, c.down, c.plci, p)
    BY <2>1 DEF Minds
  <2> QED
    BY <1>1, <2>1, <2>2, OnceReads
<1> QED
  BY <1>2 DEF Minds

(* An operation that reads no report.                                      *)
LEMMA MindsKept ==
  ASSUME NEW c, NEW d, NEW v, NEW q, Minds(c, v, q), Minded(c, d)
  PROVE  Minds(d, v, q)
<1> SUFFICES ASSUME d.cs # "Releasing", NEW p \in Plcis
             PROVE  /\ Once(q, d.down, d.plci, p)
                    /\ Attended(v.link[p].d, q, d.down, d.plci, p)
  BY DEF Minds
<1> DEFINE a == c.down
           b == d.down
           x == c.plci
           k == v.link[p].d
<1>1. d.plci = x /\ c.cs # "Releasing" /\ Mild(a, b)
  BY DEF Minded
<1>2. Once(q, a, x, p) /\ Attended(k, q, a, x, p)
  BY <1>1 DEF Minds
<1>3. /\ DOMAIN a \subseteq DOMAIN b /\ \A i \in DOMAIN a : b[i] = a[i]
      /\ \A i \in DOMAIN b : LetsGo(b[i], p) \/ Accepts(b[i], p) => i \in DOMAIN a
  BY <1>1 DEF Mild, Ordinary, LetsGo, Accepts
<1> HIDE DEF a, b, x, k
<1>4. /\ \A i \in DOMAIN b : LetsGo(b[i], p) => i \in DOMAIN a /\ LetsGo(a[i], p)
      /\ \A i \in DOMAIN b : Accepts(b[i], p) => i \in DOMAIN a /\ Accepts(a[i], p)
      /\ (\E i \in DOMAIN a : LetsGo(a[i], p)) => \E i \in DOMAIN b : LetsGo(b[i], p)
      /\ (\E i \in DOMAIN a : Refuses(a[i], p)) => \E i \in DOMAIN b : Refuses(b[i], p)
  BY <1>3
<1>5. Once(q, b, x, p)
  BY <1>2, <1>4 DEF Once
<1>6. Attended(k, q, b, x, p)
  BY <1>2, <1>4 DEF Attended
<1> QED
  BY <1>1, <1>5, <1>6 DEF b, x, k

-----------------------------------------------------------------------------
(* What the driver does                                                    *)

Mute(msgs, p) == \A i \in DOMAIN msgs : ~SetsUp(msgs[i], p) /\ ~TakesDown(msgs[i], p)

Harmless(r, p) == ~Accepts(r, p) /\ ~Refuses(r, p) /\ ~LetsGo(r, p)

(* With the request r and the reports msgs, the connection p goes from the *)
(* state k to l.                                                           *)
Moved(k, l, r, msgs, p) ==
  \/ /\ l = k /\ Mute(msgs, p) /\ (LetsGo(r, p) => k # "down")
     /\ Accepts(r, p) \/ Refuses(r, p) => k # "in"
  \/ /\ k = "none" /\ l \in {"out", "in"}
     /\ \E m : msgs = <<m>> /\ SetsUp(m, p) /\ m.ok /\ (l = "out" => m.m = "CONNECT_CONF")
  \/ k = "in" /\ l = "acc" /\ Accepts(r, p) /\ Mute(msgs, p)
  \/ k \in {"out", "acc"} /\ l = "active" /\ Mute(msgs, p)
  \/ k \in LiveD /\ l = "closing" /\ Mute(msgs, p)
  \/ k = "closing" /\ l = "down" /\ \E m : msgs = <<m>> /\ TakesDown(m, p)
  \/ k = "down" /\ l = "none" /\ LetsGo(r, p) /\ Mute(msgs, p)

(* w is q with the report m at its end.                                    *)
Longer(q, w, m) ==
  \E z \in DOMAIN w : /\ DOMAIN w = DOMAIN q \cup {z} /\ w[z] = m
                      /\ \A i \in DOMAIN q : i < z /\ w[i] = q[i]

(* A report is added.                                                      *)
LEMMA LongerBy ==
  ASSUME NEW S, NEW q \in Seq(S), NEW m \in S
  PROVE  Longer(q, q \o <<m>>, m)
<1>1. /\ Len(q) \in Nat /\ DOMAIN q = 1 .. Len(q)
      /\ q \o <<m>> = Append(q, m)
      /\ DOMAIN (q \o <<m>>) = 1 .. Len(q) + 1 /\ (q \o <<m>>)[Len(q) + 1] = m
      /\ \A i \in 1 .. Len(q) : (q \o <<m>>)[i] = q[i]
  OBVIOUS
<1>2. 1 .. Len(q) + 1 = (1 .. Len(q)) \cup {Len(q) + 1}
  BY <1>1
<1> QED
  BY <1>1, <1>2 DEF Longer

(* The driver takes a request.                                             *)
LEMMA OnceTaken ==
  ASSUME NEW q, NEW a, NEW x, NEW p \in Plcis, Once(q, a, x, p), NEW b, NEW n, Shifted(a, b, n)
  PROVE  Once(q, b, x, p)
<1>1. /\ \A i \in DOMAIN b : i \in Nat \ {0} /\ i + n \in DOMAIN a /\ b[i] = a[i + n]
      /\ n \in {0, 1}
  BY DEF Shifted
<1>2. \A i \in DOMAIN q : SetsUp(q[i], p) =>
        q[i].ok /\ x # p /\ \A j \in DOMAIN b : ~Accepts(b[j], p) /\ ~LetsGo(b[j], p)
  BY <1>1 DEF Once
<1>3. \A j \in DOMAIN b : LetsGo(b[j], p) =>
        /\ x # p /\ \A i \in DOMAIN q : ~TakesDown(q[i], p)
        /\ \A i \in DOMAIN b : LetsGo(b[i], p) => i = j
        /\ \A i \in DOMAIN b : Accepts(b[i], p) => i < j
  <2> SUFFICES ASSUME NEW j \in DOMAIN b, LetsGo(b[j], p)
               PROVE  /\ x # p /\ \A i \in DOMAIN q : ~TakesDown(q[i], p)
                      /\ \A i \in DOMAIN b : LetsGo(b[i], p) => i = j
                      /\ \A i \in DOMAIN b : Accepts(b[i], p) => i < j
    OBVIOUS
  <2>1. j + n \in DOMAIN a /\ LetsGo(a[j + n], p)
    BY <1>1
  <2>2. /\ x # p /\ \A i \in DOMAIN q : ~TakesDown(q[i], p)
        /\ \A i \in DOMAIN a : LetsGo(a[i], p) => i = j + n
        /\ \A i \in DOMAIN a : Accepts(a[i], p) => i < j + n
    BY <2>1 DEF Once
  <2>3. ASSUME NEW i \in DOMAIN b, LetsGo(b[i], p) PROVE i = j
    BY <1>1, <2>2, <2>3
  <2>4. ASSUME NEW i \in DOMAIN b, Accepts(b[i], p) PROVE i < j
    BY <1>1, <2>2, <2>4
  <2> QED
    BY <2>2, <2>3, <2>4
<1> QED
  BY <1>2, <1>3 DEF Once

(* A report of neither kind changes nothing.                               *)
LEMMA OnceMute ==
  ASSUME NEW q, NEW a, NEW x, NEW p, Once(q, a, x, p), NEW w, NEW m, Longer(q, w, m),
         ~SetsUp(m, p), ~TakesDown(m, p)
  PROVE  Once(w, a, x, p)
<1>1. /\ \A i \in DOMAIN w : SetsUp(w[i], p) => i \in DOMAIN q /\ SetsUp(q[i], p) /\ w[i] = q[i]
      /\ \A i \in DOMAIN w : TakesDown(w[i], p) => i \in DOMAIN q /\ TakesDown(q[i], p)
  BY DEF Longer
<1> QED
  BY <1>1 DEF Once

(* A report that the connection is up.                                     *)
LEMMA OnceSetUp ==
  ASSUME NEW q, NEW a, NEW x, NEW p, NEW w, NEW m, Longer(q, w, m),
         SetsUp(m, p), m.ok, x # p, \A i \in DOMAIN q : ~SetsUp(q[i], p) /\ ~TakesDown(q[i], p),
         \A j \in DOMAIN a : ~Accepts(a[j], p) /\ ~LetsGo(a[j], p)
  PROVE  Once(w, a, x, p)
<1>1. PICK z \in DOMAIN w : /\ DOMAIN w = DOMAIN q \cup {z} /\ w[z] = m
                            /\ \A i \in DOMAIN q : i < z /\ w[i] = q[i]
  BY DEF Longer
<1>2. ~TakesDown(m, p)
  BY DEF SetsUp, TakesDown
<1>3. /\ \A i \in DOMAIN w : SetsUp(w[i], p) => i = z
      /\ \A i \in DOMAIN w : ~TakesDown(w[i], p)
  BY <1>1, <1>2
<1> QED
  BY <1>1, <1>3 DEF Once

(* A report that it is down.                                               *)
LEMMA OnceTakenDown ==
  ASSUME NEW q, NEW a, NEW x, NEW p, Once(q, a, x, p), NEW w, NEW m, Longer(q, w, m),
         TakesDown(m, p), \A i \in DOMAIN q : ~TakesDown(q[i], p),
         \A j \in DOMAIN a : ~LetsGo(a[j], p)
  PROVE  Once(w, a, x, p)
<1>1. PICK z \in DOMAIN w : /\ DOMAIN w = DOMAIN q \cup {z} /\ w[z] = m
                            /\ \A i \in DOMAIN q : i < z /\ w[i] = q[i]
  BY DEF Longer
<1>2. ~SetsUp(m, p)
  BY DEF SetsUp, TakesDown
<1>3. /\ \A i \in DOMAIN w : SetsUp(w[i], p) => i \in DOMAIN q /\ SetsUp(q[i], p) /\ w[i] = q[i]
      /\ \A i \in DOMAIN w : TakesDown(w[i], p) => i = z
  BY <1>1, <1>2
<1>4. /\ \A i, j \in DOMAIN w : SetsUp(w[i], p) /\ SetsUp(w[j], p) => i = j
      /\ \A i, j \in DOMAIN w : TakesDown(w[i], p) /\ TakesDown(w[j], p) => i = j
      /\ \A i, j \in DOMAIN w : SetsUp(w[i], p) /\ TakesDown(w[j], p) => i < j
  BY <1>1, <1>3 DEF Once
<1>5. \A i \in DOMAIN w : SetsUp(w[i], p) =>
        w[i].ok /\ x # p /\ \A j \in DOMAIN a : ~Accepts(a[j], p) /\ ~LetsGo(a[j], p)
  BY <1>3 DEF Once
<1> QED
  BY <1>4, <1>5 DEF Once

(* No report of p: the reports about it are the ones there were.           *)
SameFor(q, w, p) ==
  /\ DOMAIN q \subseteq DOMAIN w /\ \A i \in DOMAIN q : w[i] = q[i]
  /\ \A i \in DOMAIN w : SetsUp(w[i], p) \/ TakesDown(w[i], p) => i \in DOMAIN q

(* The driver takes the first n of the requests a, of which r is one, and  *)
(* sends msgs.                                                             *)
LEMMA AttendedMoves ==
  ASSUME NEW q, NEW a, NEW x, NEW p \in Plcis, NEW k, NEW l, NEW r, NEW msgs, NEW w, NEW b, NEW n,
         Once(q, a, x, p), Attended(k, q, a, x, p), Moved(k, l, r, msgs, p),
         Shifted(a, b, n), IF n = 1 THEN 1 \in DOMAIN a /\ a[1] = r ELSE Harmless(r, p),
         \/ msgs = <<>> /\ w = q
         \/ \E m : msgs = <<m>> /\ Longer(q, w, m)
  PROVE  Once(w, b, x, p) /\ Attended(l, w, b, x, p)
<1>1. Once(q, b, x, p)
  BY OnceTaken
<1>2. /\ \A i \in DOMAIN b : i \in Nat \ {0} /\ i + n \in DOMAIN a /\ b[i] = a[i + n]
      /\ \A i \in DOMAIN a : i \in Nat \ {0} /\ (i <= n \/ (i - n \in DOMAIN b /\ b[i - n] = a[i]))
      /\ n \in {0, 1}
  BY DEF Shifted
<1>3. /\ \A i \in DOMAIN b : Accepts(b[i], p) => \E j \in DOMAIN a : Accepts(a[j], p)
      /\ \A i \in DOMAIN b : LetsGo(b[i], p) => \E j \in DOMAIN a : LetsGo(a[j], p)
  BY <1>2
<1>4. \A i \in DOMAIN a : a[i] = r \/ \E j \in DOMAIN b : b[j] = a[i]
  BY <1>2
<1>5. Accepts(r, p) \/ Refuses(r, p) \/ LetsGo(r, p) => n = 1 /\ 1 \in DOMAIN a /\ a[1] = r
  BY <1>2 DEF Harmless
<1>6. SetsUp(msgs[1], p) => ~TakesDown(msgs[1], p)
  BY DEF SetsUp, TakesDown
<1>7. ASSUME Mute(msgs, p) PROVE Once(w, b, x, p) /\ SameFor(q, w, p)
  <2>1. CASE msgs = <<>> /\ w = q
    BY <1>1, <2>1 DEF SameFor
  <2>2. ASSUME NEW m, msgs = <<m>>, Longer(q, w, m)
        PROVE  Once(w, b, x, p) /\ SameFor(q, w, p)
    <3>1. ~SetsUp(m, p) /\ ~TakesDown(m, p)
      BY <1>7, <2>2 DEF Mute
    <3> QED
      BY <1>1, <2>2, <3>1, OnceMute DEF SameFor, Longer
  <2> QED
    BY <2>1, <2>2
<1>8. ASSUME SameFor(q, w, p)
      PROVE  /\ \A i \in DOMAIN w : TakesDown(w[i], p) => i \in DOMAIN q /\ TakesDown(q[i], p)
             /\ \A i \in DOMAIN w : SetsUp(w[i], p) => i \in DOMAIN q /\ SetsUp(q[i], p)
             /\ (\E i \in DOMAIN q : TakesDown(q[i], p)) => \E i \in DOMAIN w : TakesDown(w[i], p)
             /\ (\E i \in DOMAIN q : SetsUp(q[i], p)) => \E i \in DOMAIN w : SetsUp(w[i], p)
             /\ \A i \in DOMAIN w : w[i].m = "CONNECT_IND" /\ w[i].id = p =>
                  i \in DOMAIN q /\ q[i].m = "CONNECT_IND" /\ q[i].id = p
  BY <1>8 DEF SameFor, SetsUp, TakesDown
<1>9. /\ \A i \in DOMAIN q : SetsUp(q[i], p) =>
           x # p /\ \A j \in DOMAIN a : ~Accepts(a[j], p) /\ ~LetsGo(a[j], p)
      /\ \A j \in DOMAIN a : LetsGo(a[j], p) =>
           /\ x # p /\ \A i \in DOMAIN q : ~TakesDown(q[i], p)
           /\ \A i \in DOMAIN a : LetsGo(a[i], p) => i = j
           /\ \A i \in DOMAIN a : Accepts(a[i], p) => i < j
  BY DEF Once
<1>10. /\ k # "down" => /\ \A i \in DOMAIN q : ~TakesDown(q[i], p)
                        /\ \A j \in DOMAIN a : ~LetsGo(a[j], p)
       /\ k = "none" => /\ x # p /\ \A i \in DOMAIN q : ~SetsUp(q[i], p)
                        /\ \A j \in DOMAIN a : ~Accepts(a[j], p)
       /\ k = "down" => \/ \E i \in DOMAIN q : TakesDown(q[i], p)
                        \/ \E j \in DOMAIN a : LetsGo(a[j], p)
       /\ k \in LiveD => \/ x = p \/ \E i \in DOMAIN q : SetsUp(q[i], p)
                         \/ /\ k = "in" /\ \E j \in DOMAIN a : Refuses(a[j], p)
                            /\ \A j \in DOMAIN a : ~Accepts(a[j], p)
       /\ k \in LiveD \ {"in"} => \A i \in DOMAIN q : q[i].m = "CONNECT_IND" => q[i].id # p
  BY DEF Attended
<1>11. LiveD = {"out", "in", "acc", "active"}
  BY DEF LiveD
<1>12. CASE /\ l = k /\ Mute(msgs, p) /\ (LetsGo(r, p) => k # "down")
            /\ Accepts(r, p) \/ Refuses(r, p) => k # "in"
  <2>1. /\ Once(w, b, x, p) /\ SameFor(q, w, p)
    BY <1>7, <1>12
  <2>2. k # "down" => /\ \A i \in DOMAIN w : ~TakesDown(w[i], p)
                      /\ \A j \in DOMAIN b : ~LetsGo(b[j], p)
    BY <1>3, <1>8, <1>10, <2>1
  <2>3. k = "none" => /\ x # p /\ \A i \in DOMAIN w : ~SetsUp(w[i], p)
                      /\ \A j \in DOMAIN b : ~Accepts(b[j], p)
    BY <1>3, <1>8, <1>10, <2>1
  <2>4. k = "down" => \/ \E i \in DOMAIN w : TakesDown(w[i], p)
                      \/ \E j \in DOMAIN b : LetsGo(b[j], p)
    BY <1>4, <1>8, <1>10, <1>12, <2>1
  <2>5. k \in LiveD => \/ x = p \/ \E i \in DOMAIN w : SetsUp(w[i], p)
                       \/ /\ k = "in" /\ \E j \in DOMAIN b : Refuses(b[j], p)
                          /\ \A j \in DOMAIN b : ~Accepts(b[j], p)
    BY <1>3, <1>4, <1>8, <1>10, <1>12, <2>1
  <2>6. k \in LiveD \ {"in"} => \A i \in DOMAIN w : w[i].m = "CONNECT_IND" => w[i].id # p
    BY <1>8, <1>10, <2>1
  <2> QED
    BY <1>12, <2>1, <2>2, <2>3, <2>4, <2>5, <2>6 DEF Attended
<1>13. ASSUME k = "none", l \in {"out", "in"},
              NEW m, msgs = <<m>>, SetsUp(m, p), m.ok, l = "out" => m.m = "CONNECT_CONF"
       PROVE  Once(w, b, x, p) /\ Attended(l, w, b, x, p)
  <2>1. Longer(q, w, m)
    BY <1>13
  <2>2. \A j \in DOMAIN b : ~Accepts(b[j], p) /\ ~LetsGo(b[j], p)
    BY <1>3, <1>10, <1>13
  <2>3. Once(w, b, x, p)
    BY <1>10, <1>13, <2>1, <2>2, OnceSetUp
  <2>4. PICK z \in DOMAIN w : /\ DOMAIN w = DOMAIN q \cup {z} /\ w[z] = m
                              /\ \A i \in DOMAIN q : i < z /\ w[i] = q[i]
    BY <2>1 DEF Longer
  <2>5. ~TakesDown(m, p)
    BY <1>13 DEF SetsUp, TakesDown
  <2>6. \A i \in DOMAIN w : ~TakesDown(w[i], p)
    BY <1>10, <1>13, <2>4, <2>5
  <2>7. l = "out" => \A i \in DOMAIN w : w[i].m = "CONNECT_IND" => w[i].id # p
    BY <1>10, <1>13, <2>4 DEF SetsUp
  <2> QED
    BY <1>13, <2>2, <2>3, <2>4, <2>6, <2>7 DEF Attended, LiveD
<1>14. CASE k = "in" /\ l = "acc" /\ Accepts(r, p) /\ Mute(msgs, p)
  <2>1. Once(w, b, x, p) /\ SameFor(q, w, p)
    BY <1>7, <1>14
  <2>2. x = p /\ \A i \in DOMAIN q : ~SetsUp(q[i], p)
    BY <1>5, <1>9, <1>10, <1>11, <1>14
  <2>3. /\ \A i \in DOMAIN w : ~TakesDown(w[i], p)
        /\ \A j \in DOMAIN b : ~LetsGo(b[j], p)
    BY <1>3, <1>8, <1>10, <1>14, <2>1
  <2>4. \A i \in DOMAIN w : w[i].m = "CONNECT_IND" => w[i].id # p
    BY <1>8, <2>1, <2>2 DEF SetsUp
  <2> QED
    BY <1>14, <2>1, <2>2, <2>3, <2>4 DEF Attended
<1>15. CASE k \in {"out", "acc"} /\ l = "active" /\ Mute(msgs, p)
  <2>1. Once(w, b, x, p) /\ SameFor(q, w, p)
    BY <1>7, <1>15
  <2>2. /\ \A i \in DOMAIN w : ~TakesDown(w[i], p)
        /\ \A j \in DOMAIN b : ~LetsGo(b[j], p)
    BY <1>3, <1>8, <1>10, <1>15, <2>1
  <2>3. x = p \/ \E i \in DOMAIN w : SetsUp(w[i], p)
    BY <1>8, <1>10, <1>11, <1>15, <2>1
  <2>4. \A i \in DOMAIN w : w[i].m = "CONNECT_IND" => w[i].id # p
    BY <1>8, <1>10, <1>11, <1>15, <2>1
  <2> QED
    BY <1>15, <2>1, <2>2, <2>3, <2>4 DEF Attended
<1>16. CASE k \in LiveD /\ l = "closing" /\ Mute(msgs, p)
  <2>1. Once(w, b, x, p) /\ SameFor(q, w, p)
    BY <1>7, <1>16
  <2>2. /\ \A i \in DOMAIN w : ~TakesDown(w[i], p)
        /\ \A j \in DOMAIN b : ~LetsGo(b[j], p)
    BY <1>3, <1>8, <1>10, <1>11, <1>16, <2>1
  <2> QED
    BY <1>11, <1>16, <2>1, <2>2 DEF Attended
<1>17. ASSUME k = "closing", l = "down", NEW m, msgs = <<m>>, TakesDown(m, p)
       PROVE  Once(w, b, x, p) /\ Attended(l, w, b, x, p)
  <2>1. Longer(q, w, m)
    BY <1>17
  <2>2. \A j \in DOMAIN b : ~LetsGo(b[j], p)
    BY <1>3, <1>10, <1>17
  <2>3. Once(w, b, x, p)
    BY <1>1, <1>10, <1>17, <2>1, <2>2, OnceTakenDown
  <2>4. \E i \in DOMAIN w : TakesDown(w[i], p)
    BY <1>17, <2>1 DEF Longer
  <2> QED
    BY <1>11, <1>17, <2>3, <2>4 DEF Attended
<1>18. CASE k = "down" /\ l = "none" /\ LetsGo(r, p) /\ Mute(msgs, p)
  <2>1. Once(w, b, x, p) /\ SameFor(q, w, p)
    BY <1>7, <1>18
  <2>2. /\ x # p /\ \A i \in DOMAIN q : ~TakesDown(q[i], p) /\ ~SetsUp(q[i], p)
        /\ \A i \in DOMAIN a : LetsGo(a[i], p) => i = 1
        /\ \A i \in DOMAIN a : ~Accepts(a[i], p)
    <3>1. n = 1 /\ 1 \in DOMAIN a /\ LetsGo(a[1], p)
      BY <1>5, <1>18
    <3>2. /\ x # p /\ \A i \in DOMAIN q : ~TakesDown(q[i], p)
          /\ \A i \in DOMAIN a : LetsGo(a[i], p) => i = 1
          /\ \A i \in DOMAIN a : Accepts(a[i], p) => i < 1
      BY <1>9, <3>1
    <3>3. \A i \in DOMAIN q : ~SetsUp(q[i], p)
      BY <1>9, <3>1
    <3>4. \A i \in DOMAIN a : ~Accepts(a[i], p)
      BY <1>2, <3>2
    <3> QED
      BY <3>2, <3>3, <3>4
  <2>3. /\ \A i \in DOMAIN w : ~TakesDown(w[i], p) /\ ~SetsUp(w[i], p)
    BY <1>8, <2>1, <2>2
  <2>4. \A j \in DOMAIN b : ~LetsGo(b[j], p) /\ ~Accepts(b[j], p)
    BY <1>2, <1>5, <1>18, <2>2
  <2> QED
    BY <1>11, <1>18, <2>1, <2>2, <2>3, <2>4 DEF Attended
<1> QED
  BY <1>12, <1>13, <1>14, <1>15, <1>16, <1>17, <1>18 DEF Moved

(* A step s of the driver from v, with the request r.                      *)
MovesAll(v, s, r) ==
  \A p \in Plcis : Moved(v.link[p].d, s.v.link[p].d, r, s.msgs, p)

(* The request and the reports of a step are about p alone.                *)
Only(r, msgs, p) == \A x \in Plcis \ {p} : Harmless(r, x) /\ Mute(msgs, x)

(* A step that leaves the physical states.                                 *)
LEMMA MovesSame ==
  ASSUME NEW v, NEW w, \A p \in Plcis : w.link[p].d = v.link[p].d,
         NEW r, NEW msgs, \A p \in Plcis : Mute(msgs, p),
         \A p \in Plcis : /\ LetsGo(r, p) => v.link[p].d # "down"
                          /\ Accepts(r, p) \/ Refuses(r, p) => v.link[p].d # "in",
         NEW s, s = Step(w, msgs)
  PROVE  MovesAll(v, s, r)
<1>1. s.v = w /\ s.msgs = msgs
  BY StepIs
<1> QED
  BY <1>1 DEF MovesAll, Moved

(* A step that is about one connection.                                    *)
LEMMA MovesOne ==
  ASSUME NEW v, NEW p \in Plcis, NEW w, \A x \in Plcis \ {p} : w.link[x].d = v.link[x].d,
         NEW r, NEW msgs, Only(r, msgs, p), Moved(v.link[p].d, w.link[p].d, r, msgs, p),
         NEW s, s = Step(w, msgs)
  PROVE  MovesAll(v, s, r)
<1>1. s.v = w /\ s.msgs = msgs
  BY StepIs
<1>2. \A x \in Plcis \ {p} : Moved(v.link[x].d, w.link[x].d, r, msgs, x)
  BY DEF Only, Moved, Harmless
<1> QED
  BY <1>1, <1>2 DEF MovesAll

(* The reports and the requests that are not about a connection's state.   *)
LEMMA MuteOne ==
  ASSUME NEW m, m.m \notin {"CONNECT_CONF", "CONNECT_IND", "DISCONNECT_IND"}
  PROVE  \A p \in Plcis : Mute(<<m>>, p)
BY DEF Mute, SetsUp, TakesDown

(* The same, of the messages as the driver makes them.                     *)
LEMMA MuteMessages ==
  ASSUME NEW m, m \notin {"CONNECT_CONF", "CONNECT_IND", "DISCONNECT_IND"}, NEW x
  PROVE  \A p \in Plcis : /\ Mute(<<Msg(m, x)>>, p) /\ Mute(<<No(m, x)>>, p)
                          /\ \A ok : Mute(<<Conf(m, x, ok)>>, p)
<1>1. Msg(m, x).m = m /\ No(m, x).m = m /\ \A ok : Conf(m, x, ok).m = m
  BY DEF Msg, No, Conf
<1> QED
  BY <1>1, MuteOne

(* The requests that answer no report.                                     *)
LEMMA HarmlessRequest ==
  ASSUME NEW r, r.m \notin {"CONNECT_RESP", "DISCONNECT_RESP"}
  PROVE  \A p : Harmless(r, p)
BY DEF Harmless, Accepts, Refuses, LetsGo

(* Nor does a step with no report.                                         *)
LEMMA NothingSaid == \A p : Mute(<<>>, p)
BY DEF Mute

(* A connection is hung up, or becomes active.                             *)
LEMMA MovesD ==
  ASSUME NEW v \in Drivers, NEW p \in Plcis, NEW d \in {"active", "closing"},
         v.link[p].d \in (IF d = "active" THEN {"out", "acc"} ELSE LiveD),
         NEW r, \A x \in Plcis \ {p} : Harmless(r, x),
         NEW msgs, \A x \in Plcis : Mute(msgs, x), NEW s, s = Step(SetD(v, p, d), msgs)
  PROVE  MovesAll(v, s, r)
<1> DEFINE w == SetD(v, p, d)
<1>0. d \in DStates
  BY DEF DStates
<1>1. w.link[p].d = d /\ \A x \in Plcis : x # p => w.link[x] = v.link[x]
  BY <1>0, SetDIs
<1> HIDE DEF w
<1>2. Moved(v.link[p].d, w.link[p].d, r, msgs, p) /\ Only(r, msgs, p)
  BY <1>1 DEF Moved, Only
<1>3. s = Step(w, msgs)
  BY DEF w
<1> QED
  BY <1>1, <1>2, <1>3, MovesOne

(* The logical state alone is written.                                     *)
LEMMA MovesB ==
  ASSUME NEW v \in Drivers, NEW p \in Plcis, NEW b \in BStates,
         NEW r, \A x \in Plcis : Harmless(r, x),
         NEW msgs, \A x \in Plcis : Mute(msgs, x), NEW s, s = Step(SetB(v, p, b), msgs)
  PROVE  MovesAll(v, s, r)
<1>0. PICK w : w = SetB(v, p, b)
  OBVIOUS
<1>1. w \in Drivers /\ \A x \in Plcis : w.link[x].d = v.link[x].d
  BY <1>0, SetBIs
<1>2. s = Step(w, msgs)
  BY <1>0
<1>3. \A x \in Plcis : ~LetsGo(r, x) /\ ~Accepts(r, x) /\ ~Refuses(r, x)
  BY DEF Harmless
<1> QED
  BY <1>1, <1>2, <1>3, MovesSame

(* What the driver does with a request.                                    *)
LEMMA TakeMoves ==
  ASSUME NEW v \in Drivers, NEW r \in Messages(Requests),
         r.id = 0 => r.m \in {"LISTEN_REQ", "CONNECT_REQ"},
         \A p \in Plcis : LetsGo(r, p) => v.link[p].d = "down",
         NEW s \in Take(v, r)
  PROVE  MovesAll(v, s, r)
<1>1. /\ r.m \in Requests
      /\ r.m \notin {"LISTEN_REQ", "CONNECT_REQ"} => r.id \in Plcis
      /\ v.link \in [Plcis -> Links]
  BY DEF Messages, Drivers
<1>2. r.m \notin {"CONNECT_RESP", "DISCONNECT_RESP"} => \A p : Harmless(r, p)
  BY HarmlessRequest
<1>3. CASE r.m = "CONNECT_REQ"
  <2>1. CASE s = Step(v, <<No("CONNECT_CONF", 0)>>)
    <3>1. \A p \in Plcis : Mute(<<No("CONNECT_CONF", 0)>>, p)
      BY DriverAssumption DEF Mute, SetsUp, TakesDown, No, Msg
    <3> QED
      BY <1>2, <1>3, <2>1, <3>1, MovesSame DEF Harmless
  <2>2. ASSUME NEW p \in Unused(v), s = Dial(v, p)
        PROVE  MovesAll(v, s, r)
    <3> DEFINE w == [v EXCEPT !.link[p] = [d |-> "out", b |-> "none", out |-> TRUE]]
               m == Msg("CONNECT_CONF", p)
    <3>1. p \in Plcis /\ v.link[p].d = "none"
      BY DEF Unused, NoLink
    <3>2. w.link[p].d = "out" /\ \A q \in Plcis : q # p => w.link[q] = v.link[q]
      BY <1>1, <3>1 DEF Drivers
    <3>3. s = Step(w, <<m>>)
      BY <2>2 DEF Dial
    <3>4. m.m = "CONNECT_CONF" /\ m.id = p /\ m.ok
      BY DEF Msg
    <3> HIDE DEF w, m
    <3>5. Only(r, <<m>>, p)
      BY <1>2, <1>3, <3>4 DEF Only, Mute, SetsUp, TakesDown
    <3>6. Moved("none", "out", r, <<m>>, p)
      BY <3>4 DEF Moved, SetsUp
    <3> QED
      BY <3>1, <3>2, <3>3, <3>5, <3>6, MovesOne
  <2> QED
    BY <1>3, <2>1, <2>2 DEF Take, ConnectSteps
<1>4. CASE r.m = "CONNECT_RESP"
  <2> DEFINE d == IF r.ok THEN "acc" ELSE "closing"
             p == r.id
  <2>1. s = Step(IF v.link[p].d # "in" THEN v ELSE SetD(v, p, d), <<>>) /\ p \in Plcis
    BY <1>1, <1>4 DEF Take, ConnectRespSteps
  <2>2. \A x \in Plcis \ {p} : Harmless(r, x)
    BY <1>4 DEF Harmless, Accepts, Refuses, LetsGo
  <2>3. ~LetsGo(r, p) /\ (r.ok => Accepts(r, p)) /\ p \in Plcis
    BY <1>4, <2>1 DEF LetsGo, Accepts
  <2>4. CASE v.link[p].d # "in"
    <3>1. s = Step(v, <<>>)
      BY <2>1, <2>4
    <3> QED
      BY <2>2, <2>3, <2>4, <3>1, MovesSame, NothingSaid DEF Harmless
  <2>5. CASE v.link[p].d = "in"
    <3> DEFINE w == SetD(v, p, d)
    <3>0. d \in DStates
      BY DEF DStates
    <3>1. w.link[p].d = d /\ \A x \in Plcis : x # p => w.link[x] = v.link[x]
      BY <2>3, <3>0, SetDIs
    <3>2. s = Step(w, <<>>)
      BY <2>1, <2>5
    <3> HIDE DEF w
    <3>3. Moved("in", d, r, <<>>, p)
      BY <2>3, NothingSaid DEF Moved, LiveD
    <3>4. Only(r, <<>>, p)
      BY <2>2, NothingSaid DEF Only
    <3> QED
      BY <2>3, <2>5, <3>1, <3>2, <3>3, <3>4, MovesOne
  <2> QED
    BY <2>4, <2>5
<1>5. CASE r.m = "CONNECT_B3_REQ"
  <2>1. /\ \A x : Harmless(r, x) /\ r.id \in Plcis
        /\ \A x \in Plcis : Mute(<<No("CONNECT_B3_CONF", r.id)>>, x)
        /\ \A x \in Plcis : Mute(<<Msg("CONNECT_B3_CONF", r.id)>>, x)
    BY <1>1, <1>2, <1>5, MuteMessages
  <2>2. CASE s = Step(v, <<No("CONNECT_B3_CONF", r.id)>>)
    BY <2>1, <2>2, MovesSame DEF Harmless
  <2>3. CASE s = Step(SetB(v, r.id, "conf"), <<Msg("CONNECT_B3_CONF", r.id)>>)
    BY <2>1, <2>3, MovesB DEF BStates
  <2> QED
    BY <1>5, <2>2, <2>3 DEF Take, ConnectB3Steps
<1>6. CASE r.m = "CONNECT_B3_RESP"
  <2>1. \A x : Harmless(r, x) /\ r.id \in Plcis
    BY <1>1, <1>2, <1>6
  <2>2. PICK b \in BStates : s = Step(v, <<>>) \/ s = Step(SetB(v, r.id, b), <<>>)
    BY <1>6 DEF Take, ConnectB3RespSteps, BStates
  <2> QED
    BY <2>1, <2>2, MovesSame, MovesB, NothingSaid DEF Harmless
<1>7. CASE r.m = "DATA_B3_REQ"
  <2>1. PICK m : s = Step(v, <<m>>) /\ m.m = "DATA_B3_CONF"
    BY <1>7 DEF Take, DataSteps
  <2>2. \A x \in Plcis : Mute(<<m>>, x) /\ Harmless(r, x)
    BY <1>2, <1>7, <2>1, MuteOne
  <2> QED
    BY <2>1, <2>2, MovesSame DEF Harmless
<1>8. CASE r.m = "DISCONNECT_B3_REQ"
  <2> DEFINE can == v.link[r.id].b \in LiveB
  <2>1. /\ \A x : Harmless(r, x) /\ r.id \in Plcis
        /\ \A x \in Plcis : Mute(<<Conf("DISCONNECT_B3_CONF", r.id, can)>>, x)
    BY <1>1, <1>2, <1>8, MuteMessages
  <2>2. \/ s = Step(v, <<Conf("DISCONNECT_B3_CONF", r.id, can)>>)
        \/ s = Step(SetB(v, r.id, "closing"), <<Conf("DISCONNECT_B3_CONF", r.id, can)>>)
    BY <1>8 DEF Take, DisconnectB3Steps
  <2> HIDE DEF can
  <2> QED
    BY <2>1, <2>2, MovesSame, MovesB DEF Harmless, BStates
<1>9. CASE r.m = "DISCONNECT_REQ"
  <2> DEFINE d == v.link[r.id].d
             y == Msg("DISCONNECT_CONF", r.id)
             n == No("DISCONNECT_CONF", r.id)
  <2>1. \/ s \in {Step(v, <<y>>), Step(v, <<n>>)}
        \/ s = Step(SetD(v, r.id, "closing"), <<y>>) /\ d \in LiveD
    <3>1. s \in DisconnectSteps(v, r)
      BY <1>9 DEF Take
    <3>2. CASE d \in LiveD
      BY <3>1, <3>2 DEF DisconnectSteps
    <3>3. CASE d = "closing"
      BY <3>1, <3>3 DEF DisconnectSteps, LiveD
    <3>4. CASE d \notin LiveD \cup {"closing"}
      BY <3>1, <3>4 DEF DisconnectSteps
    <3> QED
      BY <3>2, <3>3, <3>4
  <2>2. /\ \A x : Harmless(r, x) /\ r.id \in Plcis
        /\ \A x \in Plcis : Mute(<<y>>, x) /\ Mute(<<n>>, x)
    BY <1>1, <1>2, <1>9, MuteMessages
  <2> HIDE DEF y, n
  <2>3. CASE s \in {Step(v, <<y>>), Step(v, <<n>>)}
    BY <2>2, <2>3, MovesSame DEF Harmless
  <2>4. CASE s = Step(SetD(v, r.id, "closing"), <<y>>) /\ d \in LiveD
    BY <2>2, <2>4, MovesD
  <2> QED
    BY <2>1, <2>3, <2>4
<1>10. CASE r.m = "DISCONNECT_RESP"
  <2> DEFINE w == [v EXCEPT !.link[r.id] = NoLink]
             p == r.id
  <2>1. p \in Plcis /\ LetsGo(r, p) /\ v.link[p].d = "down"
    BY <1>1, <1>10 DEF LetsGo
  <2>2. s = Step(w, <<>>)
    BY <1>10, <2>1 DEF Take, DisconnectRespSteps
  <2>3. w.link[p].d = "none" /\ \A q \in Plcis : q # p => w.link[q] = v.link[q]
    BY <1>1, <2>1 DEF Drivers, NoLink
  <2> HIDE DEF w
  <2>4. Only(r, <<>>, p)
    BY <1>10, NothingSaid DEF Only, Harmless, Accepts, Refuses, LetsGo
  <2>5. Moved("down", "none", r, <<>>, p)
    BY <2>1, NothingSaid DEF Moved
  <2> QED
    BY <2>1, <2>2, <2>3, <2>4, <2>5, MovesOne
<1>11. CASE r.m = "LISTEN_REQ"
  <2>1. \/ s = Step([v EXCEPT !.listen = TRUE], <<Msg("LISTEN_CONF", 0)>>)
        \/ s = Step(v, <<No("LISTEN_CONF", 0)>>)
    BY <1>11 DEF Take
  <2>2. [v EXCEPT !.listen = TRUE].link = v.link
    BY DEF Drivers
  <2>3. /\ \A x : Harmless(r, x)
        /\ \A x \in Plcis : Mute(<<Msg("LISTEN_CONF", 0)>>, x) /\ Mute(<<No("LISTEN_CONF", 0)>>, x)
    BY <1>2, <1>11, MuteMessages
  <2> QED
    BY <2>1, <2>2, <2>3, MovesSame DEF Harmless
<1> QED
  BY <1>1, <1>3, <1>4, <1>5, <1>6, <1>7, <1>8, <1>9, <1>10, <1>11 DEF Requests

(* The network and the driver by itself take no request.                   *)
LEMMA NetworkMoves ==
  ASSUME NEW v \in Drivers, NEW data, NEW digit, NEW s \in Network(v, data, digit),
         NEW r, \A x : Harmless(r, x)
  PROVE  MovesAll(v, s, r)
<1>1. ASSUME NEW p \in Unused(v),
             s = Step([SetD(v, p, "in") EXCEPT !.calls = @ + 1], <<Msg("CONNECT_IND", p)>>)
      PROVE  MovesAll(v, s, r)
  <2> DEFINE u == SetD(v, p, "in")
             w == [u EXCEPT !.calls = @ + 1]
             m == Msg("CONNECT_IND", p)
  <2>1. p \in Plcis /\ v.link[p].d = "none"
    BY DEF Unused, NoLink
  <2>2. /\ u \in Drivers /\ u.link[p].d = "in"
        /\ \A q \in Plcis : q # p => u.link[q] = v.link[q]
    BY <2>1, SetDIs DEF DStates
  <2> HIDE DEF u
  <2>3. w.link = u.link
    BY <2>2 DEF Drivers
  <2>4. s = Step(w, <<m>>)
    BY <1>1 DEF u
  <2>5. m.m = "CONNECT_IND" /\ m.id = p /\ m.ok
    BY DEF Msg
  <2> HIDE DEF w, m
  <2>6. Only(r, <<m>>, p)
    BY <2>5 DEF Only, Mute, SetsUp, TakesDown
  <2>7. Moved("none", "in", r, <<m>>, p)
    BY <2>5 DEF Moved, SetsUp
  <2> QED
    BY <2>1, <2>2, <2>3, <2>4, <2>6, <2>7, MovesOne
<1>2. ASSUME NEW p \in Plcis, NEW m \in {"INFO_IND", "DATA_B3_IND"}, s = Step(v, <<Msg(m, p)>>)
      PROVE  MovesAll(v, s, r)
  BY <1>2, MovesSame, MuteMessages DEF Harmless
<1>3. ASSUME NEW p \in Plcis, s = Step(SetD(v, p, "active"), <<Msg("CONNECT_ACTIVE_IND", p)>>),
             v.link[p].d \in {"out", "acc"}
      PROVE  MovesAll(v, s, r)
  BY <1>3, MovesD, MuteMessages
<1>4. ASSUME NEW p \in Plcis, NEW b \in {"ind", "up", "closing"},
             NEW msgs, \A x \in Plcis : Mute(msgs, x), s = Step(SetB(v, p, b), msgs)
      PROVE  MovesAll(v, s, r)
  BY <1>4, MovesB DEF BStates
<1>5. ASSUME NEW p \in Plcis, s = Step(SetD(v, p, "closing"), <<>>), v.link[p].d \in LiveD
      PROVE  MovesAll(v, s, r)
  BY <1>5, MovesD, NothingSaid
<1>6. \/ \E p \in Unused(v) :
           s = Step([SetD(v, p, "in") EXCEPT !.calls = @ + 1], <<Msg("CONNECT_IND", p)>>)
      \/ \E p \in Plcis, m \in {"INFO_IND", "DATA_B3_IND"} : s = Step(v, <<Msg(m, p)>>)
      \/ \E p \in Plcis : /\ s = Step(SetD(v, p, "active"), <<Msg("CONNECT_ACTIVE_IND", p)>>)
                          /\ v.link[p].d \in {"out", "acc"}
      \/ \E p \in Plcis : s = Step(SetB(v, p, "ind"), <<Msg("CONNECT_B3_IND", p)>>)
      \/ \E p \in Plcis : s = Step(SetB(v, p, "up"), <<Msg("CONNECT_B3_ACTIVE_IND", p)>>)
      \/ \E p \in Plcis : s = Step(SetB(v, p, "closing"), <<>>)
      \/ \E p \in Plcis : s = Step(SetD(v, p, "closing"), <<>>) /\ v.link[p].d \in LiveD
  BY DEF Network
<1>7. \A x \in Plcis, p \in Plcis : /\ Mute(<<Msg("CONNECT_B3_IND", p)>>, x)
                                    /\ Mute(<<Msg("CONNECT_B3_ACTIVE_IND", p)>>, x)
  BY MuteMessages
<1> QED
  BY <1>1, <1>2, <1>3, <1>4, <1>5, <1>6, <1>7, NothingSaid

(* The driver by itself.                                                   *)
LEMMA ClosingMoves ==
  ASSUME NEW v \in Drivers, NEW s \in Closing(v), NEW r, \A x : Harmless(r, x)
  PROVE  MovesAll(v, s, r)
<1>1. ASSUME NEW p \in Plcis, s = Step(SetB(v, p, "down"), <<Msg("DISCONNECT_B3_IND", p)>>)
      PROVE  MovesAll(v, s, r)
  BY <1>1, MovesB, MuteMessages DEF BStates
<1>2. ASSUME NEW p \in Plcis, s = Step(SetD(v, p, "down"), <<Msg("DISCONNECT_IND", p)>>),
             v.link[p].d = "closing"
      PROVE  MovesAll(v, s, r)
  <2> DEFINE w == SetD(v, p, "down")
             m == Msg("DISCONNECT_IND", p)
  <2>1. w.link[p].d = "down" /\ \A q \in Plcis : q # p => w.link[q] = v.link[q]
    BY SetDIs DEF DStates
  <2>2. m.m = "DISCONNECT_IND" /\ m.id = p
    BY DEF Msg
  <2>3. s = Step(w, <<m>>)
    BY <1>2
  <2> HIDE DEF w, m
  <2>4. Only(r, <<m>>, p)
    BY <2>2 DEF Only, Mute, SetsUp, TakesDown
  <2>5. Moved("closing", "down", r, <<m>>, p)
    BY <2>2 DEF Moved, TakesDown
  <2> QED
    BY <1>2, <2>1, <2>3, <2>4, <2>5, MovesOne
<1> QED
  BY <1>1, <1>2 DEF Closing

(* What the invariant says of the requests.                                *)
LEMMA ChannelLined ==
  ASSUME Inv
  PROVE  Lined(ch)
BY DEF Inv, Sound, Fits, Typed, LineTyped, Lined

(* After a handler the thread may leave its loop.                          *)
LEMMA BackStill ==
  ASSUME NEW c, Lined(c), NEW d, d = Back(c)
  PROVE  Still(c, d)
<1>1. Shaped(d) /\ d.cs = c.cs /\ d.plci = c.plci /\ d.down = c.down
  BY NamesHold DEF NamesAreIn, Lined, Shaped, Back
<1> QED
  BY <1>1 DEF Still, Lined

(* An action that reads no report and leaves the driver alone.             *)
LEMMA MindsQuiet ==
  ASSUME Minds(ch, drv, up), UNCHANGED <<drv, up>>,
         NEW e, Minded(ch, e), ch' = e \/ ch' = Back(e)
  PROVE  Minds(ch', drv', up')
<1>1. Minded(e, Back(e))
  BY BackStill, MindedStill DEF Minded
<1>2. Minded(ch, ch')
  BY <1>1, MindedTwice
<1> QED
  BY <1>2, MindsKept

(* The steps of the main thread and the timer.                             *)
LEMMA MainMinds ==
  ASSUME Inv, Minds(ch, drv, up),
         StartSend \/ SendReturns \/ StartReceive \/ DeviceStops \/ SetupTimer \/ DisconnectTimer
  PROVE  Minds(ch', drv', up')
<1>1. Lined(ch)
  BY ChannelLined
<1>2. UNCHANGED <<drv, up>>
  BY DEF StartSend, SendReturns, StartReceive, DeviceStops, SetupTimer, DisconnectTimer, Timer
<1>3. CASE ch' = Send(ch)
  BY <1>1, <1>2, <1>3, SendMinds, MindsQuiet
<1>4. CASE ch' = [ch EXCEPT !.resets = @ - 1]
  <2>1. Still(ch, ch')
    BY <1>1, <1>4, NamesHold DEF NamesAreIn, Lined, Shaped, Still
  <2> QED
    BY <1>2, <2>1, MindedStill, MindsQuiet
<1>5. CASE ch' = CheckListen([ch EXCEPT !.msn = TRUE])
  <2>1. PICK e : e = [ch EXCEPT !.msn = TRUE]
    OBVIOUS
  <2>2. Still(ch, e)
    BY <1>1, <2>1, NamesHold DEF NamesAreIn, Lined, Shaped, Still
  <2>3. Minded(e, ch')
    BY <1>5, <2>1, <2>2, CheckListenMinds DEF Still
  <2> QED
    BY <1>2, <2>2, <2>3, MindedStill, MindedTwice, MindsQuiet
<1>6. CASE ch' = StopReceive(ch)
  BY <1>1, <1>2, <1>6, StopReceiveMinds, MindsQuiet
<1>7. CASE ch' = TimerCallBack(ch)
  BY <1>1, <1>2, <1>7, TimerMinds, MindsQuiet
<1> QED
  BY <1>3, <1>4, <1>5, <1>6, <1>7
     DEF StartSend, SendReturns, StartReceive, DeviceStops, SetupTimer, DisconnectTimer, Timer

(* The steps of the CAPI thread that read no report.                       *)
LEMMA ThreadMinds ==
  ASSUME Inv, Minds(ch, drv, up),
         ThreadStarts \/ SendsFrame \/ SendDataReturns \/ ThreadStops \/ ReadFails
         \/ ReleaseDisconnects \/ ReleaseCompletes
  PROVE  Minds(ch', drv', up')
<1>1. Lined(ch)
  BY ChannelLined
<1>2. UNCHANGED <<drv, up>>
  BY DEF ThreadStarts, SendsFrame, SendDataReturns, ThreadStops, ReadFails,
         ReleaseDisconnects, ReleaseCompletes
<1>3. CASE ThreadStarts
  <2>1. PICK e : e = [ch EXCEPT !.thr = "run"]
    OBVIOUS
  <2>2. PICK d : d = REGISTER_COMPLETE(e)
    OBVIOUS
  <2>3. ch' = Back(d)
    BY <1>3, <2>1, <2>2 DEF ThreadStarts
  <2>4. Still(ch, e)
    BY <1>1, <2>1, NamesHold DEF NamesAreIn, Lined, Shaped, Still
  <2>5. Minded(ch, d)
    BY <2>2, <2>4, RegisterCompleteMinds, MindedStill, MindedTwice DEF Still
  <2> QED
    BY <1>2, <2>3, <2>5, MindsQuiet
<1>4. CASE SendsFrame
  <2>1. (\E h \in Handles : ch' = SendFrame(ch, h)) \/ ch' = SendDropped(ch)
    BY <1>4 DEF SendsFrame
  <2> QED
    BY <1>1, <1>2, <2>1, SendFrameMinds, SendDroppedMinds, MindsQuiet
<1>5. CASE SendDataReturns
  <2>1. PICK e : e = [ch EXCEPT !.sending = FALSE]
    OBVIOUS
  <2>2. ch' = Back(e)
    BY <1>5, <2>1 DEF SendDataReturns
  <2>3. Still(ch, e)
    BY <1>1, <2>1, NamesHold DEF NamesAreIn, Lined, Shaped, Still
  <2> QED
    BY <1>2, <2>2, <2>3, MindedStill, MindsQuiet
<1>6. CASE ThreadStops
  <2>1. Still(ch, ch) /\ ch' = Back(ch)
    BY <1>1, <1>6 DEF ThreadStops, Still
  <2> QED
    BY <1>2, <2>1, MindedStill, MindsQuiet
<1>7. CASE ReadFails
  <2>1. PICK capi \in BOOLEAN : ch' = Back(RELEASE([ch EXCEPT !.capi = capi]))
    BY <1>7 DEF ReadFails
  <2>2. PICK e : e = RELEASE([ch EXCEPT !.capi = capi])
    OBVIOUS
  <2>3. Still(ch, e)
    BY <1>1, <2>2, NamesHold DEF NamesAreIn, Lined, Shaped, Still, RELEASE
  <2> QED
    BY <1>2, <2>1, <2>2, <2>3, MindedStill, MindsQuiet
<1>8. CASE ReleaseDisconnects
  BY <1>1, <1>2, <1>8, DisconnectIndMinds, MindsQuiet DEF ReleaseDisconnects
<1>9. CASE ReleaseCompletes
  BY <1>1, <1>2, <1>9, ReleaseCompleteMinds, MindsQuiet DEF ReleaseCompletes
<1> QED
  BY <1>3, <1>4, <1>5, <1>6, <1>7, <1>8, <1>9

(* A handler of the report at the head.                                    *)
LEMMA MindsReport ==
  ASSUME Inv, Minds(ch, drv, up), NEW m, Reads(m), NEW e, Attends(ch, e, Head(up)),
         ch' = Back(e)
  PROVE  Minds(ch', drv', up')
<1>1. /\ up # <<>> /\ up' = Tail(up) /\ UNCHANGED drv /\ up \in Seq(Messages(Reports))
  BY DEF Reads, Inv, Sound
<1>2. Minds(e, drv, Tail(up))
  BY <1>1, MindsReads
<1>3. Minded(e, Back(e))
  BY BackStill, MindedStill DEF Attends
<1> QED
  BY <1>1, <1>2, <1>3, MindsKept

(* The handlers, one action each.                                          *)
LEMMA ReadMinds ==
  ASSUME Inv, Covered, Minds(ch, drv, up), ReadsMessage
  PROVE  Minds(ch', drv', up')
<1>1. PICK m : Reads(m)
  BY DEF ReadsMessage, OnConnectConf, OnConnectB3Conf, OnDataB3Conf, OnDisconnectB3Conf,
         OnDisconnectConf, OnListenConf, OnConnectInd, OnInfoInd, OnConnectActiveInd,
         OnConnectB3Ind, OnConnectB3ActiveInd, OnDataB3Ind, OnDisconnectB3Ind, OnDisconnectInd
<1> DEFINE msg == Head(up)
<1>2. /\ Fits(ch) /\ ch.thr \in {"run", "late"} /\ msg.m = m
      /\ msg.id = 0 => m = "LISTEN_CONF" \/ (m = "CONNECT_CONF" /\ ~msg.ok)
      /\ m = "CONNECT_CONF" => ch.cs = "D_ConnectRequest"
  BY <1>1, ReadKnows
<1>3. /\ Lined(ch) /\ (ch.cs # "Releasing" => ch.appl)
      /\ ch.cs \in {"Registered", "Releasing", "D_ConnectRequest"} => ch.plci = 0
      /\ ch.cs = "Releasing" => ch.ncci = 0
  <2>1. ch.thr = "late" => ch.cs = "Releasing"
    BY DEF Inv, Lives, Held, LoopFits
  <2>2. ch.cs # "Releasing" => ch.appl
    BY <1>2, <2>1 DEF Fits, ThreadFits
  <2>3. /\ ch.cs \in {"Registered", "Releasing", "D_ConnectRequest"} => ch.plci = 0
        /\ ch.cs = "Releasing" => ch.ncci = 0
    BY <1>2 DEF Fits, IdsFit, IdleStates
  <2> QED
    BY <2>2, <2>3, ChannelLined
<1> HIDE DEF msg
<1>4. SUFFICES \E e : Attends(ch, e, msg) /\ ch' = Back(e)
  BY <1>1, MindsReport DEF msg
<1>5. CASE OnConnectConf
  <2>1. msg.m = "CONNECT_CONF" /\ ch' = Back(CONNECT_CONF(ch, msg))
    BY <1>5 DEF OnConnectConf, Reads, msg
  <2> QED
    BY <1>2, <1>3, <2>1, ConnectConfMinds
<1>6. CASE OnConnectB3Conf
  <2>1. msg.m = "CONNECT_B3_CONF" /\ ch' = Back(CONNECT_B3_CONF(ch, msg))
    BY <1>6 DEF OnConnectB3Conf, Reads, msg
  <2> QED
    BY <1>3, <2>1, ConnectB3ConfMinds
<1>7. CASE OnDataB3Conf \/ OnDisconnectB3Conf \/ OnDisconnectConf \/ OnListenConf \/ OnDataB3Ind
  <2>1. PICK e, ready :
          /\ ch' = Back(e)
          /\ \/ msg.m = "DATA_B3_CONF" /\ e = DATA_B3_CONF(ch, msg)
             \/ msg.m = "DISCONNECT_B3_CONF" /\ e = DISCONNECT_B3_CONF(ch, msg)
             \/ msg.m = "DISCONNECT_CONF" /\ e = DISCONNECT_CONF(ch, msg)
             \/ msg.m = "LISTEN_CONF" /\ e = LISTEN_CONF(ch, msg)
             \/ msg.m = "DATA_B3_IND" /\ e = DATA_B3_IND(ch, msg, ready)
    BY <1>7 DEF OnDataB3Conf, OnDisconnectB3Conf, OnDisconnectConf, OnListenConf, OnDataB3Ind,
                Reads, msg
  <2> QED
    BY <1>3, <2>1, OtherReportsMind
<1>8. CASE OnConnectInd
  <2>1. PICK found, claimed :
          msg.m = "CONNECT_IND" /\ ch' = Back(CONNECT_IND(ch, msg, found, claimed))
    BY <1>8 DEF OnConnectInd, Reads, msg
  <2> QED
    BY <1>3, <2>1, ConnectIndMinds
<1>9. CASE OnInfoInd
  <2>1. PICK complete, claimed :
          msg.m = "INFO_IND" /\ ch' = Back(INFO_IND(ch, msg, complete, claimed))
    BY <1>9 DEF OnInfoInd, Reads, msg
  <2> QED
    BY <1>3, <2>1, InfoIndMinds
<1>10. CASE OnConnectActiveInd
  <2>1. msg.m = "CONNECT_ACTIVE_IND" /\ ch' = Back(CONNECT_ACTIVE_IND(ch, msg))
    BY <1>10 DEF OnConnectActiveInd, Reads, msg
  <2> QED
    BY <1>3, <2>1, ConnectActiveMinds
<1>11. CASE OnConnectB3Ind
  <2>1. msg.m = "CONNECT_B3_IND" /\ ch' = Back(CONNECT_B3_IND(ch, msg))
    BY <1>11 DEF OnConnectB3Ind, Reads, msg
  <2> QED
    BY <1>3, <2>1, ConnectB3IndMinds
<1>12. CASE OnConnectB3ActiveInd
  <2>1. PICK ready :
          msg.m = "CONNECT_B3_ACTIVE_IND" /\ ch' = Back(CONNECT_B3_ACTIVE_IND(ch, msg, ready))
    BY <1>12 DEF OnConnectB3ActiveInd, Reads, msg
  <2> QED
    BY <1>3, <2>1, ConnectB3ActiveMinds
<1>13. CASE OnDisconnectB3Ind
  <2>1. msg.m = "DISCONNECT_B3_IND" /\ ch' = Back(DISCONNECT_B3_IND(ch, msg))
    BY <1>13 DEF OnDisconnectB3Ind, Reads, msg
  <2>2. msg.id = ch.ncci => ch.cs # "Releasing"
    BY <1>2, <1>3, <2>1
  <2> QED
    BY <1>3, <2>1, <2>2, DisconnectB3IndMinds
<1>14. CASE OnDisconnectInd
  <2>1. msg.m = "DISCONNECT_IND" /\ ch' = Back(DISCONNECT_IND(ch, msg))
    BY <1>14 DEF OnDisconnectInd, Reads, msg
  <2>2. msg.id # 0 /\ (ch.cs = "Releasing" => msg.id # ch.plci)
    BY <1>2, <1>3, <2>1
  <2> QED
    BY <1>3, <2>1, <2>2, DisconnectIndMindsIt
<1> QED
  BY <1>5, <1>6, <1>7, <1>8, <1>9, <1>10, <1>11, <1>12, <1>13, <1>14 DEF ReadsMessage

(* RELEASE_COMPLETE gives every connection up.                             *)
LEMMA ThreadEndsMinds ==
  ASSUME Inv, ThreadEnds
  PROVE  Minds(ch', drv', up')
<1>1. /\ drv' = Fresh(drv.calls) /\ up' = <<>>
      /\ ch' = [ResetValues(ch) EXCEPT !.cs = "Released", !.timer = "none",
                                       !.thr = "none", !.down = <<>>]
  BY DEF ThreadEnds
<1>2. ch'.plci = 0 /\ ch'.down = <<>>
  BY <1>1, ChannelLined, NamesHold DEF NamesAreIn, Lined, Shaped, ResetValues
<1>3. DOMAIN up' = {} /\ DOMAIN ch'.down = {}
  BY <1>1, <1>2
<1>4. \A p \in Plcis : drv'.link[p].d = "none" /\ p # 0
  BY <1>1, DriverAssumption DEF Fresh, NoLink
<1> QED
  BY <1>2, <1>3, <1>4 DEF Minds, Once, Attended, LiveD

(* The driver sends no report, or one.                                     *)
LEMMA DriverMinds ==
  ASSUME Inv, Minds(ch, drv, up), NEW r, NEW n, NEW s, DriverSteps(drv, s), MovesAll(drv, s, r),
         drv' = s.v, up' = up \o s.msgs, ch'.plci = ch.plci, ch'.cs = ch.cs,
         Shifted(ch.down, ch'.down, n),
         IF n = 1 THEN 1 \in DOMAIN ch.down /\ ch.down[1] = r ELSE \A p : Harmless(r, p)
  PROVE  Minds(ch', drv', up')
<1>1. \/ s.msgs = <<>> /\ up' = up
      \/ \E m : s.msgs = <<m>> /\ Longer(up, up', m)
  <2>1. up \in Seq(Messages(Reports))
    BY DEF Inv, Sound
  <2>2. CASE s.msgs = <<>>
    BY <2>1, <2>2
  <2>3. ASSUME NEW m \in Messages(Reports), s.msgs = <<m>>
        PROVE  Longer(up, up', m)
    BY <2>1, <2>3, LongerBy
  <2> QED
    BY <2>2, <2>3 DEF DriverSteps, Says
<1>2. ASSUME ch.cs # "Releasing", NEW p \in Plcis
      PROVE  /\ Once(up', ch'.down, ch.plci, p)
             /\ Attended(drv'.link[p].d, up', ch'.down, ch.plci, p)
  <2>1. /\ Once(up, ch.down, ch.plci, p)
        /\ Attended(drv.link[p].d, up, ch.down, ch.plci, p)
    BY <1>2 DEF Minds
  <2>2. Moved(drv.link[p].d, drv'.link[p].d, r, s.msgs, p)
    BY DEF MovesAll
  <2>3. IF n = 1 THEN 1 \in DOMAIN ch.down /\ ch.down[1] = r ELSE Harmless(r, p)
    OBVIOUS
  <2>4. PICK q, a, x, k, l, w, b, msgs :
          /\ q = up /\ a = ch.down /\ x = ch.plci /\ k = drv.link[p].d
          /\ w = up' /\ b = ch'.down /\ l = drv'.link[p].d /\ msgs = s.msgs
    OBVIOUS
  <2>5. /\ Once(q, a, x, p) /\ Attended(k, q, a, x, p) /\ Moved(k, l, r, msgs, p)
        /\ Shifted(a, b, n) /\ IF n = 1 THEN 1 \in DOMAIN a /\ a[1] = r ELSE Harmless(r, p)
        /\ (msgs = <<>> /\ w = q) \/ \E m : msgs = <<m>> /\ Longer(q, w, m)
    BY <1>1, <2>1, <2>2, <2>3, <2>4
  <2>6. Once(w, b, x, p) /\ Attended(l, w, b, x, p)
    BY <2>5, AttendedMoves
  <2> QED
    BY <2>4, <2>6
<1> QED
  BY <1>2 DEF Minds

(* The driver takes a request: it lets go of what it has taken down.       *)
LEMMA TakesMinds ==
  ASSUME Inv, Minds(ch, drv, up), DriverTakes
  PROVE  Minds(ch', drv', up')
<1>1. ch.down # <<>> /\ ch' = [ch EXCEPT !.down = Tail(@)]
  BY DEF DriverTakes
<1>2. PICK r : r = Head(ch.down)
  OBVIOUS
<1>3. PICK s \in Take(drv, r) : drv' = s.v /\ up' = up \o s.msgs
  BY <1>2 DEF DriverTakes
<1>4. drv \in Drivers /\ Fits(ch) /\ ch.down \in Seq(Messages(Requests))
  BY DEF Inv, Sound, Fits, Typed, LineTyped
<1>5. ch'.down = Tail(ch.down) /\ ch'.plci = ch.plci /\ ch'.cs = ch.cs
  BY <1>1, ChannelLined, NamesHold DEF NamesAreIn, Lined, Shaped
<1>6. /\ Shifted(ch.down, ch'.down, 1) /\ 1 \in DOMAIN ch.down /\ ch.down[1] = r
  BY <1>1, <1>2, <1>4, <1>5, TailShifts
<1>7. /\ r \in Messages(Requests)
      /\ r.id = 0 => r.m \in {"LISTEN_REQ", "CONNECT_REQ"}
      /\ r.m = "LISTEN_REQ" => App = "recv"
      /\ r.m = "DATA_B3_REQ" => r.h \in Handles
  BY ZenonT(60), <1>1, <1>2, <1>4, LineMoves
<1>8. DriverSteps(drv, s)
  BY <1>3, <1>4, <1>7, TakeIs
<1>9. CASE ch.cs = "Releasing"
  BY <1>5, <1>9 DEF Minds
<1>10. CASE ch.cs # "Releasing"
  <2>1. \A p \in Plcis : LetsGo(r, p) => drv.link[p].d = "down"
    BY <1>6, <1>10 DEF Minds, Attended
  <2>2. MovesAll(drv, s, r)
    BY <1>3, <1>4, <1>7, <2>1, TakeMoves
  <2> QED
    BY <1>3, <1>5, <1>6, <1>8, <2>2, DriverMinds
<1> QED
  BY <1>9, <1>10

(* The network, and the driver by itself.                                  *)
LEMMA ActsMinds ==
  ASSUME Inv, Minds(ch, drv, up), NetworkActs \/ DriverCloses
  PROVE  Minds(ch', drv', up')
<1>1. PICK r : r = [m |-> "LISTEN_REQ"]
  OBVIOUS
<1>2. \A p : Harmless(r, p)
  BY <1>1, HarmlessRequest
<1>3. drv \in Drivers /\ ch.down \in Seq(Messages(Requests)) /\ UNCHANGED ch
  BY DEF Inv, Sound, Fits, Typed, LineTyped, NetworkActs, DriverCloses, DriverActs
<1>4. PICK s : /\ DriverSteps(drv, s) /\ MovesAll(drv, s, r)
               /\ drv' = s.v /\ up' = up \o s.msgs
  <2>1. CASE NetworkActs
    <3>1. PICK data, digit :
            \E s \in Network(drv, data, digit) : drv' = s.v /\ up' = up \o s.msgs
      BY <2>1 DEF NetworkActs, DriverActs
    <3> QED
      BY <1>2, <1>3, <3>1, NetworkIs, NetworkMoves
  <2>2. CASE DriverCloses
    <3>1. PICK s \in Closing(drv) : drv' = s.v /\ up' = up \o s.msgs
      BY <2>2 DEF DriverCloses, DriverActs
    <3> QED
      BY <1>2, <1>3, <3>1, ClosingIs, ClosingMoves
  <2> QED
    BY <2>1, <2>2
<1>5. /\ Shifted(ch.down, ch'.down, 0) /\ ch'.plci = ch.plci /\ ch'.cs = ch.cs
      /\ IF 0 = 1 THEN 1 \in DOMAIN ch.down /\ ch.down[1] = r ELSE \A p : Harmless(r, p)
  BY <1>2, <1>3, NothingShifts
<1> QED
  BY <1>4, <1>5, DriverMinds

(* Every step.                                                             *)
LEMMA MindsNext ==
  ASSUME Inv, Covered, Minds(ch, drv, up), [Next]_vars
  PROVE  Minds(ch', drv', up')
<1>1. CASE StartSend \/ SendReturns \/ StartReceive \/ DeviceStops \/ SetupTimer
           \/ DisconnectTimer
  BY <1>1, MainMinds
<1>2. CASE ThreadStarts \/ SendsFrame \/ SendDataReturns \/ ThreadStops \/ ReadFails
           \/ ReleaseDisconnects \/ ReleaseCompletes
  BY <1>2, ThreadMinds
<1>3. CASE ReadsMessage
  BY <1>3, ReadMinds
<1>4. CASE ThreadEnds
  BY <1>4, ThreadEndsMinds
<1>5. CASE DriverTakes
  BY <1>5, TakesMinds
<1>6. CASE NetworkActs \/ DriverCloses
  BY <1>6, ActsMinds
<1>7. CASE UNCHANGED vars
  BY <1>7 DEF vars
<1> QED
  BY <1>1, <1>2, <1>3, <1>4, <1>5, <1>6, <1>7 DEF Next, CapiThread, Finished

(* At first there is no connection.                                        *)
LEMMA MindsInit ==
  ASSUME Init
  PROVE  Minds(ch, drv, up)
<1>1. /\ ch.plci = 0 /\ ch.down = <<>> /\ up = <<>> /\ drv = Fresh(0)
  BY DEF Init, New
<1>2. DOMAIN up = {} /\ DOMAIN ch.down = {}
  BY <1>1
<1>3. \A p \in Plcis : drv.link[p].d = "none" /\ p # 0
  BY <1>1, DriverAssumption DEF Fresh, NoLink
<1> QED
  BY <1>1, <1>2, <1>3 DEF Minds, Once, Attended, LiveD

(* A registered channel that is idle, with no message in either direction, *)
(* has not left the driver alone with a call it has forgotten: every       *)
(* CONNECT_CONF and CONNECT_IND is taken, refused or hung up, and every    *)
(* DISCONNECT_IND is answered (CapiChan.cpp).                              *)
THEOREM NoCallIsForgotten ==
  ASSUME Covered
  PROVE  Spec => []NoOrphanCall
<1>1. Inv /\ Minds(ch, drv, up) => NoOrphanCall
  <2> SUFFICES ASSUME Inv, Minds(ch, drv, up), ch.cs = "Registered", up = <<>>, ch.down = <<>>,
                      NEW p \in Plcis
               PROVE  drv.link[p].d \in {"none", "closing"}
    BY DEF NoOrphanCall
  <2>1. ch.plci = 0 /\ p # 0 /\ drv.link[p].d \in DStates
    BY DriverAssumption DEF Inv, Sound, Fits, IdsFit, IdleStates, Drivers, Links, DStates
  <2>2. DOMAIN up = {} /\ DOMAIN ch.down = {}
    OBVIOUS
  <2>3. Attended(drv.link[p].d, up, ch.down, ch.plci, p)
    BY DEF Minds
  <2> QED
    BY <2>1, <2>2, <2>3 DEF Attended, DStates, LiveD
<1>2. Init => Minds(ch, drv, up)
  BY MindsInit
<1>3. Inv /\ Minds(ch, drv, up) /\ [Next]_vars => Minds(ch, drv, up)'
  BY MindsNext DEF Minds
<1>4. Spec => []Inv
  BY InvHolds
<1> QED
  BY <1>1, <1>2, <1>3, <1>4, PTL DEF Spec
=============================================================================
