----------------------------- MODULE CapiDriver -----------------------------
(***************************************************************************)
(* The CAPI 2.0 driver behind libcapi20, as far as src/capi sends to it    *)
(* and listens to it: external code, modelled from the messages that       *)
(* CCAPI20_Channel exchanges.  The driver keeps, per physical connection   *)
(* (PLCI), the state d of the D-channel call and the state b of its one    *)
(* logical connection (NCCI), which carries the number of its PLCI.        *)
(* Pure acknowledgements (CONNECT_ACTIVE_RESP, CONNECT_B3_ACTIVE_RESP,     *)
(* DATA_B3_RESP, DISCONNECT_B3_RESP, INFO_RESP) change nothing here and    *)
(* are left out.                                                           *)
(***************************************************************************)
EXTENDS Naturals, Sequences

CONSTANTS
  Plcis,          \* PLCI numbers the driver may use
  Handles,        \* CAPI data handles
  MaxCalls,       \* bound on the calls that arrive from the network
  StrictDriver    \* a second DISCONNECT_REQ for one PLCI may be refused

ASSUME DriverAssumption ==
  /\ Plcis \subseteq Nat \ {0}
  /\ Handles \subseteq Nat \ {0}
  /\ MaxCalls \in Nat
  /\ StrictDriver \in BOOLEAN

(* A message: its kind, the PLCI or NCCI it is about, whether it reports   *)
(* success or accepts, and the handle of a data block (0 for none).        *)
Requests == {"CONNECT_REQ", "CONNECT_RESP", "CONNECT_B3_REQ", "CONNECT_B3_RESP",
             "DATA_B3_REQ", "DISCONNECT_B3_REQ", "DISCONNECT_REQ",
             "DISCONNECT_RESP", "LISTEN_REQ"}
Reports == {"CONNECT_CONF", "CONNECT_B3_CONF", "DATA_B3_CONF", "LISTEN_CONF",
            "DISCONNECT_B3_CONF", "DISCONNECT_CONF", "CONNECT_IND", "INFO_IND",
            "CONNECT_ACTIVE_IND", "CONNECT_B3_IND", "CONNECT_B3_ACTIVE_IND",
            "DATA_B3_IND", "DISCONNECT_B3_IND", "DISCONNECT_IND"}

Messages(kinds) ==
  [m : kinds, id : Plcis \cup {0}, ok : BOOLEAN, h : Handles \cup {0}]

Msg(m, id) == [m |-> m, id |-> id, ok |-> TRUE, h |-> 0]
No(m, id) == [Msg(m, id) EXCEPT !.ok = FALSE]
Conf(m, id, ok) == [Msg(m, id) EXCEPT !.ok = ok]

(* out: dialled here; the calling side sets up the logical connection.     *)
NoLink == [d |-> "none", b |-> "none", out |-> FALSE]
Links == [d : {"none", "out", "in", "acc", "active", "closing", "down"},
          b : {"none", "conf", "ind", "resp", "up", "closing", "down"},
          out : BOOLEAN]
Drivers == [link : [Plcis -> Links], listen : BOOLEAN, calls : 0 .. MaxCalls]

(* The driver after capi20_register and after capi20_release.              *)
Fresh(calls) ==
  [link |-> [p \in Plcis |-> NoLink], listen |-> FALSE, calls |-> calls]

Unused(v) == {p \in Plcis : v.link[p] = NoLink}

(* One step of the driver: its next state and the messages it sends.       *)
Step(v, msgs) == [v |-> v, msgs |-> msgs]
Dial(v, p) ==
  Step([v EXCEPT !.link[p] = [d |-> "out", b |-> "none", out |-> TRUE]],
       <<Msg("CONNECT_CONF", p)>>)
SetD(v, p, d) == [v EXCEPT !.link[p].d = d]
SetB(v, p, b) == [v EXCEPT !.link[p].b = b]

LiveD == {"out", "in", "acc", "active"}
LiveB == {"conf", "ind", "resp", "up"}

(* The steps with which the driver may take request r.                     *)
ConnectSteps(v) ==
  {Dial(v, p) : p \in Unused(v)} \cup {Step(v, <<No("CONNECT_CONF", 0)>>)}

ConnectRespSteps(v, r) ==
  {Step(IF v.link[r.id].d # "in" THEN v
        ELSE SetD(v, r.id, IF r.ok THEN "acc" ELSE "closing"), <<>>)}

ConnectB3Steps(v, r) ==
  LET can == v.link[r.id].d = "active" /\ v.link[r.id].b = "none"
      refuse == Step(v, <<No("CONNECT_B3_CONF", r.id)>>)
      accept == Step(SetB(v, r.id, "conf"), <<Msg("CONNECT_B3_CONF", r.id)>>)
  IN  IF can THEN {accept, refuse} ELSE {refuse}

ConnectB3RespSteps(v, r) ==
  {Step(IF v.link[r.id].b # "ind" THEN v
        ELSE SetB(v, r.id, IF r.ok THEN "resp" ELSE "closing"), <<>>)}

DataSteps(v, r) ==
  {Step(v, <<[m |-> "DATA_B3_CONF", id |-> r.id, h |-> r.h,
              ok |-> v.link[r.id].b = "up"]>>)}

DisconnectB3Steps(v, r) ==
  LET can == v.link[r.id].b \in LiveB
  IN  {Step(IF can THEN SetB(v, r.id, "closing") ELSE v,
            <<Conf("DISCONNECT_B3_CONF", r.id, can)>>)}

DisconnectSteps(v, r) ==
  LET d == v.link[r.id].d
      yes == Step(IF d \in LiveD THEN SetD(v, r.id, "closing") ELSE v,
                  <<Msg("DISCONNECT_CONF", r.id)>>)
      no == Step(v, <<No("DISCONNECT_CONF", r.id)>>)
  IN  CASE d \in LiveD -> {yes}
        [] d = "closing" -> IF StrictDriver THEN {yes, no} ELSE {yes}
        [] OTHER -> {no}

DisconnectRespSteps(v, r) ==
  {Step(IF v.link[r.id].d = "down" THEN [v EXCEPT !.link[r.id] = NoLink] ELSE v,
        <<>>)}

Take(v, r) ==
  CASE r.m = "CONNECT_REQ" -> ConnectSteps(v)
    [] r.m = "CONNECT_RESP" -> ConnectRespSteps(v, r)
    [] r.m = "CONNECT_B3_REQ" -> ConnectB3Steps(v, r)
    [] r.m = "CONNECT_B3_RESP" -> ConnectB3RespSteps(v, r)
    [] r.m = "DATA_B3_REQ" -> DataSteps(v, r)
    [] r.m = "DISCONNECT_B3_REQ" -> DisconnectB3Steps(v, r)
    [] r.m = "DISCONNECT_REQ" -> DisconnectSteps(v, r)
    [] r.m = "DISCONNECT_RESP" -> DisconnectRespSteps(v, r)
    [] r.m = "LISTEN_REQ" ->
         {Step([v EXCEPT !.listen = TRUE], <<Msg("LISTEN_CONF", 0)>>),
          Step(v, <<No("LISTEN_CONF", 0)>>)}

(* What the network may do at any time: a call arrives, the other side     *)
(* answers, sets up or accepts the logical connection, sends data or       *)
(* further digits, hangs up.  data and digit bound the reports in flight.  *)
Network(v, data, digit) ==
  {Step([SetD(v, p, "in") EXCEPT !.calls = @ + 1], <<Msg("CONNECT_IND", p)>>) :
     p \in {q \in Unused(v) : v.listen /\ v.calls < MaxCalls}}
  \cup
  {Step(v, <<Msg("INFO_IND", p)>>) :
     p \in {q \in Plcis : digit /\ v.link[q].d = "in"}}
  \cup
  {Step(SetD(v, p, "active"), <<Msg("CONNECT_ACTIVE_IND", p)>>) :
     p \in {q \in Plcis : v.link[q].d \in {"out", "acc"}}}
  \cup
  {Step(SetB(v, p, "ind"), <<Msg("CONNECT_B3_IND", p)>>) :
     p \in {q \in Plcis : /\ v.link[q].d = "active" /\ v.link[q].b = "none"
                          /\ ~v.link[q].out}}
  \cup
  {Step(SetB(v, p, "up"), <<Msg("CONNECT_B3_ACTIVE_IND", p)>>) :
     p \in {q \in Plcis : v.link[q].d = "active" /\ v.link[q].b \in {"conf", "resp"}}}
  \cup
  {Step(v, <<Msg("DATA_B3_IND", p)>>) :
     p \in {q \in Plcis : data /\ v.link[q].b = "up"}}
  \cup
  {Step(SetB(v, p, "closing"), <<>>) : p \in {q \in Plcis : v.link[q].b \in LiveB}}
  \cup
  {Step(SetD(v, p, "closing"), <<>>) : p \in {q \in Plcis : v.link[q].d \in LiveD}}

(* What the driver owes: a connection that is being closed goes down,      *)
(* logical connection first.                                               *)
Closing(v) ==
  {Step(SetB(v, p, "down"), <<Msg("DISCONNECT_B3_IND", p)>>) :
     p \in {q \in Plcis : \/ v.link[q].b = "closing"
                          \/ v.link[q].d = "closing" /\ v.link[q].b \in LiveB}}
  \cup
  {Step(SetD(v, p, "down"), <<Msg("DISCONNECT_IND", p)>>) :
     p \in {q \in Plcis : v.link[q].d = "closing" /\ v.link[q].b \in {"none", "down"}}}
=============================================================================
