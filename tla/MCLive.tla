------------------------------- MODULE MCLive -------------------------------
(* What must happen in the end in faxrecv: a stopped receiver is deleted,    *)
(* and the timers of the channels fire.  A behaviour is one of a part, the   *)
(* other rests at its initial state.  The timers go no further where         *)
(* somebody has gone astray, though the program does.                        *)
EXTENDS MCRecv, TimerList

VARIABLE part

MCInit ==
  /\ Init /\ TimerInit /\ part \in {"receiver", "timers"}
  /\ part = "timers" => ch = New(TRUE)

Receives == part = "receiver" /\ Next /\ UNCHANGED <<timerVars, part>>
Ticks == part = "timers" /\ TimerNext /\ UNCHANGED <<vars, part>>
Astray == ~Whole /\ UNCHANGED <<vars, timerVars, part>>

(* Where a part rests none of its fair actions is enabled, except Tick.      *)
MCSpec ==
  /\ MCInit /\ [][Receives \/ Ticks \/ Astray]_<<vars, timerVars, part>>
  /\ Fairness /\ \A s \in Slots : WF_timerVars(Goes(s))
  /\ WF_timerVars(part = "timers" /\ (Tick \/ Notifies))
=============================================================================
