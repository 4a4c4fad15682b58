------------------------------ MODULE CallLife ------------------------------
(***************************************************************************)
(* What a CTransferChannel promises to the application about one call      *)
(* (the virtual functions of src/capi/Channel.h): after MakeCall or        *)
(* IncomingCall, IsConnected at most once, DisconnectInquiry at most once  *)
(* and never before the call, and IsDisconnected exactly once before the   *)
(* next call begins.  There is one exception: IsDisconnected also tells of *)
(* the end of a call that was never told of, when it hangs up before its   *)
(* DDI number is complete and m_DDIPrefixLen is 0.                         *)
(***************************************************************************)
EXTENDS Naturals

VARIABLES
  phase,    \* what the application was last told; "unseen": of no call, but
            \* there is one, and its end will be told
  begun     \* calls begun so far

vars == <<phase, begun>>

Init == phase = "idle" /\ begun = 0

(* A call with an empty DDI prefix waits for the digits of its number.     *)
Awaits == phase = "idle" /\ phase' = "unseen" /\ UNCHANGED begun

Begins ==
  /\ phase \in {"idle", "unseen"} /\ phase' = "setup"
  /\ begun' = begun + 1

(* Dialling failed inside MakeCall: the call begins and ends in one step.  *)
Fails == phase = "idle" /\ begun' = begun + 1 /\ UNCHANGED phase

Connects == phase = "setup" /\ phase' = "connected" /\ UNCHANGED begun

Inquires ==
  /\ phase \in {"setup", "connected"} /\ phase' = "closing"
  /\ UNCHANGED begun

Ends == phase # "idle" /\ phase' = "idle" /\ UNCHANGED begun

Next == Awaits \/ Begins \/ Fails \/ Connects \/ Inquires \/ Ends

Spec == Init /\ [][Next]_vars
=============================================================================
