------------------------------- MODULE MCRecv -------------------------------
(* One receive channel of faxrecv, with as many connections at a time as   *)
(* calls arrive.                                                           *)
EXTENDS Channel
MCPlcis == 1 .. MaxCalls
MCHandles == {1}
=============================================================================
