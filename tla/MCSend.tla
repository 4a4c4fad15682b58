------------------------------- MODULE MCSend -------------------------------
(* faxsend: two faxes in a row over one send block of two handles.         *)
EXTENDS Channel
MCPlcis == {1}
MCHandles == {1, 2}
=============================================================================
