------------------------------ MODULE MCCalls -------------------------------
(* What channels keep of their calls: the handles of blocks that are sent,   *)
(* the claims on incoming calls, the numbers to answer, and the messages as  *)
(* structures, sent and received.  A behaviour is one of a part, the others  *)
(* rest at their initial state.                                              *)
EXTENDS DataHandle, PlciList, MCMsnList, CapiMessage, TLC

CONSTANTS d1, d2

VARIABLE part

MCData == {d1, d2}
PlciSymmetry == Permutations(Channels)
MCStrings == {<<>>, <<7, 8>>}
MCInfos == {<<>>, [i \in 1 .. MaxByte + 1 |-> i]}

MCInit ==
  /\ Init /\ PlciInit /\ MsnInit /\ MsgInit
  /\ part \in {"handles", "claims", "numbers", "sent", "received"}

Handles  == part = "handles" /\ Next /\ UNCHANGED <<plciVars, msnVars, msgVars, part>>
Claims   == part = "claims" /\ PlciNext /\ UNCHANGED <<vars, msnVars, msgVars, part>>
Numbered == part = "numbers" /\ MsnNext /\ UNCHANGED <<vars, plciVars, msgVars, part>>
Sends    == part = "sent" /\ Out /\ UNCHANGED <<vars, plciVars, msnVars, part>>
Receives ==
  /\ part = "received" /\ last.way = "none" /\ Reads
  /\ UNCHANGED <<vars, plciVars, msnVars, part>>

MCSpec ==
  /\ MCInit
  /\ [][Handles \/ Claims \/ Numbered\/ Sends \/ Receives]_<<vars, plciVars, msnVars, msgVars, part>>
=============================================================================
