---------------------------- MODULE MCRecvDevice ----------------------------
(* Devices with two receivers each, and one that is not configured.        *)
EXTENDS RecvDevice
=============================================================================
