----------------------------- MODULE MCRecvCall -----------------------------
(* Two receivers of one device; the sequence number is about to wrap.      *)
EXTENDS RecvCall
MCReceivers == {1, 2}
MCDisk == [seq |-> 2, names |-> {<<1, 1>>}]
MCDocuments == {1, 2}
=============================================================================
