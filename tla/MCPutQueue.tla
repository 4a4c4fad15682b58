---------------------------- MODULE MCPutQueue ----------------------------
EXTENDS PutQueue
=============================================================================
