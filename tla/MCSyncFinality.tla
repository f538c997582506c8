--------------------------- MODULE MCSyncFinality ---------------------------
EXTENDS SyncFinality, MCChain
=============================================================================
