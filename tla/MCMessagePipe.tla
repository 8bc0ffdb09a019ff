--------------------------- MODULE MCMessagePipe ---------------------------
EXTENDS MessagePipe, TLC
=============================================================================
