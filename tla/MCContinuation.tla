--------------------------- MODULE MCContinuation ---------------------------
EXTENDS Continuation, TLC
=============================================================================
