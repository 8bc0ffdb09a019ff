--------------------------- MODULE MCTaskScheduler ---------------------------
EXTENDS TaskScheduler
CONSTANT t1
=============================================================================
