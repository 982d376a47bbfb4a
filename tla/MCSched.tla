------------------------------ MODULE MCSched ------------------------------
EXTENDS Sched

MCNiceFirst == -1
MCNiceArg == {0, 2}
=============================================================================
