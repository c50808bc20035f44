----------------------------- MODULE MCSemaphore -----------------------------
EXTENDS Semaphore

CONSTANTS t1, t2, t3

MCAmounts == {1, 2}
MCTimeouts == {Forever, NoWait, 0}
MCOneTimeout == {1}
=============================================================================
