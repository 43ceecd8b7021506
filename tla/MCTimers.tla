------------------------------ MODULE MCTimers ------------------------------
EXTENDS Timers, TLC
CONSTANTS w1, w2, p1, p2
=============================================================================
