----------------------------- MODULE MCActions -----------------------------
EXTENDS ActionWorker
CONSTANTS p1, p2, w1, w2, s1, s2
=============================================================================
