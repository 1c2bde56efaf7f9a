------------------------- MODULE MCCycleAccounting -------------------------
EXTENDS CycleAccounting

MCMarks == {-1, 0, 2}
=============================================================================
