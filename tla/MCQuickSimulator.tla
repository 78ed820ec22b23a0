--------------------------- MODULE MCQuickSimulator ---------------------------
EXTENDS QuickSimulator, MCFrontEnds
=============================================================================
