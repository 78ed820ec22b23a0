---------------------------- MODULE MCMainWindow ----------------------------
EXTENDS MainWindow, MCFrontEnds
=============================================================================
