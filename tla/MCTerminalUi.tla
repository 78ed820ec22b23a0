---------------------------- MODULE MCTerminalUi ----------------------------
EXTENDS TerminalUi, MCFrontEnds

MCUiOutcomes ==
  {[result |-> "Ok",        pc |-> 4, ps |-> Snap(0, TRUE, FALSE)],
   [result |-> "Ok",        pc |-> 0, ps |-> Snap(-1, FALSE, TRUE)],
   [result |-> "Halt",      pc |-> 4, ps |-> Snap(0, TRUE, FALSE)],
   [result |-> "Exception", pc |-> 4, ps |-> Snap(-1, FALSE, FALSE)]}
=============================================================================
