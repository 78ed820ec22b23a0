----------------------------- MODULE MCFrontEnds -----------------------------
(***************************************************************************)
(* Values for the processor below the front ends: two addresses and a step *)
(* that may retire an instruction, stall, or end in each of the results.   *)
(***************************************************************************)
EXTENDS Integers

Snap(stage, retired, load_stall) ==
  [stage |-> stage, retired |-> retired, load_stall |-> load_stall,
   branch_flush |-> FALSE, forwards |-> FALSE]

MCPcs == {0, 4}
MCOutcomes ==
  {[result |-> "Ok",        pc |-> 4, ps |-> Snap(0, TRUE, FALSE)],
   [result |-> "Ok",        pc |-> 0, ps |-> Snap(-1, FALSE, TRUE)],
   [result |-> "Halt",      pc |-> 4, ps |-> Snap(4, TRUE, FALSE)],
   [result |-> "Exception", pc |-> 4, ps |-> Snap(-1, FALSE, FALSE)],
   [result |-> "Fault",     pc |-> 0, ps |-> Snap(0, FALSE, FALSE)]}

(* For the window, whose panels multiply the states: every step retires an *)
(* instruction (an older one, when it traps), and the stage in view holds  *)
(* the instruction at 0 or none.                                           *)
MCWindowOutcomes ==
  {[result |-> "Ok",        pc |-> 4, ps |-> Snap(0, TRUE, FALSE)],
   [result |-> "Ok",        pc |-> 0, ps |-> Snap(-1, TRUE, FALSE)],
   [result |-> "Halt",      pc |-> 4, ps |-> Snap(0, TRUE, FALSE)],
   [result |-> "Exception", pc |-> 4, ps |-> Snap(-1, TRUE, FALSE)]}
=============================================================================
