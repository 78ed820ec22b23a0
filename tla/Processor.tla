------------------------------ MODULE Processor ------------------------------
(***************************************************************************)
(* A processor as the front ends see it: isa::IProcessor.  What is in the  *)
(* registers and in memory is identified by the loaded program and the     *)
(* number of cycles since the last reset; which result a step has, where   *)
(* the PC goes and what the pipeline snapshot shows is any of Outcomes, so *)
(* what is shown here holds over every backend and every program.          *)
(***************************************************************************)
EXTENDS Integers

CONSTANTS
  Programs,     \* what the user may load
  Fits,         \* those that fit in memory
  Pcs,          \* addresses
  Outcomes,     \* what a step may do: [result, pc, ps]
  CycleWidth    \* cycle_count() is modulo this

StepResult == {"Ok", "Exception", "Fault", "Halt"}
NoPc == -1
NoProgram == "none"

(* The snapshot: the PC in the stage the user looks at, and what the       *)
(* statistics count.                                                       *)
PipelineState ==
  [stage : Pcs \cup {NoPc}, retired : BOOLEAN, load_stall : BOOLEAN,
   branch_flush : BOOLEAN, forwards : BOOLEAN]
NoPipelineState ==
  [stage |-> NoPc, retired |-> FALSE, load_stall |-> FALSE, branch_flush |-> FALSE,
   forwards |-> FALSE]

ASSUME ProcessorAssumption ==
  /\ Fits \subseteq Programs /\ NoProgram \notin Programs
  /\ Pcs \subseteq Nat /\ 0 \in Pcs
  /\ Outcomes \subseteq [result : StepResult, pc : Pcs, ps : PipelineState]
  /\ CycleWidth \in Nat \ {0}

Cycle == 0 .. CycleWidth - 1
Machine == [program : Fits \cup {NoProgram}, cycle : Cycle, pc : Pcs, ps : PipelineState]

(* Constructed, or reset(true). *)
PoweredOn == [program |-> NoProgram, cycle |-> 0, pc |-> 0, ps |-> NoPipelineState]

(* load_program() writes nothing when the words do not fit. *)
load_program(m, p) ==
  IF p \in Fits THEN [m EXCEPT !.program = p, !.pc = 0] ELSE m

step(m, o) ==
  [m EXCEPT !.cycle = (@ + 1) % CycleWidth, !.pc = o.pc, !.ps = o.ps]

(* run(max_steps): n steps, the last of which is the first not to be Ok    *)
(* unless the budget ends first.                                           *)
run_for(m, o, n) ==
  [m EXCEPT !.cycle = (@ + n) % CycleWidth, !.pc = o.pc, !.ps = o.ps]
RunEnds(o, n, max_steps) == n \in 1 .. max_steps /\ (o.result = "Ok" => n = max_steps)
=============================================================================
