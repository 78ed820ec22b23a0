------------------------------ MODULE MipsArch ------------------------------
(***************************************************************************)
(* The architecture both CPU models promise: one whole instruction of      *)
(* MipsExec per step on the programmer-visible state.  The repository's    *)
(* tests use SingleCycleCpu in the same way, as the oracle for the         *)
(* pipeline.                                                               *)
(***************************************************************************)
EXTENDS MipsExec

CONSTANTS
  Programs,   \* word sequences a caller may load
  LoadAddrs   \* word-aligned addresses it may load them at

ASSUME ProgramsAssumption ==
  /\ Programs \subseteq Seq(Word)
  /\ \A a \in LoadAddrs : a \in Word /\ a % 4 = 0

VARIABLES
  arch,   \* the programmer-visible state: [pc, regs, mem, cp0]
  op      \* the member function of IProcessor that was last called

Operation == {"step", "load_program", "reset", "set_pc"}

(* step() executes one instruction or, in a pipeline, commits none.        *)
Step ==
  /\ op' = "step"
  /\ arch' = step(arch).arch \/ UNCHANGED arch

LoadProgram ==
  /\ op' = "load_program"
  /\ \E words \in Programs, addr \in LoadAddrs : arch' = load_program(arch, words, addr)

(* Every caller clears the memory too.  last_exc_ outlives a reset, and a  *)
(* pipeline may abandon an instruction whose trap it has not raised yet.   *)
Reset ==
  /\ op' = "reset"
  /\ \E code \in ExceptionCode :
       arch' = [reset(arch, TRUE) EXCEPT !.cp0.last_exc = code]

SetPc ==
  /\ op' = "set_pc"
  /\ \E p \in Word : arch' = [arch EXCEPT !.pc = p]

Next == Step \/ LoadProgram \/ Reset \/ SetPc

(* A CPU that has been constructed and holds some image and entry point. *)
Init ==
  /\ arch \in [pc : Word, regs : {ZeroRegs}, mem : Memory, cp0 : {PowerOnCp0}]
  /\ op = "load_program"

Spec == Init /\ [][Next]_<<arch, op>>
=============================================================================
