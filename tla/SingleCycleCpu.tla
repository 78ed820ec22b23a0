--------------------------- MODULE SingleCycleCpu ---------------------------
(***************************************************************************)
(* SingleCycleCpu: the architecture of MipsArch, one whole instruction per *)
(* step(), together with what it shows its front ends: the control word,   *)
(* the pipeline snapshot (only the EX entry is ever filled) and the        *)
(* StepResult.                                                             *)
(***************************************************************************)
EXTENDS MipsArch

CONSTANT ResetModes   \* values of clear_memory that callers pass to reset()

ASSUME ResetModesAssumption == ResetModes \subseteq BOOLEAN

VARIABLES
  ctrl,     \* ctrl_
  ps,       \* pipeline_state(): the EX snapshot and the retired flag
  result,   \* what the last step() returned
  fault     \* history: the trap that set EXL, until software takes over CP0

cpuVars == <<arch, op, ctrl, ps, result, fault>>

NoSnapshot == [valid |-> FALSE, pc |-> 0, retired |-> FALSE]

(* The word at the PC was fetched and decoded. *)
Decoded(a) == word_ok(a.pc) /\ decodes(read_word(a.mem, a.pc))

(* ERET, or MTC0 to Status or EPC, is about to be executed. *)
Cop0(a, sub) ==
  /\ Decoded(a)
  /\ decode(read_word(a.mem, a.pc)).opcode = "COP0"
  /\ decode(read_word(a.mem, a.pc)).rs = sub
Eret(a) == Cop0(a, 16) /\ decode(read_word(a.mem, a.pc)).funct = "ERET"
SetsCp0(a) == Cop0(a, 4) /\ decode(read_word(a.mem, a.pc)).rd \in {kRegStatus, kRegEpc}

(* fault is not in the code.  It holds the first trap, at most one: where  *)
(* it was, and what Status was before it.                                  *)
Follow(o) ==
  fault' = IF o.result = "Exception" /\ ~in_exception(arch.cp0)
           THEN {[pc |-> arch.pc, status |-> arch.cp0.status]}
           ELSE IF Eret(arch) \/ SetsCp0(arch) THEN {} ELSE fault

(* A failed fetch or an undecodable word returns before ctrl_ and ps_ are  *)
(* set, so the front ends keep seeing those of the previous step.          *)
CpuStep ==
  LET o == step(arch) IN
  /\ op' = "step"
  /\ arch' = o.arch
  /\ result' = o.result
  /\ Follow(o)
  /\ IF Decoded(arch)
     THEN /\ ctrl' = derive_control(decode(read_word(arch.mem, arch.pc)))
          /\ ps' = [valid |-> TRUE, pc |-> arch.pc, retired |-> o.result \in {"Ok", "Halt"}]
     ELSE UNCHANGED <<ctrl, ps>>

(* Every front end loads into a CPU it has just reset. *)
CpuLoadProgram ==
  /\ op = "reset"
  /\ LoadProgram
  /\ UNCHANGED <<ctrl, ps, result, fault>>

CpuReset(clear_memory) ==
  /\ op' = "reset"
  /\ arch' = reset(arch, clear_memory)
  /\ ctrl' = NoControl
  /\ ps' = NoSnapshot
  /\ fault' = {}
  /\ UNCHANGED result

(* After a step that trapped, the GDB stub puts the PC back on the EPC.    *)
CpuSetPcToEpc ==
  /\ op = "step" /\ result = "Exception"
  /\ op' = "set_pc"
  /\ arch' = [arch EXCEPT !.pc = arch.cp0.epc]
  /\ UNCHANGED <<ctrl, ps, result, fault>>

CpuInit ==
  /\ \E words \in Programs, addr \in LoadAddrs :
       /\ in_bounds(addr, 4 * Len(words))
       /\ arch = [pc |-> addr, regs |-> ZeroRegs, cp0 |-> PowerOnCp0,
                  mem |-> load_words(ZeroMemory, addr, words)]
  /\ op = "load_program"
  /\ ctrl = NoControl
  /\ ps = NoSnapshot
  /\ result = "Ok"
  /\ fault = {}

CpuNext ==
  \/ CpuStep
  \/ CpuLoadProgram
  \/ \E clear_memory \in ResetModes : CpuReset(clear_memory)
  \/ CpuSetPcToEpc

CpuSpec == CpuInit /\ [][CpuNext]_cpuVars

-----------------------------------------------------------------------------
(* Properties *)

(* Type correctness of the architectural state and the snapshot.           *)
CpuTypeOK ==
  /\ arch \in ArchState
  /\ op \in Operation
  /\ ctrl \in Control
  /\ ps \in [valid : BOOLEAN, pc : Word, retired : BOOLEAN]
  /\ result \in StepResult

(* step() never returns Fault: every word the decoder accepts has an ALU   *)
(* operation or a case of its own in exec_rtype and exec_itype.            *)
NeverFaults == result # "Fault"

(* The CPU is well-typed and step() has an answer for every word. *)
CpuInv == CpuTypeOK /\ NeverFaults

(* The ERET that ends a handler goes back to the instruction that trapped  *)
(* first, with the Status it had, however many instructions the handler    *)
(* has run and however many of them have trapped too: in the code a trap   *)
(* that finds EXL set, such as the fetch from an unmapped vector, leaves   *)
(* EPC alone, and nothing but ERET, MTC0 and reset() clears EXL.           *)
EretReturnsToFirstFault ==
  [][op' = "step" /\ Eret(arch) =>
       \A f \in fault : arch'.pc = f.pc /\ arch'.cp0.status = f.status]_cpuVars

(* A handler that is just an ERET undoes a trap: two steps later the PC is *)
(* on the instruction that trapped again, and registers, memory and Status *)
(* are what they were.                                                     *)
EretUndoesTrap ==
  \A t \in {step(arch)} : \A r \in {step(t.arch)} :
      t.result = "Exception" /\ ~in_exception(arch.cp0) /\ Eret(t.arch)
      => /\ r.arch.pc = arch.pc
         /\ r.arch.regs = arch.regs /\ r.arch.mem = arch.mem
         /\ r.arch.cp0.status = arch.cp0.status

(* What ADD, SUB and ADDI mean, and what their result, a load's or store's *)
(* address and a branch's target are made of: integers without a width.    *)
signed_imm(d) == IF d.imm >= HalfSize \div 2 THEN d.imm - HalfSize ELSE d.imm
exact(a, d) ==
  LET x == signed(reg_read(a.regs, d.rs))
      y == signed(reg_read(a.regs, d.rt))
  IN  CASE d.funct = "ADD" -> x + y
        [] d.funct = "SUB" -> x - y
        [] OTHER           -> x + signed_imm(d)

(* The ALU's 32 bits lose nothing: ADD, SUB and ADDI trap exactly when the *)
(* sum does not fit a signed word and write it otherwise; an effective     *)
(* address and a branch target are the exact ones modulo the address       *)
(* space, also across its ends, and a bad address is reported as such.     *)
ArithmeticIsExact ==
  Decoded(arch) =>
    \A d \in {decode(read_word(arch.mem, arch.pc))}, o \in {step(arch)} :
      /\ d.opcode = "ADDI" \/ (d.opcode = "SPECIAL" /\ d.funct \in {"ADD", "SUB"}) =>
           LET dest == IF d.format = "R" THEN d.rd ELSE d.rt IN
           IF exact(arch, d) \in -(WordSize \div 2) .. WordSize \div 2 - 1
           THEN /\ o.result = "Ok"
                /\ dest # 0 => signed(o.arch.regs[dest]) = exact(arch, d)
           ELSE /\ o.result = "Exception" /\ o.arch.cp0.last_exc = Ov
                /\ o.arch.regs = arch.regs
      /\ d.opcode \in {"LW", "LHU", "LBU", "SW"} /\ o.result = "Exception" =>
           o.arch.cp0.bad_vaddr = exact(arch, d) % WordSize
      /\ d.opcode \in {"BEQ", "BNE"} =>
           o.arch.pc = (IF (d.opcode = "BEQ")
                             <=> (reg_read(arch.regs, d.rs) = reg_read(arch.regs, d.rt))
                        THEN arch.pc + 4 + 4 * signed_imm(d) ELSE arch.pc + 4) % WordSize

(* isa/processor.h: single-cycle backends set retired on every step that   *)
(* did not trap; an instruction squashed by an exception never retires.    *)
RetiredOnlyWithoutTrap ==
  op = "step" /\ result = "Exception" => ~ps.retired
=============================================================================
