------------------------ MODULE SingleCycleCpuProofs ------------------------
(***************************************************************************)
(* Theorems about SingleCycleCpu, for every word width, memory size,       *)
(* program and exception vector.  What an instruction does is in           *)
(* MipsIsaProofs: step() completes, halts or raises, and what it raises    *)
(* only moves the PC and CP0.                                              *)
(***************************************************************************)
EXTENDS SingleCycleCpu, MipsIsaProofs

-----------------------------------------------------------------------------
(* Type correctness, and an answer for every word *)

LEMMA DecodedControlType ==
  ASSUME NEW a \in ArchState, Decoded(a)
  PROVE  derive_control(decode(read_word(a.mem, a.pc))) \in Control
<1>1. read_word(a.mem, a.pc) \in Word
  BY ArchParts, ReadWordType DEF Decoded
<1>2. decode(read_word(a.mem, a.pc)) \in DecodedInstr
  BY <1>1, DecodedParts DEF Decoded
<1> QED BY <1>2, ControlType

LEMMA InitInv ==
  ASSUME CpuInit
  PROVE  CpuInv
<1>1. arch \in ArchState
  <2>1. PICK words \in Programs, addr \in LoadAddrs :
          /\ in_bounds(addr, 4 * Len(words))
          /\ arch = [pc |-> addr, regs |-> ZeroRegs, cp0 |-> PowerOnCp0,
                     mem |-> load_words(ZeroMemory, addr, words)]
    BY DEF CpuInit
  <2>2. words \in Seq(Word) /\ addr \in Word
    BY ProgramsAssumption
  <2>3. load_words(ZeroMemory, addr, words) \in Memory
    BY <2>2, ZeroMemoryType, LoadWordsType
  <2>4. ZeroRegs \in RegisterFile
    BY ZeroIsWord DEF ZeroRegs, RegisterFile
  <2> QED BY <2>1, <2>2, <2>3, <2>4, PowerOnCp0Type DEF ArchState
<1>2. /\ op \in Operation /\ ctrl \in Control /\ result \in StepResult /\ result # "Fault"
      /\ ps \in [valid : BOOLEAN, pc : Word, retired : BOOLEAN]
  BY ZeroIsWord, ControlBubbleType
  DEF CpuInit, Operation, StepResult, NoSnapshot
<1> QED BY <1>1, <1>2 DEF CpuInv, CpuTypeOK, NeverFaults

LEMMA StepInv ==
  ASSUME CpuInv, CpuStep
  PROVE  CpuInv'
<1> DEFINE o == step(arch)
<1>1. arch \in ArchState /\ arch.pc \in Word
  BY ArchParts DEF CpuInv, CpuTypeOK
<1>2. o \in Outcome /\ o.result # "Fault"
  BY <1>1, StepOutcome
<1>3. op' = "step" /\ arch' = o.arch /\ result' = o.result
  BY DEF CpuStep
<1>4. /\ ctrl' \in Control
      /\ ps' \in [valid : BOOLEAN, pc : Word, retired : BOOLEAN]
  <2>1. CASE Decoded(arch)
    <3> DEFINE b == o.result \in {"Ok", "Halt"}
    <3>1. ctrl' \in Control
      BY <1>1, <2>1, DecodedControlType DEF CpuStep
    <3>2. ps' = [valid |-> TRUE, pc |-> arch.pc, retired |-> b]
      BY <2>1 DEF CpuStep
    <3>3. b \in BOOLEAN
      OBVIOUS
    <3> HIDE DEF b
    <3> QED BY <1>1, <3>1, <3>2, <3>3
  <2>2. CASE ~Decoded(arch)
    BY <2>2 DEF CpuStep, CpuInv, CpuTypeOK
  <2> QED BY <2>1, <2>2
<1> HIDE DEF o
<1>5. arch' \in ArchState /\ result' \in StepResult
  <2> HIDE DEF ArchState
  <2> QED BY <1>2, <1>3 DEF Outcome
<1> QED BY <1>2, <1>3, <1>4, <1>5 DEF CpuInv, CpuTypeOK, NeverFaults, Operation

LEMMA NextInv ==
  ASSUME CpuInv, [CpuNext]_cpuVars
  PROVE  CpuInv'
<1>1. /\ arch \in ArchState /\ op \in Operation /\ ctrl \in Control
      /\ ps \in [valid : BOOLEAN, pc : Word, retired : BOOLEAN]
      /\ result \in StepResult /\ result # "Fault"
  BY DEF CpuInv, CpuTypeOK, NeverFaults
<1>2. CASE CpuStep
  BY <1>2, StepInv
<1>3. CASE CpuLoadProgram
  <2>1. PICK words \in Programs, addr \in LoadAddrs : arch' = load_program(arch, words, addr)
    BY <1>3 DEF CpuLoadProgram, LoadProgram
  <2>2. words \in Seq(Word) /\ addr \in Word
    BY ProgramsAssumption
  <2>3. load_words(arch.mem, addr, words) \in Memory
    BY <1>1, <2>2, ArchParts, LoadWordsType
  <2>4. arch' \in ArchState
    BY <1>1, <2>1, <2>2, <2>3 DEF load_program, ArchState
  <2> QED
    BY <1>1, <1>3, <2>4
    DEF CpuLoadProgram, LoadProgram, CpuInv, CpuTypeOK, NeverFaults, Operation
<1>4. ASSUME NEW clear_memory \in ResetModes, CpuReset(clear_memory)
      PROVE  CpuInv'
  <2>1. arch' = [pc |-> 0, regs |-> ZeroRegs, cp0 |-> cp0_reset(arch.cp0),
                 mem |-> IF clear_memory THEN ZeroMemory ELSE arch.mem]
    BY <1>4 DEF CpuReset, reset
  <2>2. ZeroRegs \in RegisterFile /\ cp0_reset(arch.cp0) \in Cp0
    BY <1>1, ArchParts, Cp0ResetType, ZeroIsWord DEF ZeroRegs, RegisterFile
  <2>3. arch' \in ArchState
    BY <1>1, <2>1, <2>2, ArchParts, ZeroMemoryType, ZeroIsWord DEF ArchState
  <2> QED
    BY <1>1, <1>4, <2>3, ZeroIsWord, ControlBubbleType
    DEF CpuReset, CpuInv, CpuTypeOK, NeverFaults, Operation, NoSnapshot
<1>5. CASE CpuSetPcToEpc
  <2>1. arch.cp0.epc \in Word
    BY <1>1, ArchParts DEF Cp0
  <2>2. arch' \in ArchState
    BY <1>1, <1>5, <2>1 DEF CpuSetPcToEpc, ArchState
  <2> QED
    BY <1>1, <1>5, <2>2
    DEF CpuSetPcToEpc, CpuInv, CpuTypeOK, NeverFaults, Operation
<1>6. CASE UNCHANGED cpuVars
  BY <1>1, <1>6 DEF cpuVars, CpuInv, CpuTypeOK, NeverFaults
<1> QED BY <1>2, <1>3, <1>4, <1>5, <1>6 DEF CpuNext

(* The single-cycle CPU keeps every width and step() has an answer for     *)
(* every word: the Fault that exec_rtype and exec_itype return for an      *)
(* instruction without an ALU operation is unreachable behind the decoder. *)
THEOREM SingleCycleIsSafe == CpuSpec => []CpuInv
<1>1. CpuInit => CpuInv
  BY InitInv
<1>2. CpuInv /\ [CpuNext]_cpuVars => CpuInv'
  BY NextInv
<1> QED BY <1>1, <1>2, PTL DEF CpuSpec

-----------------------------------------------------------------------------
(* Traps and ERET *)

(* Setting and clearing EXL of a CP0 that is not in an exception. *)
LEMMA ExlRoundTrip ==
  ASSUME NEW c \in Cp0, NEW e \in Cp0, ~in_exception(c), e.status = set_exl(c)
  PROVE  cp0_eret(e).status = c.status
<1>1. c.status \in Nat /\ e.status = c.status + 2
  BY WidthFacts DEF Cp0, Word, set_exl
<1>2. (c.status \div 2) % 2 = 0
  BY <1>1 DEF in_exception
<1>3. in_exception(e)
  BY <1>1, <1>2 DEF in_exception
<1> QED BY <1>1, <1>3 DEF cp0_eret, Cp0

(* ERET, wherever it stands. *)
LEMMA EretStep ==
  ASSUME NEW a \in ArchState, Eret(a)
  PROVE  /\ step(a).arch.pc = a.cp0.epc /\ step(a).arch.regs = a.regs
         /\ step(a).arch.mem = a.mem /\ step(a).arch.cp0 = cp0_eret(a.cp0)
<1> DEFINE w == read_word(a.mem, a.pc)
           d == decode(w)
           o == exec_instr(a, d)
<1>1. w \in Word /\ word_ok(a.pc) /\ decodes(w)
  BY ArchParts, ReadWordType DEF Eret, Cop0, Decoded
<1>2. d.opcode = "COP0" /\ d.rs = 16 /\ d.funct = "ERET"
  BY DEF Eret, Cop0
<1> HIDE DEF w
<1>5. d \in DecodedInstr /\ d.format = "R"
  BY <1>1, <1>2, DecodedParts DEF format_of
<1> HIDE DEF d
<1>6. o = exec_cop0(a, d)
  BY <1>2, <1>5 DEF exec_instr, exec_rtype
<1>7. Reaches(o, "Ok", a.cp0.epc, a.regs, a.mem, cp0_eret(a.cp0))
  BY <1>2, <1>5, <1>6, Cop0Reaches
<1>8. step(a).arch = o.arch
  BY <1>1, StepOutcome DEF w, d, o
<1> QED BY <1>7, <1>8 DEF Reaches

(* A handler that is just an ERET undoes a trap, wherever in the program   *)
(* and for whichever cause the trap was raised: the PC is back on the      *)
(* instruction that trapped, and registers, memory and Status are as they  *)
(* were, so that the instruction runs again under the same conditions.     *)
THEOREM EretReturnsToFault == CpuSpec => []EretUndoesTrap
<1>1. CpuInv => EretUndoesTrap
  <2> SUFFICES ASSUME CpuInv,
                      NEW t, t = step(arch), NEW r, r = step(t.arch),
                      t.result = "Exception", ~in_exception(arch.cp0), Eret(t.arch)
               PROVE  /\ r.arch.pc = arch.pc
                      /\ r.arch.regs = arch.regs /\ r.arch.mem = arch.mem
                      /\ r.arch.cp0.status = arch.cp0.status
    BY DEF EretUndoesTrap
  <2>1. arch \in ArchState
    BY DEF CpuInv, CpuTypeOK
  <2>2. Raised(arch, t)
    BY <2>1, StepOutcome
  <2>3. /\ t.arch \in ArchState /\ t.arch.pc = kExceptionVector
        /\ t.arch.regs = arch.regs /\ t.arch.mem = arch.mem
        /\ t.arch.cp0.epc = arch.pc /\ t.arch.cp0.status = set_exl(arch.cp0)
    BY <2>1, <2>2, RaisedCp0
  <2> DEFINE b == t.arch
  <2> HIDE DEF b
  <2>4. /\ b \in ArchState /\ Eret(b) /\ b.regs = arch.regs
        /\ b.mem = arch.mem /\ b.cp0.epc = arch.pc /\ b.cp0.status = set_exl(arch.cp0)
    BY <2>3 DEF b
  <2>5. /\ step(b).arch.pc = b.cp0.epc /\ step(b).arch.regs = b.regs
        /\ step(b).arch.mem = b.mem /\ step(b).arch.cp0 = cp0_eret(b.cp0)
    BY <2>4, EretStep
  <2>6. cp0_eret(b.cp0).status = arch.cp0.status
    BY <2>1, <2>4, ArchParts, ExlRoundTrip
  <2> QED BY <2>4, <2>5, <2>6 DEF b
<1> QED BY <1>1, SingleCycleIsSafe, PTL

(* Status and EPC are moved by a trap, by ERET and by the two MTC0 that    *)
(* name them, and by no other instruction.                                 *)
LEMMA InstrKeepsCp0 ==
  ASSUME NEW a \in ArchState, NEW w \in Word, decodes(w),
         exec_instr(a, decode(w)).result # "Exception",
         ~(decode(w).opcode = "COP0" /\ decode(w).rs = 16 /\ decode(w).funct = "ERET"),
         ~(/\ decode(w).opcode = "COP0" /\ decode(w).rs = 4
           /\ decode(w).rd \in {kRegStatus, kRegEpc})
  PROVE  /\ exec_instr(a, decode(w)).arch.cp0.status = a.cp0.status
         /\ exec_instr(a, decode(w)).arch.cp0.epc = a.cp0.epc
<1> DEFINE d == decode(w)
           o == exec_instr(a, d)
           G == o.arch.cp0.status = a.cp0.status /\ o.arch.cp0.epc = a.cp0.epc
<1>1. /\ d \in DecodedInstr /\ d.format \in {"R", "I", "J"}
      /\ d.format = "R" => /\ d.opcode \in {"SPECIAL", "COP0"}
                           /\ d.opcode = "SPECIAL" => d.funct \in SpecialFuncts
      /\ d.format = "I" => d.opcode \in IOpcodes
  BY DecodedParts
<1>2. /\ o.result # "Exception"
      /\ ~(d.opcode = "COP0" /\ d.rs = 16 /\ d.funct = "ERET")
      /\ ~(d.opcode = "COP0" /\ d.rs = 4 /\ d.rd \in {kRegStatus, kRegEpc})
  OBVIOUS
<1> SUFFICES G
  OBVIOUS
<1> HIDE DEF d
<1>3. CASE d.format = "J"
  BY <1>1, <1>3, JtypeReaches DEF exec_instr, Reaches
<1>4. CASE d.format = "R" /\ d.opcode = "COP0"
  <2>1. o = exec_cop0(a, d)
    BY <1>4 DEF exec_instr, exec_rtype
  <2>2. a.cp0 \in Cp0
    BY ArchParts
  <2>3. CASE d.rs = 4
    <3>1. o.arch.cp0 = cp0_write(a.cp0, d.rd, reg_read(a.regs, d.rt))
      BY <1>1, <2>1, <2>3, Cop0Reaches DEF Reaches
    <3> QED BY <1>2, <1>4, <2>2, <2>3, <3>1 DEF cp0_write, Cp0
  <2>4. CASE d.rs # 4
    BY <1>1, <1>2, <1>4, <2>1, <2>4, Cop0Reaches DEF Reaches
  <2> QED BY <2>3, <2>4
<1>5. CASE d.format = "R" /\ d.opcode = "SPECIAL"
  <2>1. o = exec_rtype(a, d)
    BY <1>5 DEF exec_instr
  <2>2. d.funct \notin {"SYSCALL", "BREAK"}
    <3>1. d.funct = "SYSCALL" => o = raise(a, Sys, 0)
      BY <1>5, <2>1 DEF exec_rtype
    <3>2. d.funct = "BREAK" => o = raise(a, Bp, 0)
      BY <1>5, <2>1 DEF exec_rtype
    <3> QED BY <1>2, <3>1, <3>2 DEF raise
  <2>3. CASE d.funct \in {"JR", "JALR"}
    BY <1>1, <1>5, <2>1, <2>3, RegisterJumpReaches DEF Reaches
  <2>4. CASE d.funct \notin {"JR", "JALR"}
    <3>1. o = exec_alu_rtype(a, d)
      BY <1>5, <2>1, <2>2, <2>4 DEF exec_rtype
    <3>2. alu_control(d) # "none"
      BY <1>1, <1>5, <2>2, <2>4, AluControlled
    <3> QED BY <1>1, <1>2, <3>1, <3>2, AluRtypeReaches DEF Reaches
  <2> QED BY <2>3, <2>4
<1>6. CASE d.format = "I" /\ d.opcode \in {"BEQ", "BNE"}
  <2>1. o = exec_branch(a, d)
    BY <1>6 DEF exec_instr, exec_itype
  <2> QED BY <1>1, <1>6, <2>1, BranchReaches DEF Reaches
<1>7. CASE d.format = "I" /\ d.opcode \notin {"BEQ", "BNE"}
  <2>1. o = exec_itype(a, d)
    BY <1>7 DEF exec_instr
  <2> DEFINE v == ItypeResult(a, d).value
  <2>2. v \in Word
    BY <1>1, ItypeResultType
  <2>3. /\ d.opcode \in Loads => o = exec_load(a, d, v)
        /\ d.opcode = "SW" => o = exec_store(a, d, v)
        /\ d.opcode \notin Loads \cup {"SW"} => G
    BY <1>1, <1>2, <1>7, <2>1, ItypeReaches DEF Reaches
  <2>4. d.opcode \in Loads => G
    BY <1>1, <1>2, <2>2, <2>3, LoadReaches DEF Reaches
  <2>5. d.opcode = "SW" => G
    BY <1>1, <1>2, <2>2, <2>3, StoreReaches DEF Reaches
  <2> QED BY <2>3, <2>4, <2>5
<1> QED BY <1>1, <1>3, <1>4, <1>5, <1>6, <1>7

LEMMA StepKeepsCp0 ==
  ASSUME NEW a \in ArchState, step(a).result # "Exception", ~Eret(a), ~SetsCp0(a)
  PROVE  step(a).arch.cp0.status = a.cp0.status /\ step(a).arch.cp0.epc = a.cp0.epc
<1> DEFINE w == read_word(a.mem, a.pc)
           o == exec_instr(a, decode(w))
<1>1. word_ok(a.pc) /\ decodes(w) /\ Decoded(a)
  <2>1. \A code, bad_addr : raise(a, code, bad_addr).result = "Exception"
    BY DEF raise
  <2>2. /\ ~word_ok(a.pc) => step(a) = raise(a, AdEL, a.pc)
        /\ word_ok(a.pc) /\ ~decodes(w) => step(a) = raise(a, RI, 0)
    BY StepOutcome
  <2> QED BY <2>1, <2>2 DEF Decoded
<1>2. w \in Word
  BY <1>1, ArchParts, ReadWordType
<1>3. step(a).arch = o.arch /\ o.result # "Exception"
  BY <1>1, StepOutcome
<1>4. /\ ~(decode(w).opcode = "COP0" /\ decode(w).rs = 16 /\ decode(w).funct = "ERET")
      /\ ~(/\ decode(w).opcode = "COP0" /\ decode(w).rs = 4
           /\ decode(w).rd \in {kRegStatus, kRegEpc})
  BY <1>1 DEF Eret, SetsCp0, Cop0
<1> QED BY <1>1, <1>2, <1>3, <1>4, InstrKeepsCp0

(* While the handler of a trap runs and leaves Status and EPC to the       *)
(* hardware, EXL is set, EPC is the address of that trap, and taking EXL   *)
(* out of Status gives the Status it interrupted.                          *)
FaultInv ==
  \A f \in fault :
    /\ in_exception(arch.cp0) /\ arch.cp0.epc = f.pc
    /\ f.status \in Word /\ arch.cp0.status = f.status + 2

LEMMA SetExl ==
  ASSUME NEW c \in Cp0
  PROVE  /\ in_exception(c) => set_exl(c) = c.status
         /\ ~in_exception(c) =>
              /\ set_exl(c) = c.status + 2
              /\ ((c.status + 2) \div 2) % 2 = 1
<1>1. c.status \in Nat
  BY WidthFacts DEF Cp0, Word
<1>2. ~in_exception(c) => (c.status \div 2) % 2 = 0
  BY <1>1 DEF in_exception
<1>3. (c.status \div 2) % 2 = 0 => ((c.status + 2) \div 2) % 2 = 1
  BY <1>1
<1> QED BY <1>2, <1>3 DEF set_exl

LEMMA StepFaultInv ==
  ASSUME CpuInv, FaultInv, CpuStep
  PROVE  FaultInv'
<1> DEFINE o == step(arch)
           c == arch.cp0
<1>1. arch \in ArchState /\ c \in Cp0 /\ arch.pc \in Word
  BY ArchParts DEF CpuInv, CpuTypeOK
<1>2. arch' = o.arch /\ Follow(o)
  BY DEF CpuStep
<1>3. o.result = "Exception" =>
        /\ o.arch.cp0.epc = IF in_exception(c) THEN c.epc ELSE arch.pc
        /\ o.arch.cp0.status = set_exl(c)
  BY <1>1, StepOutcome, RaisedCp0
<1> HIDE DEF o
<1>4. CASE o.result = "Exception" /\ ~in_exception(c)
  <2>1. fault' = {[pc |-> arch.pc, status |-> c.status]}
    BY <1>2, <1>4 DEF Follow
  <2>2. /\ arch'.cp0.epc = arch.pc /\ arch'.cp0.status = c.status + 2
        /\ in_exception(arch'.cp0)
    BY <1>1, <1>2, <1>3, <1>4, SetExl DEF in_exception
  <2>3. c.status \in Word
    BY <1>1 DEF Cp0
  <2> QED BY <2>1, <2>2, <2>3 DEF FaultInv
<1>5. CASE ~(o.result = "Exception" /\ ~in_exception(c)) /\ (Eret(arch) \/ SetsCp0(arch))
  BY <1>2, <1>5 DEF Follow, FaultInv
<1>6. CASE ~(o.result = "Exception" /\ ~in_exception(c)) /\ ~Eret(arch) /\ ~SetsCp0(arch)
  <2>1. fault' = fault
    BY <1>2, <1>6 DEF Follow
  <2>2. arch'.cp0.status = c.status /\ arch'.cp0.epc = c.epc
    BY <1>1, <1>2, <1>3, <1>6, SetExl, StepKeepsCp0 DEF o
  <2> QED BY <2>1, <2>2 DEF FaultInv, in_exception
<1> QED BY <1>4, <1>5, <1>6

LEMMA NextFaultInv ==
  ASSUME CpuInv, FaultInv, [CpuNext]_cpuVars
  PROVE  FaultInv'
<1>1. arch \in ArchState
  BY DEF CpuInv, CpuTypeOK
<1>2. CASE CpuStep
  BY <1>2, StepFaultInv
<1>3. CASE CpuLoadProgram
  <2>1. arch'.cp0 = arch.cp0 /\ fault' = fault
    BY <1>1, <1>3 DEF CpuLoadProgram, LoadProgram, load_program, ArchState
  <2> QED BY <2>1 DEF FaultInv
<1>4. ASSUME NEW clear_memory \in ResetModes, CpuReset(clear_memory)
      PROVE  FaultInv'
  BY <1>4 DEF CpuReset, FaultInv
<1>5. CASE CpuSetPcToEpc
  <2>1. arch'.cp0 = arch.cp0 /\ fault' = fault
    BY <1>1, <1>5 DEF CpuSetPcToEpc, ArchState
  <2> QED BY <2>1 DEF FaultInv
<1>6. CASE UNCHANGED cpuVars
  BY <1>6 DEF cpuVars, FaultInv
<1> QED BY <1>2, <1>3, <1>4, <1>5, <1>6 DEF CpuNext

(* The ERET that ends a handler goes back to the instruction that trapped  *)
(* first, with the Status it had, through any number of instructions and   *)
(* of further traps in the handler.                                        *)
THEOREM EretReturnsFirst == CpuSpec => EretReturnsToFirstFault
<1>1. CpuInit => FaultInv
  BY DEF CpuInit, FaultInv
<1>2. CpuInv /\ FaultInv /\ [CpuNext]_cpuVars => FaultInv'
  BY NextFaultInv
<1>3. CpuInv /\ FaultInv /\ [CpuNext]_cpuVars =>
        [op' = "step" /\ Eret(arch) =>
           \A f \in fault : arch'.pc = f.pc /\ arch'.cp0.status = f.status]_cpuVars
  <2> SUFFICES ASSUME CpuInv, FaultInv, CpuNext, op' = "step", Eret(arch), NEW f \in fault
               PROVE  arch'.pc = f.pc /\ arch'.cp0.status = f.status
    OBVIOUS
  <2>1. CpuStep
    BY DEF CpuNext, CpuLoadProgram, LoadProgram, CpuReset, CpuSetPcToEpc
  <2>2. arch \in ArchState
    BY DEF CpuInv, CpuTypeOK
  <2>3. arch'.pc = arch.cp0.epc /\ arch'.cp0 = cp0_eret(arch.cp0)
    BY <2>1, <2>2, EretStep DEF CpuStep
  <2>4. /\ in_exception(arch.cp0) /\ arch.cp0.epc = f.pc
        /\ f.status \in Nat /\ arch.cp0.status = f.status + 2
    BY WidthFacts DEF FaultInv, Word
  <2>5. cp0_eret(arch.cp0).status = f.status
    BY <2>2, <2>4, ArchParts DEF cp0_eret, Cp0
  <2> QED BY <2>3, <2>4, <2>5
<1> QED BY <1>1, <1>2, <1>3, SingleCycleIsSafe, PTL DEF CpuSpec, EretReturnsToFirstFault

-----------------------------------------------------------------------------
(* Arithmetic without a width *)

LEMMA Division ==
  ASSUME NEW w \in Nat, w >= 1, NEW x \in Int
  PROVE  /\ x \div w \in Int /\ x % w \in 0 .. w - 1
         /\ x = w * (x \div w) + (x % w)
OBVIOUS

(* The remainder of a division by WordSize is the only one there is. *)
LEMMA RemainderIs ==
  ASSUME NEW x \in Int, NEW q \in Int, NEW r \in Word, x = WordSize * q + r
  PROVE  x % WordSize = r
<1> DEFINE W == WordSize
           p == x \div W
           s == x % W
<1>1. W \in Nat /\ W >= 128 /\ r \in Int /\ 0 <= r /\ r < W
  BY WidthFacts DEF Word
<1>2. p \in Int /\ s \in Int /\ x = W * p + s /\ 0 <= s /\ s < W
  <2> HIDE DEF W
  <2>0. W >= 1 /\ x \in Int
    BY <1>1
  <2>1. p \in Int /\ s \in 0 .. W - 1 /\ x = W * p + s
    BY <1>1, <2>0, Division, Zenon
  <2> HIDE DEF p, s
  <2> QED BY <1>1, <2>1
<1> HIDE DEF W
<1> HIDE DEF p, s
<1>3. x = W * q + r
  BY DEF W
<1>4. CASE p = q
  BY <1>1, <1>2, <1>3, <1>4 DEF s, W
<1>5. CASE p > q
  <2>1. PICK k \in Nat : k >= 1 /\ p = q + k
    <3>1. p - q \in Nat /\ p - q >= 1 /\ p = q + (p - q)
      BY <1>2, <1>5
    <3> QED BY <3>1
  <2>2. W * p = W * q + W * k
    BY <1>1, <2>1
  <2>3. W * k >= W
    BY <1>1, <2>1
  <2>4. W * k \in Int /\ W * q \in Int
    BY <1>1, <2>1
  <2>5. r = W * k + s
    BY <1>1, <1>2, <1>3, <2>2, <2>4
  <2> QED BY <1>1, <1>2, <2>3, <2>4, <2>5
<1>6. CASE p < q
  <2>1. PICK k \in Nat : k >= 1 /\ q = p + k
    <3>1. q - p \in Nat /\ q - p >= 1 /\ q = p + (q - p)
      BY <1>2, <1>6
    <3> QED BY <3>1
  <2>2. W * q = W * p + W * k
    BY <1>1, <1>2, <2>1
  <2>3. W * k >= W
    BY <1>1, <2>1
  <2>4. W * k \in Int /\ W * p \in Int
    BY <1>1, <1>2, <2>1
  <2>5. s = W * k + r
    BY <1>1, <1>2, <1>3, <2>2, <2>4
  <2> QED BY <1>1, <1>2, <2>3, <2>4, <2>5
<1> QED BY <1>2, <1>4, <1>5, <1>6

(* Any number of address spaces can be added below the remainder. *)
LEMMA WrapsAround ==
  ASSUME NEW x \in Int, NEW k \in Int
  PROVE  (x + WordSize * k) % WordSize = x % WordSize
<1> DEFINE W == WordSize
           p == x \div W
           s == x % W
<1>1. W \in Nat /\ W >= 128
  BY WidthFacts
<1>2. s \in Word
  BY WrapsToWord
<1> HIDE DEF W
<1>3. p \in Int /\ s \in Int /\ x = W * p + s
  BY <1>1, Division
<1> HIDE DEF p, s
<1>4. x + W * k = W * (p + k) + s
  BY <1>1, <1>3
<1>5. p + k \in Int /\ x + W * k \in Int
  BY <1>1, <1>3
<1>6. (x + W * k) % W = s
  BY <1>2, <1>4, <1>5, RemainderIs DEF W
<1> QED BY <1>6 DEF W, s

(* The remainders of sums and differences of two words. *)
LEMMA NearbyRemainders ==
  ASSUME NEW x \in Int
  PROVE  /\ 0 <= x /\ x < WordSize => x % WordSize = x
         /\ WordSize <= x /\ x < 2 * WordSize => x % WordSize = x - WordSize
         /\ -WordSize <= x /\ x < 0 => x % WordSize = x + WordSize
<1>1. WordSize \in Nat /\ WordSize * 0 = 0 /\ WordSize * 1 = WordSize
      /\ WordSize * (-1) = -WordSize
  BY WidthFacts
<1> HIDE DEF WordSize
<1>2. 0 <= x /\ x < WordSize => x % WordSize = x
  <2>1. SUFFICES ASSUME 0 <= x, x < WordSize PROVE x % WordSize = x
    OBVIOUS
  <2>2. x \in Word /\ x = WordSize * 0 + x
    BY <1>1, <2>1 DEF Word
  <2> QED BY <2>2, RemainderIs
<1>3. WordSize <= x /\ x < 2 * WordSize => x % WordSize = x - WordSize
  <2>1. SUFFICES ASSUME WordSize <= x, x < 2 * WordSize PROVE x % WordSize = x - WordSize
    OBVIOUS
  <2>2. x - WordSize \in Word /\ x = WordSize * 1 + (x - WordSize)
    BY <1>1, <2>1 DEF Word
  <2> QED BY <2>2, RemainderIs
<1>4. -WordSize <= x /\ x < 0 => x % WordSize = x + WordSize
  <2>1. SUFFICES ASSUME -WordSize <= x, x < 0 PROVE x % WordSize = x + WordSize
    OBVIOUS
  <2>2. x + WordSize \in Word /\ x = WordSize * (-1) + (x + WordSize)
    BY <1>1, <2>1 DEF Word
  <2> QED BY <2>2, RemainderIs
<1> QED BY <1>2, <1>3, <1>4

LEMMA HalfWord ==
  /\ WordSize \in Nat /\ WordSize >= 128
  /\ WordSize \div 2 \in Nat /\ WordSize = 2 * (WordSize \div 2)
  /\ HalfSize \in Nat /\ HalfSize >= 1 /\ 2 * HalfSize <= WordSize
<1>1. /\ WordSize \in Nat /\ WordSize >= 128 /\ WordSize % 128 = 0
      /\ HalfSize \in Nat /\ HalfSize >= 1
  BY WidthFacts
<1>2. HalfSize >= 2
  <2>1. HalfSize = 1 => WordSize = 1
    BY DEF WordSize
  <2> QED BY <1>1, <2>1
<1>3. 2 * HalfSize <= HalfSize * HalfSize
  <2> HIDE DEF HalfSize
  <2> QED BY <1>1, <1>2
<1>4. WordSize \div 2 \in Nat /\ WordSize = 2 * (WordSize \div 2)
  <2> HIDE DEF WordSize
  <2> QED BY <1>1
<1> QED BY <1>1, <1>3, <1>4 DEF WordSize

SignedWord == -(WordSize \div 2) .. WordSize \div 2 - 1

(* The signed overflow flag is the sum or difference leaving the signed    *)
(* words, and otherwise the result is that sum or difference.              *)
LEMMA AddExact ==
  ASSUME NEW x \in Word, NEW y \in Word
  PROVE  LET v == (x + y) % WordSize IN
         /\ overflow_add(x, y, v) <=> signed(x) + signed(y) \notin SignedWord
         /\ ~overflow_add(x, y, v) => signed(v) = signed(x) + signed(y)
<1> DEFINE W == WordSize
           H == WordSize \div 2
           v == (x + y) % W
<1>1. W \in Nat /\ H \in Nat /\ W = 2 * H /\ x \in 0 .. W - 1 /\ y \in 0 .. W - 1
  BY HalfWord DEF Word
<1>2. /\ x + y < W => v = x + y
      /\ x + y >= W => v = x + y - W
  BY <1>1, NearbyRemainders
<1>3. /\ signed(x) = IF x >= H THEN x - W ELSE x
      /\ signed(y) = IF y >= H THEN y - W ELSE y
      /\ signed(v) = IF v >= H THEN v - W ELSE v
      /\ overflow_add(x, y, v) <=> ((x >= H) = (y >= H) /\ (x >= H) # (v >= H))
      /\ SignedWord = -H .. H - 1
  BY DEF signed, negative, overflow_add, SignedWord
<1> HIDE DEF W, H, v
<1>4. x + y < W \/ x + y >= W
  BY <1>1
<1> QED BY <1>1, <1>2, <1>3, <1>4 DEF v, W

LEMMA SubExact ==
  ASSUME NEW x \in Word, NEW y \in Word
  PROVE  LET v == (x - y) % WordSize IN
         /\ overflow_sub(x, y, v) <=> signed(x) - signed(y) \notin SignedWord
         /\ ~overflow_sub(x, y, v) => signed(v) = signed(x) - signed(y)
         /\ v = 0 <=> x = y
<1> DEFINE W == WordSize
           H == WordSize \div 2
           v == (x - y) % W
<1>1. W \in Nat /\ H \in Nat /\ W = 2 * H /\ x \in 0 .. W - 1 /\ y \in 0 .. W - 1
  BY HalfWord DEF Word
<1>2. /\ x >= y => v = x - y
      /\ x < y => v = x - y + W
  BY <1>1, NearbyRemainders
<1>3. /\ signed(x) = IF x >= H THEN x - W ELSE x
      /\ signed(y) = IF y >= H THEN y - W ELSE y
      /\ signed(v) = IF v >= H THEN v - W ELSE v
      /\ overflow_sub(x, y, v) <=> ((x >= H) # (y >= H) /\ (x >= H) # (v >= H))
      /\ SignedWord = -H .. H - 1
  BY DEF signed, negative, overflow_sub, SignedWord
<1> HIDE DEF W, H, v
<1>4. x >= y \/ x < y
  BY <1>1
<1> QED BY <1>1, <1>2, <1>3, <1>4 DEF v, W

(* An immediate is sign-extended: as a signed word it is what it was as a  *)
(* signed half word, and it differs from that by no or one address space.  *)
LEMMA ImmediateExact ==
  ASSUME NEW d \in DecodedInstr
  PROVE  /\ sign_extend(d.imm) \in Word /\ signed_imm(d) \in Int
         /\ signed(sign_extend(d.imm)) = signed_imm(d)
         /\ \E k \in {0, 1} : sign_extend(d.imm) = signed_imm(d) + WordSize * k
<1> DEFINE W == WordSize
           h == HalfSize
           i == d.imm
<1>1. /\ W \in Nat /\ W >= 128 /\ W = 2 * (W \div 2) /\ W \div 2 \in Nat
      /\ h \in Nat /\ h >= 1 /\ 2 * h <= W
  BY HalfWord
<1>2. i \in 0 .. h - 1
  BY DEF DecodedInstr, Imm
<1>3. /\ sign_extend(i) = IF i >= h \div 2 THEN i + W - h ELSE i
      /\ signed_imm(d) = IF i >= h \div 2 THEN i - h ELSE i
      /\ \A v : signed(v) = IF v >= W \div 2 THEN v - W ELSE v
      /\ Word = 0 .. W - 1
  BY DEF sign_extend, signed_imm, signed, negative, Word
<1>4. W * 0 = 0 /\ W * 1 = W
  BY <1>1
<1> HIDE DEF W, h, i
<1>5. CASE i >= h \div 2
  <2>1. sign_extend(i) = i + W - h /\ signed_imm(d) = i - h
    BY <1>3, <1>5
  <2>2. i + W - h \in 0 .. W - 1 /\ i + W - h >= W \div 2
    BY <1>1, <1>2, <1>5
  <2>3. sign_extend(i) = signed_imm(d) + W * 1
    BY <1>1, <1>2, <1>4, <2>1
  <2>4. signed(sign_extend(i)) = (i + W - h) - W
    BY <1>3, <2>1, <2>2
  <2> QED BY <1>1, <1>2, <1>3, <2>1, <2>2, <2>3, <2>4 DEF i, W
<1>6. CASE i < h \div 2
  <2>1. sign_extend(i) = i /\ signed_imm(d) = i
    BY <1>1, <1>2, <1>3, <1>6
  <2>2. i \in 0 .. W - 1 /\ ~(i >= W \div 2)
    BY <1>1, <1>2, <1>6
  <2>3. sign_extend(i) = signed_imm(d) + W * 0
    BY <1>1, <1>2, <1>4, <2>1
  <2> QED BY <1>1, <1>2, <1>3, <2>1, <2>2, <2>3 DEF i, W
<1> QED BY <1>1, <1>2, <1>5, <1>6

(* The effective address of a load or store, and the sum of an ADDI. *)
LEMMA AddressExact ==
  ASSUME NEW x \in Word, NEW d \in DecodedInstr
  PROVE  (x + sign_extend(d.imm)) % WordSize = (signed(x) + signed_imm(d)) % WordSize
<1>1. PICK k \in {0, 1} : sign_extend(d.imm) = signed_imm(d) + WordSize * k
  BY ImmediateExact
<1>2. PICK j \in {0, 1} : x = signed(x) + WordSize * j
  <2>1. WordSize * 0 = 0 /\ WordSize * 1 = WordSize /\ WordSize \in Nat /\ x \in Int
    BY WidthFacts DEF Word
  <2>2. signed(x) = x \/ signed(x) = x - WordSize
    BY DEF signed
  <2> HIDE DEF WordSize
  <2>3. x = signed(x) + WordSize * 0 \/ x = signed(x) + WordSize * 1
    BY <2>1, <2>2
  <2> QED BY <2>3
<1>3. signed(x) \in Int /\ signed_imm(d) \in Int /\ WordSize \in Nat
  BY ImmediateExact, WidthFacts DEF signed, Word
<1> HIDE DEF WordSize
<1>4. x + sign_extend(d.imm) = (signed(x) + signed_imm(d)) + WordSize * (j + k)
  BY <1>1, <1>2, <1>3
<1>5. signed(x) + signed_imm(d) \in Int /\ j + k \in Int
  BY <1>3
<1> QED BY <1>4, <1>5, WrapsAround

(* A branch target, also one beyond either end of the address space. *)
LEMMA TargetExact ==
  ASSUME NEW p \in Word, NEW d \in DecodedInstr
  PROVE  /\ branch_target(Succ(p), d) = (p + 4 + 4 * signed_imm(d)) % WordSize
         /\ Succ(p) # p
<1>1. PICK k \in {0, 1} : sign_extend(d.imm) = signed_imm(d) + WordSize * k
  BY ImmediateExact
<1>2. WordSize \in Nat /\ WordSize >= 128 /\ p \in 0 .. WordSize - 1 /\ signed_imm(d) \in Int
  BY ImmediateExact, WidthFacts DEF Word
<1> HIDE DEF WordSize
<1>3. \/ p + 4 < WordSize /\ Succ(p) = p + 4
      \/ p + 4 >= WordSize /\ Succ(p) = p + 4 - WordSize
  BY <1>2, NearbyRemainders DEF Succ
<1>4. PICK j \in {0, 1} : Succ(p) = p + 4 - WordSize * j
  <2>1. WordSize * 0 = 0 /\ WordSize * 1 = WordSize
    BY <1>2
  <2>2. Succ(p) = p + 4 - WordSize * 0 \/ Succ(p) = p + 4 - WordSize * 1
    BY <1>2, <1>3, <2>1
  <2> QED BY <2>2
<1>5. Succ(p) + 4 * sign_extend(d.imm)
        = (p + 4 + 4 * signed_imm(d)) + WordSize * (4 * k - j)
  BY <1>1, <1>2, <1>4
<1>6. p + 4 + 4 * signed_imm(d) \in Int /\ 4 * k - j \in Int
  BY <1>2
<1>7. branch_target(Succ(p), d) = (p + 4 + 4 * signed_imm(d)) % WordSize
  BY <1>5, <1>6, WrapsAround DEF branch_target
<1> QED BY <1>2, <1>3, <1>7

(* What a decoded word's fields are worth in the three kinds of claims.    *)
LEMMA AluMeaning ==
  ASSUME NEW a \in ArchState, NEW d \in DecodedInstr
  PROVE  LET x == reg_read(a.regs, d.rs)
             y == reg_read(a.regs, d.rt)
             i == sign_extend(d.imm)
         IN  /\ d.format = "R" /\ d.funct = "ADD" =>
                  /\ alu_control(d) # "none"
                  /\ RtypeResult(a, d).value = (x + y) % WordSize
                  /\ RtypeOverflows(a, d) <=> overflow_add(x, y, (x + y) % WordSize)
             /\ d.format = "R" /\ d.funct = "SUB" =>
                  /\ alu_control(d) # "none"
                  /\ RtypeResult(a, d).value = (x - y) % WordSize
                  /\ RtypeOverflows(a, d) <=> overflow_sub(x, y, (x - y) % WordSize)
             /\ d.format = "I" /\ d.opcode \in {"ADDI", "LW", "LHU", "LBU", "SW"} =>
                  ItypeResult(a, d).value = (x + i) % WordSize
             /\ d.format = "I" /\ d.opcode = "ADDI" =>
                  ItypeOverflows(a, d) <=> overflow_add(x, i, (x + i) % WordSize)
<1> DEFINE x == reg_read(a.regs, d.rs)
           y == reg_read(a.regs, d.rt)
           i == sign_extend(d.imm)
<1>1. \A u, v, s : /\ alu_value("ADD", u, v, s) = (u + v) % WordSize
                   /\ alu_value("ADDU", u, v, s) = (u + v) % WordSize
                   /\ alu_value("SUB", u, v, s) = (u - v) % WordSize
  BY DEF alu_value
<1>2. \A f, u, v, s : /\ alu_execute(f, u, v, s).value = alu_value(f, u, v, s)
                      /\ alu_execute("ADD", u, v, s).overflow
                           <=> overflow_add(u, v, alu_value("ADD", u, v, s))
                      /\ alu_execute("SUB", u, v, s).overflow
                           <=> overflow_sub(u, v, alu_value("SUB", u, v, s))
  BY DEF alu_execute
<1>3. /\ d.format = "R" /\ d.funct = "ADD" => alu_control(d) = "ADD"
      /\ d.format = "R" /\ d.funct = "SUB" => alu_control(d) = "SUB"
      /\ d.format = "I" /\ d.opcode = "ADDI" => alu_control(d) = "ADD"
      /\ d.format = "I" /\ d.opcode \in {"LW", "LHU", "LBU", "SW"} => alu_control(d) = "ADDU"
  BY DEF alu_control, r_type_op, i_type_op
<1>4. d.format = "I" /\ d.opcode \in {"ADDI", "LW", "LHU", "LBU", "SW"} =>
        extended_imm(d, derive_control(d)) = i
  BY DEF extended_imm, derive_control, i_type_control, NoControl
<1> HIDE DEF x, y, i
<1>5. /\ RtypeResult(a, d) = alu_execute(alu_control(d), x, y, shift_amount(d, x))
      /\ ItypeResult(a, d)
           = alu_execute(alu_control(d), x, extended_imm(d, derive_control(d)), 0)
      /\ RtypeOverflows(a, d) <=> RtypeResult(a, d).overflow /\ d.funct \in {"ADD", "SUB"}
      /\ ItypeOverflows(a, d) <=> ItypeResult(a, d).overflow /\ d.opcode = "ADDI"
  BY DEF RtypeResult, ItypeResult, RtypeOverflows, ItypeOverflows, x, y
<1>6. d.format = "R" /\ d.funct = "ADD" =>
        /\ alu_control(d) # "none"
        /\ RtypeResult(a, d).value = (x + y) % WordSize
        /\ RtypeOverflows(a, d) <=> overflow_add(x, y, (x + y) % WordSize)
  BY <1>1, <1>2, <1>3, <1>5
<1>7. d.format = "R" /\ d.funct = "SUB" =>
        /\ alu_control(d) # "none"
        /\ RtypeResult(a, d).value = (x - y) % WordSize
        /\ RtypeOverflows(a, d) <=> overflow_sub(x, y, (x - y) % WordSize)
  BY <1>1, <1>2, <1>3, <1>5
<1>8. d.format = "I" /\ d.opcode = "ADDI" =>
        /\ ItypeResult(a, d).value = (x + i) % WordSize
        /\ ItypeOverflows(a, d) <=> overflow_add(x, i, (x + i) % WordSize)
  BY <1>1, <1>2, <1>3, <1>4, <1>5
<1>9. d.format = "I" /\ d.opcode \in {"LW", "LHU", "LBU", "SW"} =>
        ItypeResult(a, d).value = (x + i) % WordSize
  BY <1>1, <1>2, <1>3, <1>4, <1>5
<1> QED BY <1>6, <1>7, <1>8, <1>9 DEF x, y, i

(* An addition that may overflow, from the flag and the value of the ALU   *)
(* and where the result goes.                                              *)
LEMMA SumOutcome ==
  ASSUME NEW a \in ArchState, NEW o, NEW e, NEW v \in Word, NEW dest \in RegIdx,
         NEW ov \in BOOLEAN,
         ov <=> e \notin SignedWord, ~ov => signed(v) = e,
         ov => Reaches(o, "Exception", kExceptionVector, a.regs, a.mem,
                       cp0_raise(a.cp0, Ov, a.pc, 0)),
         ~ov => Reaches(o, "Ok", Succ(a.pc), reg_write(a.regs, dest, v), a.mem, a.cp0)
  PROVE  IF e \in SignedWord
         THEN o.result = "Ok" /\ (dest # 0 => signed(o.arch.regs[dest]) = e)
         ELSE o.result = "Exception" /\ o.arch.cp0.last_exc = Ov /\ o.arch.regs = a.regs
<1>1. CASE e \in SignedWord
  <2>1. o.result = "Ok" /\ o.arch.regs = reg_write(a.regs, dest, v)
    BY <1>1 DEF Reaches
  <2>2. dest # 0 => reg_write(a.regs, dest, v)[dest] = v
    BY ArchParts DEF reg_write, RegisterFile
  <2> QED BY <1>1, <2>1, <2>2
<1>2. CASE e \notin SignedWord
  <2>1. /\ o.result = "Exception" /\ o.arch.regs = a.regs
        /\ o.arch.cp0 = cp0_raise(a.cp0, Ov, a.pc, 0)
    BY <1>2 DEF Reaches
  <2> QED BY <1>2, <2>1 DEF cp0_raise
<1> QED BY <1>1, <1>2

(* The ALU's words lose nothing, for every word width: ADD, SUB and ADDI   *)
(* trap exactly when the sum does not fit a signed word, and effective     *)
(* addresses and branch targets are exact modulo the address space.        *)
THEOREM ArithmeticExact == CpuSpec => []ArithmeticIsExact
<1>1. CpuInv => ArithmeticIsExact
  <2> DEFINE w == read_word(arch.mem, arch.pc)
             d == decode(w)
             i == exec_instr(arch, d)
             o == step(arch)
             x == reg_read(arch.regs, d.rs)
             y == reg_read(arch.regs, d.rt)
             e == exact(arch, d)
             dest == IF d.format = "R" THEN d.rd ELSE d.rt
             sum == IF e \in SignedWord
                    THEN o.result = "Ok" /\ (dest # 0 => signed(o.arch.regs[dest]) = e)
                    ELSE /\ o.result = "Exception" /\ o.arch.cp0.last_exc = Ov
                         /\ o.arch.regs = arch.regs
  <2> SUFFICES ASSUME CpuInv, Decoded(arch)
               PROVE  /\ d.opcode = "ADDI" \/ (d.opcode = "SPECIAL" /\ d.funct \in {"ADD", "SUB"})
                           => sum
                      /\ d.opcode \in {"LW", "LHU", "LBU", "SW"} /\ o.result = "Exception" =>
                           o.arch.cp0.bad_vaddr = e % WordSize
                      /\ d.opcode \in {"BEQ", "BNE"} =>
                           o.arch.pc = (IF (d.opcode = "BEQ") <=> (x = y)
                                        THEN arch.pc + 4 + 4 * signed_imm(d)
                                        ELSE arch.pc + 4) % WordSize
    BY DEF ArithmeticIsExact, SignedWord
  <2>1. arch \in ArchState /\ arch.pc \in Word /\ w \in Word /\ decodes(w) /\ word_ok(arch.pc)
    BY ArchParts, ReadWordType DEF CpuInv, CpuTypeOK, Decoded
  <2>2. /\ o.arch = i.arch /\ i.result \in {"Ok", "Exception"}
        /\ i.result = "Exception" => o.result = "Exception"
        /\ i.result = "Ok" /\ i.arch.pc # arch.pc => o.result = "Ok"
        /\ o.result = "Exception" => i.result = "Exception"
    BY <2>1, StepOutcome
  <2>3. /\ d \in DecodedInstr /\ d.format = format_of(d.opcode)
        /\ d.format = "I" => d.funct = "none"
    BY <2>1, DecodedParts
  <2> HIDE DEF w, d, o
  <2>4. /\ d.opcode = "SPECIAL" => d.format = "R"
        /\ d.opcode \in {"ADDI", "LW", "LHU", "LBU", "SW", "BEQ", "BNE"} => d.format = "I"
    BY <2>3 DEF format_of, IOpcodes
  <2>5. d.rs \in RegIdx /\ d.rt \in RegIdx /\ d.rd \in RegIdx /\ dest \in RegIdx
    BY <2>3 DEF DecodedInstr
  <2>6. x \in Word /\ y \in Word
    BY <2>1, <2>5, ArchParts, RegReadType
  <2>7. Succ(arch.pc) # arch.pc
    BY <2>1, <2>3, TargetExact
  <2>8. /\ d.funct = "ADD" => e = signed(x) + signed(y)
        /\ d.funct = "SUB" => e = signed(x) - signed(y)
        /\ d.funct = "none" => e = signed(x) + signed_imm(d)
    BY DEF exact
  <2> HIDE DEF x, y, e
  <2>9. ASSUME d.opcode = "SPECIAL", d.funct \in {"ADD", "SUB"}
        PROVE  sum
    <3> DEFINE v == RtypeResult(arch, d).value
               ov == RtypeOverflows(arch, d)
    <3>1. i = exec_alu_rtype(arch, d) /\ d.format = "R" /\ dest = d.rd
      BY <2>4, <2>9 DEF exec_instr, exec_rtype
    <3>2. /\ v \in Word
          /\ ov <=> e \notin SignedWord
          /\ ~ov => signed(v) = e
          /\ alu_control(d) # "none"
      <4>1. CASE d.funct = "ADD"
        <5>1. /\ v = (x + y) % WordSize /\ alu_control(d) # "none"
              /\ ov <=> overflow_add(x, y, (x + y) % WordSize)
          BY <2>1, <2>3, <3>1, <4>1, AluMeaning DEF x, y
        <5>2. (x + y) % WordSize \in Word
          <6>1. x + y \in Int
            BY <2>6, WidthFacts DEF Word
          <6> QED BY <6>1, WrapsToWord
        <5> HIDE DEF v, ov
        <5> QED BY <2>6, <2>8, <4>1, <5>1, <5>2, AddExact
      <4>2. CASE d.funct = "SUB"
        <5>1. /\ v = (x - y) % WordSize /\ alu_control(d) # "none"
              /\ ov <=> overflow_sub(x, y, (x - y) % WordSize)
          BY <2>1, <2>3, <3>1, <4>2, AluMeaning DEF x, y
        <5>2. (x - y) % WordSize \in Word
          <6>1. x - y \in Int
            BY <2>6, WidthFacts DEF Word
          <6> QED BY <6>1, WrapsToWord
        <5> HIDE DEF v, ov
        <5> QED BY <2>6, <2>8, <4>2, <5>1, <5>2, SubExact
      <4> QED BY <2>9, <4>1, <4>2
    <3>3. /\ ov => Reaches(i, "Exception", kExceptionVector, arch.regs, arch.mem,
                           cp0_raise(arch.cp0, Ov, arch.pc, 0))
          /\ ~ov => Reaches(i, "Ok", Succ(arch.pc), reg_write(arch.regs, dest, v),
                            arch.mem, arch.cp0)
      BY <2>1, <2>3, <3>1, <3>2, AluRtypeReaches
    <3>4. ov \in BOOLEAN
      BY DEF RtypeOverflows
    <3> HIDE DEF v, ov, i, dest
    <3>5. IF e \in SignedWord
          THEN i.result = "Ok" /\ (dest # 0 => signed(i.arch.regs[dest]) = e)
          ELSE i.result = "Exception" /\ i.arch.cp0.last_exc = Ov /\ i.arch.regs = arch.regs
      BY <2>1, <2>5, <3>2, <3>3, <3>4, SumOutcome
    <3>6. ~ov => i.arch.pc # arch.pc
      BY <2>7, <3>3 DEF Reaches
    <3> QED BY <2>2, <3>2, <3>5, <3>6
  <2>10. ASSUME d.opcode = "ADDI"
         PROVE  sum
    <3> DEFINE v == ItypeResult(arch, d).value
               ov == ItypeOverflows(arch, d)
    <3>1. i = exec_itype(arch, d) /\ d.format = "I" /\ dest = d.rt /\ d.funct = "none"
      BY <2>3, <2>4, <2>10 DEF exec_instr
    <3>2. /\ v \in Word
          /\ ov <=> e \notin SignedWord
          /\ ~ov => signed(v) = e
      BY <2>1, <2>3, <2>6, <2>8, <2>10, <3>1, AluMeaning, AddExact, ImmediateExact,
         ItypeResultType
      DEF x
    <3>3. /\ ov => Reaches(i, "Exception", kExceptionVector, arch.regs, arch.mem,
                           cp0_raise(arch.cp0, Ov, arch.pc, 0))
          /\ ~ov => Reaches(i, "Ok", Succ(arch.pc), reg_write(arch.regs, dest, v),
                            arch.mem, arch.cp0)
      BY <2>1, <2>3, <2>10, <3>1, ItypeReaches DEF IOpcodes, Loads
    <3>4. ov \in BOOLEAN
      BY DEF ItypeOverflows
    <3> HIDE DEF v, ov, i, dest
    <3>5. IF e \in SignedWord
          THEN i.result = "Ok" /\ (dest # 0 => signed(i.arch.regs[dest]) = e)
          ELSE i.result = "Exception" /\ i.arch.cp0.last_exc = Ov /\ i.arch.regs = arch.regs
      BY <2>1, <2>5, <3>2, <3>3, <3>4, SumOutcome
    <3>6. ~ov => i.arch.pc # arch.pc
      BY <2>7, <3>3 DEF Reaches
    <3> QED BY <2>2, <3>2, <3>5, <3>6
  <2>11. ASSUME d.opcode \in {"LW", "LHU", "LBU", "SW"}, o.result = "Exception"
         PROVE  o.arch.cp0.bad_vaddr = e % WordSize
    <3> DEFINE v == ItypeResult(arch, d).value
    <3>1. i = exec_itype(arch, d) /\ d.format = "I" /\ d.funct = "none"
      BY <2>3, <2>4, <2>11 DEF exec_instr
    <3>2. v \in Word /\ v = e % WordSize
      BY <2>1, <2>3, <2>6, <2>8, <2>11, <3>1, AluMeaning, AddressExact, ItypeResultType
      DEF x
    <3> HIDE DEF v
    <3>3. CASE d.opcode \in Loads
      <4>1. i = exec_load(arch, d, v)
        BY <2>1, <2>3, <2>11, <3>1, <3>3, ItypeReaches DEF IOpcodes, v
      <4>2. i.arch.cp0 = cp0_raise(arch.cp0, AdEL, arch.pc, v)
        BY <2>1, <2>2, <2>3, <2>11, <3>2, <4>1, LoadReaches DEF Reaches
      <4> QED BY <2>2, <3>2, <4>2 DEF cp0_raise
    <3>4. CASE d.opcode = "SW"
      <4>1. i = exec_store(arch, d, v)
        BY <2>1, <2>3, <2>11, <3>1, <3>4, ItypeReaches DEF IOpcodes, v
      <4>2. i.arch.cp0 = cp0_raise(arch.cp0, AdES, arch.pc, v)
        BY <2>1, <2>2, <2>3, <2>11, <3>2, <4>1, StoreReaches DEF Reaches
      <4> QED BY <2>2, <3>2, <4>2 DEF cp0_raise
    <3> QED BY <2>11, <3>3, <3>4 DEF Loads
  <2>12. ASSUME d.opcode \in {"BEQ", "BNE"}
         PROVE  o.arch.pc = (IF (d.opcode = "BEQ") <=> (x = y)
                             THEN arch.pc + 4 + 4 * signed_imm(d)
                             ELSE arch.pc + 4) % WordSize
    <3>1. i = exec_branch(arch, d) /\ d.format = "I"
      BY <2>4, <2>12 DEF exec_instr, exec_itype
    <3>2. BranchTaken(arch, d) <=> ((d.opcode = "BEQ") <=> (x = y))
      <4>1. alu_execute("SUBU", x, y, 0).value = (x - y) % WordSize
        BY DEF alu_execute, alu_value
      <4>2. (x - y) % WordSize = 0 <=> x = y
        BY <2>6, SubExact
      <4> QED BY <4>1, <4>2 DEF BranchTaken, x, y
    <3>3. i.arch.pc = IF BranchTaken(arch, d) THEN branch_target(Succ(arch.pc), d)
                      ELSE Succ(arch.pc)
      BY <2>1, <2>3, <2>12, <3>1, BranchReaches DEF Reaches
    <3>4. branch_target(Succ(arch.pc), d) = (arch.pc + 4 + 4 * signed_imm(d)) % WordSize
      BY <2>1, <2>3, TargetExact
    <3> QED BY <2>2, <3>2, <3>3, <3>4 DEF Succ
  <2> QED BY <2>9, <2>10, <2>11, <2>12
<1> QED BY <1>1, SingleCycleIsSafe, PTL

-----------------------------------------------------------------------------
(* The architecture *)

KeepLastExc(c, code) == [c EXCEPT !.last_exc = code]
WithLastExc(a, code) == [a EXCEPT !.cp0.last_exc = code]

(* last_exc_ outlives a reset. *)
LEMMA ResetKeepsLastExc ==
  ASSUME NEW a \in ArchState
  PROVE  /\ a.cp0.last_exc \in ExceptionCode
         /\ reset(a, TRUE) = [reset(a, TRUE) EXCEPT !.cp0.last_exc = a.cp0.last_exc]
<1> DEFINE code == a.cp0.last_exc
           c    == cp0_reset(a.cp0)
           b    == reset(a, TRUE)
<1>1. code \in ExceptionCode
  BY ArchParts DEF Cp0
<1>2. KeepLastExc(c, code) = c
  BY DEF cp0_reset, PowerOnCp0, KeepLastExc
<1>3. b = [pc |-> 0, regs |-> ZeroRegs, cp0 |-> c, mem |-> ZeroMemory]
  BY DEF reset
<1> HIDE DEF b, c, code
<1>4. WithLastExc(b, code)
        = [pc |-> 0, regs |-> ZeroRegs, cp0 |-> KeepLastExc(c, code), mem |-> ZeroMemory]
  BY <1>3 DEF WithLastExc, KeepLastExc
<1>5. b = WithLastExc(b, code)
  BY <1>2, <1>3, <1>4
<1> QED BY <1>1, <1>5 DEF WithLastExc, b, code

(* Both backends of IProcessor implement one architecture: the single-     *)
(* cycle CPU does with its control word and snapshot left out, and         *)
(* PipelineImplementsArch says the same of the pipeline.                   *)
THEOREM SingleCycleImplementsArch ==
  ASSUME ResetModes \subseteq {TRUE}
  PROVE  CpuSpec => Spec
<1>1. CpuInit => Init
  <2> SUFFICES ASSUME CpuInit
               PROVE  Init
    OBVIOUS
  <2>1. arch \in ArchState
    BY InitInv DEF CpuInv, CpuTypeOK
  <2>2. arch.regs = ZeroRegs /\ arch.cp0 = PowerOnCp0
    BY DEF CpuInit
  <2> QED BY <2>1, <2>2 DEF CpuInit, Init, ArchState
<1>2. CpuInv /\ [CpuNext]_cpuVars => [Next]_<<arch, op>>
  <2> SUFFICES ASSUME CpuInv, [CpuNext]_cpuVars
               PROVE  [Next]_<<arch, op>>
    OBVIOUS
  <2>1. arch \in ArchState
    BY DEF CpuInv, CpuTypeOK
  <2>2. CASE CpuStep
    BY <2>2 DEF CpuStep, Next, Step
  <2>3. CASE CpuLoadProgram
    BY <2>3 DEF CpuLoadProgram, Next
  <2>4. ASSUME NEW clear_memory \in ResetModes, CpuReset(clear_memory)
        PROVE  Next
    <3>1. op' = "reset" /\ arch' = reset(arch, TRUE)
      BY <2>4 DEF CpuReset
    <3> QED BY <2>1, <3>1, ResetKeepsLastExc DEF Reset, Next
  <2>5. CASE CpuSetPcToEpc
    <3>1. arch.cp0.epc \in Word
      BY <2>1, ArchParts DEF Cp0
    <3> QED BY <2>5, <3>1 DEF CpuSetPcToEpc, SetPc, Next
  <2>6. CASE UNCHANGED cpuVars
    BY <2>6 DEF cpuVars
  <2> QED BY <2>2, <2>3, <2>4, <2>5, <2>6 DEF CpuNext
<1> QED BY <1>1, <1>2, SingleCycleIsSafe, PTL DEF CpuSpec, Spec
=============================================================================
