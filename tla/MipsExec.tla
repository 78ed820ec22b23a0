------------------------------ MODULE MipsExec ------------------------------
(***************************************************************************)
(* What IProcessor's operations do to the programmer-visible state, as     *)
(* SingleCycleCpu does it: one whole instruction per step().  HI and LO    *)
(* have no instruction that reaches them and are left out.                 *)
(***************************************************************************)
EXTENDS MipsIsa

ArchState == [pc : Word, regs : RegisterFile, mem : Memory, cp0 : Cp0]

-----------------------------------------------------------------------------
(* One instruction.  An outcome is the next state and the StepResult.      *)

StepResult == {"Ok", "Exception", "Fault", "Halt"}

Completes(a) == [arch |-> a, result |-> "Ok"]

Faults(a) == [arch |-> a, result |-> "Fault"]

raise(a, code, bad_addr) ==
  [arch   |-> [a EXCEPT !.pc = kExceptionVector,
                        !.cp0 = cp0_raise(a.cp0, code, a.pc, bad_addr)],
   result |-> "Exception"]

Succ(p) == (p + 4) % WordSize

(* MFC0, MTC0 and ERET; any other COP0 sub-operation does nothing.         *)
exec_cop0(a, d) ==
  LET next == [a EXCEPT !.pc = Succ(a.pc)] IN
  Completes(
    CASE d.rs = 0 ->
           [next EXCEPT !.regs = reg_write(a.regs, d.rt, cp0_read(a.cp0, d.rd))]
      [] d.rs = 4 ->
           [next EXCEPT !.cp0 = cp0_write(a.cp0, d.rd, reg_read(a.regs, d.rt))]
      [] d.rs = 16 /\ d.funct = "ERET" ->
           [next EXCEPT !.cp0 = cp0_eret(a.cp0), !.pc = a.cp0.epc]
      [] OTHER -> next)

exec_alu_rtype(a, d) ==
  LET x   == reg_read(a.regs, d.rs)
      res == alu_execute(alu_control(d), x, reg_read(a.regs, d.rt), shift_amount(d, x))
  IN  CASE alu_control(d) = "none" -> Faults(a)
        [] res.overflow /\ d.funct \in {"ADD", "SUB"} -> raise(a, Ov, 0)
        [] OTHER -> Completes([a EXCEPT !.pc = Succ(a.pc),
                                        !.regs = reg_write(a.regs, d.rd, res.value)])

exec_rtype(a, d) ==
  IF d.opcode = "COP0" THEN exec_cop0(a, d) ELSE
  CASE d.funct = "SYSCALL" -> raise(a, Sys, 0)
    [] d.funct = "BREAK"   -> raise(a, Bp, 0)
    [] d.funct = "JR"      -> Completes([a EXCEPT !.pc = reg_read(a.regs, d.rs)])
    [] d.funct = "JALR"    ->
         Completes([a EXCEPT !.pc = reg_read(a.regs, d.rs),
                             !.regs = reg_write(a.regs, d.rd, Succ(a.pc))])
    [] OTHER               -> exec_alu_rtype(a, d)

exec_branch(a, d) ==
  LET res   == alu_execute(alu_control(d), reg_read(a.regs, d.rs),
                           reg_read(a.regs, d.rt), 0)
      taken == (d.opcode = "BEQ") <=> (res.value = 0)
  IN  IF alu_control(d) = "none" THEN Faults(a)
      ELSE Completes([a EXCEPT !.pc = IF taken THEN branch_target(Succ(a.pc), d)
                                      ELSE Succ(a.pc)])

exec_load(a, d, addr) ==
  IF ~load_ok(d.opcode, addr) THEN raise(a, AdEL, addr)
  ELSE Completes([a EXCEPT !.pc = Succ(a.pc),
                           !.regs = reg_write(a.regs, d.rt,
                                              load_data(a.mem, d.opcode, addr))])

exec_store(a, d, addr) ==
  IF ~store_ok(d.opcode, addr) THEN raise(a, AdES, addr)
  ELSE Completes([a EXCEPT !.pc = Succ(a.pc),
                           !.mem = write_word(a.mem, addr, reg_read(a.regs, d.rt))])

exec_itype(a, d) ==
  LET ctrl == derive_control(d)
      res  == alu_execute(alu_control(d), reg_read(a.regs, d.rs),
                          extended_imm(d, ctrl), 0)
  IN  IF d.opcode \in {"BEQ", "BNE"} THEN exec_branch(a, d) ELSE
      CASE alu_control(d) = "none"            -> Faults(a)
        [] res.overflow /\ d.opcode = "ADDI" -> raise(a, Ov, 0)
        [] ctrl.mem_read                      -> exec_load(a, d, res.value)
        [] ctrl.mem_write                     -> exec_store(a, d, res.value)
        [] OTHER -> Completes([a EXCEPT !.pc = Succ(a.pc),
                                        !.regs = reg_write(a.regs, d.rt, res.value)])

exec_jtype(a, d) ==
  Completes([a EXCEPT
    !.pc   = jump_target(Succ(a.pc), d),
    !.regs = IF d.opcode = "JAL" THEN reg_write(a.regs, kRa, Succ(a.pc)) ELSE @])

exec_instr(a, d) ==
  CASE d.format = "J" -> exec_jtype(a, d)
    [] d.format = "R" -> exec_rtype(a, d)
    [] d.format = "I" -> exec_itype(a, d)
    [] OTHER          -> raise(a, RI, 0)

(* SingleCycleCpu::step on the architectural state.                        *)
step(a) ==
  IF ~word_ok(a.pc) THEN raise(a, AdEL, a.pc) ELSE
  LET w == read_word(a.mem, a.pc)
      o == exec_instr(a, decode(w))
  IN  CASE ~decodes(w) -> raise(a, RI, 0)
        [] decodes(w) /\ o.result = "Ok" /\ o.arch.pc = a.pc ->
             [o EXCEPT !.result = "Halt"]
        [] OTHER -> o

-----------------------------------------------------------------------------
(* The other operations *)

(* A program that does not fit is refused and changes nothing.  The        *)
(* Expects() contract of load_words asks for an aligned address.           *)
load_program(a, words, addr) ==
  IF in_bounds(addr, 4 * Len(words))
  THEN [a EXCEPT !.mem = load_words(a.mem, addr, words), !.pc = addr]
  ELSE a

reset(a, clear_memory) ==
  [pc  |-> 0, regs |-> ZeroRegs, cp0 |-> cp0_reset(a.cp0),
   mem |-> IF clear_memory THEN ZeroMemory ELSE a.mem]
=============================================================================
