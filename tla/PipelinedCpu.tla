---------------------------- MODULE PipelinedCpu ----------------------------
(***************************************************************************)
(* PipelinedCpu: the five-stage pipeline IF, ID, EX, MEM, WB.  One Step is *)
(* one call of step(), i.e. one clock cycle: WB and MEM commit, EX, ID and *)
(* IF return outcomes, and the oldest stage that traps or redirects        *)
(* decides which outcomes survive.                                         *)
(*                                                                         *)
(* An optional of the code is a record with a Boolean (raised, taken); a   *)
(* value-initialised pipeline register is a bubble.  The cycle counter,    *)
(* HI and LO and the trace log are left out.                               *)
(***************************************************************************)
EXTENDS MipsIsa

CONSTANTS
  Programs,     \* word sequences a caller may load
  LoadAddrs,    \* word-aligned addresses it may load them at
  ResetModes    \* values of clear_memory that callers pass to reset()

ASSUME CallersAssumption ==
  /\ Programs \subseteq Seq(Word)
  /\ \A a \in LoadAddrs : a \in Word /\ a % 4 = 0
  /\ ResetModes \subseteq BOOLEAN

VARIABLES
  pc, regs, mem, cp0, ctrl,         \* pc_, regs_, mem_, cp0_, ctrl_
  if_id, id_ex, ex_mem, mem_wb,     \* the four inter-stage registers
  ps,                               \* pipeline_state(), what front ends see
  result,                           \* what the last step() returned
  op                                \* the member function last called

latches == <<if_id, id_ex, ex_mem, mem_wb>>
vars == <<pc, regs, mem, cp0, ctrl, if_id, id_ex, ex_mem, mem_wb, ps, result, op>>

-----------------------------------------------------------------------------
(* Pipeline registers *)

NoCode == -1     \* early_trap = nullopt

IfId ==
  [valid : BOOLEAN, pc : Word, pc4 : Word, instr : Word, is_halt : BOOLEAN,
   fetch_fault : BOOLEAN]
IdEx ==
  [valid : BOOLEAN, pc : Word, pc4 : Word, ctrl : Control, decoded : DecodedInstr,
   rs_val : Word, rt_val : Word, rs : RegIdx, rt : RegIdx, is_halt : BOOLEAN,
   early_trap : {NoCode, AdEL, RI}]
ExMem ==
  [valid : BOOLEAN, pc : Word, raw : Word, ctrl : Control, opcode : Opcode,
   value : Word, rt_val : Word, write_reg : RegIdx, is_halt : BOOLEAN]
MemWb ==
  [valid : BOOLEAN, pc : Word, raw : Word, ctrl : Control, alu_val : Word,
   mem_val : Word, write_reg : RegIdx, is_halt : BOOLEAN]

IfIdBubble ==
  [valid |-> FALSE, pc |-> 0, pc4 |-> 0, instr |-> 0, is_halt |-> FALSE,
   fetch_fault |-> FALSE]
IdExBubble ==
  [valid |-> FALSE, pc |-> 0, pc4 |-> 0, ctrl |-> NoControl, decoded |-> NoInstr,
   rs_val |-> 0, rt_val |-> 0, rs |-> 0, rt |-> 0, is_halt |-> FALSE,
   early_trap |-> NoCode]
ExMemBubble ==
  [valid |-> FALSE, pc |-> 0, raw |-> 0, ctrl |-> NoControl, opcode |-> "SPECIAL",
   value |-> 0, rt_val |-> 0, write_reg |-> 0, is_halt |-> FALSE]
MemWbBubble ==
  [valid |-> FALSE, pc |-> 0, raw |-> 0, ctrl |-> NoControl, alu_val |-> 0,
   mem_val |-> 0, write_reg |-> 0, is_halt |-> FALSE]

NoTrap == [raised |-> FALSE, code |-> RI, pc |-> 0, bad_addr |-> 0]
Trap(code, p, bad_addr) == [raised |-> TRUE, code |-> code, pc |-> p, bad_addr |-> bad_addr]
NoRedirect == [taken |-> FALSE, pc |-> 0]
Redirect(p) == [taken |-> TRUE, pc |-> p]
NoMtc0 == [taken |-> FALSE, reg |-> 0, value |-> 0]
NoPaths == [ex_mem_a |-> FALSE, ex_mem_b |-> FALSE, mem_wb_a |-> FALSE, mem_wb_b |-> FALSE]

-----------------------------------------------------------------------------
(* Hazard and forwarding units *)

(* The registers an instruction reads. *)
source_registers(d) ==
  CASE d.opcode = "COP0" -> IF d.rs = 4 THEN {d.rt} ELSE {}
    [] d.opcode = "SPECIAL" ->
         CASE d.funct \in {"SLL", "SRL", "SRA"} -> {d.rt}
           [] d.funct \in {"JR", "JALR"}        -> {d.rs}
           [] OTHER                             -> {d.rs, d.rt}
    [] d.format = "I" ->
         CASE d.opcode = "LUI"                  -> {}
           [] d.opcode \in {"SW", "BEQ", "BNE"} -> {d.rs, d.rt}
           [] OTHER                             -> {d.rs}
    [] OTHER -> {}

(* Mutant: COP0 is treated like any other R-format instruction. *)
destination_register_no_cop0(d) ==
  CASE d.opcode = "JAL" -> kRa
    [] OTHER -> IF ~derive_control(d).reg_write THEN -1
                ELSE IF d.format = "R" THEN d.rd ELSE d.rt

(* The register an instruction writes, as the front ends show it; -1: none.*)
destination_register(d) ==
  CASE d.opcode = "COP0" -> IF d.rs = 0 THEN d.rt ELSE -1
    [] d.opcode = "JAL"  -> kRa
    [] OTHER -> IF ~derive_control(d).reg_write THEN -1
                ELSE IF d.format = "R" THEN d.rd ELSE d.rt

(* Mutant: only the first source register is compared. *)
load_use_hazard_rs_only(ex, id) ==
  /\ ex.valid /\ ex.ctrl.mem_read
  /\ id.valid /\ ~id.fetch_fault
  /\ decodes(id.instr)
  /\ ex.rt # 0
  /\ ex.rt = decode(id.instr).rs

(* Mutant: the tests for a load in EX and for $zero are dropped. *)
load_use_hazard_any(ex, id) ==
  /\ id.valid /\ ~id.fetch_fault
  /\ decodes(id.instr)
  /\ ex.rt \in source_registers(decode(id.instr))

load_use_hazard(ex, id) ==
  /\ ex.valid /\ ex.ctrl.mem_read
  /\ id.valid /\ ~id.fetch_fault
  /\ decodes(id.instr)
  /\ ex.rt # 0
  /\ ex.rt \in source_registers(decode(id.instr))

(* The value WB writes. *)
wb_value(mw) == IF mw.ctrl.mem_to_reg THEN mw.mem_val ELSE mw.alu_val

forwards_ex_mem(em, r) ==
  em.valid /\ em.ctrl.reg_write /\ ~em.ctrl.mem_read /\ em.write_reg # 0 /\ em.write_reg = r

forwards_mem_wb(mw, r) ==
  mw.valid /\ mw.ctrl.reg_write /\ mw.write_reg # 0 /\ mw.write_reg = r

(* Mutant: MEM/WB has priority over EX/MEM. *)
forward_oldest_first(r, read, em, mw) ==
  CASE forwards_mem_wb(mw, r) -> wb_value(mw)
    [] ~forwards_mem_wb(mw, r) /\ forwards_ex_mem(em, r) -> em.value
    [] OTHER -> read

forward(r, read, em, mw) ==
  CASE forwards_ex_mem(em, r) -> em.value
    [] ~forwards_ex_mem(em, r) /\ forwards_mem_wb(mw, r) -> wb_value(mw)
    [] OTHER -> read

forward_operands(in, em, mw) ==
  [a |-> forward(in.rs, in.rs_val, em, mw),
   b |-> forward(in.rt, in.rt_val, em, mw),
   paths |->
     [ex_mem_a |-> forwards_ex_mem(em, in.rs),
      ex_mem_b |-> forwards_ex_mem(em, in.rt),
      mem_wb_a |-> forwards_mem_wb(mw, in.rs) /\ ~forwards_ex_mem(em, in.rs),
      mem_wb_b |-> forwards_mem_wb(mw, in.rt) /\ ~forwards_ex_mem(em, in.rt)]]

-----------------------------------------------------------------------------
(* Stages.  Each reads the pipeline registers as they were at the start of *)
(* the cycle.                                                              *)

(* WB: the register file after it. *)
write_back(r, in) ==
  IF in.valid /\ in.ctrl.reg_write THEN reg_write(r, in.write_reg, wb_value(in)) ELSE r

(* MEM: performs its own load or store, and is the oldest stage that traps.*)
mem_traps(in) ==
  /\ in.valid
  /\ \/ in.ctrl.mem_read /\ ~load_ok(in.opcode, in.value)
     \/ in.ctrl.mem_write /\ ~store_ok(in.opcode, in.value)

mem_trap(in) ==
  IF mem_traps(in)
  THEN Trap(IF in.ctrl.mem_read THEN AdEL ELSE AdES, in.pc, in.value)
  ELSE NoTrap

(* Mutant: an instruction that traps in MEM still goes on to WB. *)
memory_access_keeps_trapping(m, in) ==
  [trap |-> mem_trap(in),
   mem  |-> IF in.valid /\ in.ctrl.mem_write /\ ~mem_traps(in)
            THEN write_word(m, in.value, in.rt_val) ELSE m,
   next |-> IF ~in.valid THEN MemWbBubble
            ELSE [valid     |-> TRUE, pc |-> in.pc, raw |-> in.raw, ctrl |-> in.ctrl,
                  alu_val   |-> in.value,
                  mem_val   |-> IF in.ctrl.mem_read /\ ~mem_traps(in)
                                THEN load_data(m, in.opcode, in.value) ELSE 0,
                  write_reg |-> in.write_reg, is_halt |-> in.is_halt]]

memory_access(m, in) ==
  [trap |-> mem_trap(in),
   mem  |-> IF in.valid /\ in.ctrl.mem_write /\ ~mem_traps(in)
            THEN write_word(m, in.value, in.rt_val) ELSE m,
   next |-> IF ~in.valid \/ mem_traps(in) THEN MemWbBubble
            ELSE [valid     |-> TRUE, pc |-> in.pc, raw |-> in.raw, ctrl |-> in.ctrl,
                  alu_val   |-> in.value,
                  mem_val   |-> IF in.ctrl.mem_read
                                THEN load_data(m, in.opcode, in.value) ELSE 0,
                  write_reg |-> in.write_reg, is_halt |-> in.is_halt]]

(* EX changes nothing itself: it returns an outcome. *)
NoExOutcome ==
  [next |-> ExMemBubble, trap |-> NoTrap, redirect |-> NoRedirect, eret |-> FALSE,
   mtc0 |-> NoMtc0, forwarded |-> NoPaths]

(* An instruction that does not trap goes on to MEM, a no-op if need be.   *)
ex_continues(in, ops) ==
  [NoExOutcome EXCEPT
     !.forwarded = ops.paths,
     !.next = [valid |-> TRUE, pc |-> in.pc, raw |-> in.decoded.raw, ctrl |-> in.ctrl,
               opcode |-> in.decoded.opcode, value |-> 0, rt_val |-> ops.b,
               write_reg |-> 0, is_halt |-> in.is_halt]]

ex_traps(in, ops, code) ==
  [NoExOutcome EXCEPT !.forwarded = ops.paths, !.trap = Trap(code, in.pc, 0)]

ex_early_trap(in) ==
  [NoExOutcome EXCEPT
     !.trap = Trap(in.early_trap, in.pc, IF in.early_trap = AdEL THEN in.pc ELSE 0)]

ex_jump(in, ops) ==
  IF in.decoded.opcode = "JAL"
  THEN [ex_continues(in, ops) EXCEPT !.next.value = in.pc4, !.next.write_reg = kRa]
  ELSE ex_continues(in, ops)

ex_branch(in, ops) ==
  LET zero == alu_execute("SUBU", ops.a, ops.b, 0).value = 0 IN
  IF (in.decoded.opcode = "BEQ") <=> zero
  THEN [ex_continues(in, ops) EXCEPT !.redirect = Redirect(branch_target(in.pc4, in.decoded))]
  ELSE ex_continues(in, ops)

ex_register_jump(in, ops) ==
  IF in.decoded.funct = "JALR"
  THEN [ex_continues(in, ops) EXCEPT !.redirect = Redirect(ops.a),
                                     !.next.value = in.pc4,
                                     !.next.write_reg = in.decoded.rd]
  ELSE [ex_continues(in, ops) EXCEPT !.redirect = Redirect(ops.a)]

ex_cop0(in, ops, c) ==
  LET d == in.decoded IN
  CASE d.rs = 0 ->
         [ex_continues(in, ops) EXCEPT !.next.ctrl.reg_write = TRUE,
                                       !.next.value = cp0_read(c, d.rd),
                                       !.next.write_reg = d.rt]
    [] d.rs = 4 ->
         [ex_continues(in, ops) EXCEPT
            !.mtc0 = [taken |-> TRUE, reg |-> d.rd, value |-> ops.b]]
    [] d.rs = 16 /\ d.funct = "ERET" ->
         [ex_continues(in, ops) EXCEPT !.eret = TRUE, !.redirect = Redirect(c.epc)]
    [] OTHER -> ex_continues(in, ops)

ex_alu(in, ops) ==
  LET d     == in.decoded
      alu_b == IF in.ctrl.alu_src /\ d.format = "I" THEN extended_imm(d, in.ctrl) ELSE ops.b
      res   == alu_execute(alu_control(d), ops.a, alu_b, shift_amount(d, ops.a))
  IN  CASE alu_control(d) = "none" -> ex_traps(in, ops, RI)
        [] res.overflow /\ (d.funct \in {"ADD", "SUB"} \/ d.opcode = "ADDI") ->
             ex_traps(in, ops, Ov)
        [] OTHER ->
             [ex_continues(in, ops) EXCEPT
                !.next.value = res.value,
                !.next.write_reg = IF in.ctrl.reg_dst /\ d.format = "R" THEN d.rd
                                   ELSE IF d.format = "I" THEN d.rt ELSE 0]

ex_instr(in, ops, c) ==
  LET d == in.decoded IN
  CASE d.format = "J"             -> ex_jump(in, ops)
    [] d.opcode \in {"BEQ", "BNE"} -> ex_branch(in, ops)
    [] d.opcode = "COP0"          -> ex_cop0(in, ops, c)
    [] d.opcode = "SPECIAL" /\ d.funct \in {"JR", "JALR"} -> ex_register_jump(in, ops)
    [] d.opcode = "SPECIAL" /\ d.funct = "SYSCALL" -> ex_traps(in, ops, Sys)
    [] d.opcode = "SPECIAL" /\ d.funct = "BREAK"   -> ex_traps(in, ops, Bp)
    [] OTHER                      -> ex_alu(in, ops)

execute(in, em, mw, c) ==
  IF ~in.valid THEN NoExOutcome
  ELSE IF in.early_trap # NoCode THEN ex_early_trap(in)
  ELSE ex_instr(in, forward_operands(in, em, mw), c)

(* ID: reads the registers r that WB has just written, resolves J and JAL, *)
(* and records a failed fetch or an undecodable word for EX to raise.      *)
NoIdOutcome == [next |-> IdExBubble, jump |-> NoRedirect]

decode_stage(in, r) ==
  LET d     == decode(in.instr)
      began == [IdExBubble EXCEPT !.valid = TRUE, !.pc = in.pc, !.pc4 = in.pc4]
  IN  CASE in.fetch_fault ->
             [NoIdOutcome EXCEPT !.next = [began EXCEPT !.early_trap = AdEL]]
        [] ~in.fetch_fault /\ ~decodes(in.instr) ->
             [NoIdOutcome EXCEPT !.next = [began EXCEPT !.early_trap = RI,
                                                        !.decoded.raw = in.instr]]
        [] OTHER ->
             [next |-> [began EXCEPT !.ctrl = derive_control(d), !.decoded = d,
                                     !.rs = d.rs, !.rt = d.rt,
                                     !.rs_val = reg_read(r, d.rs),
                                     !.rt_val = reg_read(r, d.rt),
                                     !.is_halt = in.is_halt],
              jump |-> IF d.format = "J" THEN Redirect(jump_target(in.pc4, d))
                       ELSE NoRedirect]

(* Mutant: the halt idiom is compared with the wrong address. *)
fetch_halt_at_pc4(m, p) ==
  LET pc4 == (p + 4) % WordSize
      f   == Fields[read_word(m, p)]
  IN  IF ~word_ok(p)
      THEN [IfIdBubble EXCEPT !.valid = TRUE, !.pc = p, !.pc4 = pc4, !.fetch_fault = TRUE]
      ELSE [valid |-> TRUE, pc |-> p, pc4 |-> pc4, instr |-> read_word(m, p),
            is_halt |-> f.opcode \in {"J", "JAL"} /\ jump_target(pc4, f) = pc4,
            fetch_fault |-> FALSE]

(* IF: a J or JAL to its own address is the halt idiom. *)
fetch(m, p) ==
  LET pc4 == (p + 4) % WordSize
      f   == Fields[read_word(m, p)]
  IN  IF ~word_ok(p)
      THEN [IfIdBubble EXCEPT !.valid = TRUE, !.pc = p, !.pc4 = pc4, !.fetch_fault = TRUE]
      ELSE [valid |-> TRUE, pc |-> p, pc4 |-> pc4, instr |-> read_word(m, p),
            is_halt |-> f.opcode \in {"J", "JAL"} /\ jump_target(pc4, f) = p,
            fetch_fault |-> FALSE]

-----------------------------------------------------------------------------
(* One clock cycle.  mo, eo and io are the outcomes of MEM, EX and ID.     *)

(* EX does not run behind a trap in MEM. *)
ex_outcome(mo) ==
  IF mo.trap.raised THEN NoExOutcome ELSE execute(id_ex, ex_mem, mem_wb, cp0)

(* The oldest trap of the cycle. *)
cycle_trap(mo, eo) == IF mo.trap.raised THEN mo.trap ELSE eo.trap

ex_flushes(mo, eo) == mo.trap.raised \/ eo.trap.raised \/ eo.redirect.taken

id_outcome(flush, stall) ==
  IF stall \/ flush \/ ~if_id.valid THEN NoIdOutcome
  ELSE decode_stage(if_id, write_back(regs, mem_wb))

(* EX's CP0 access is applied only if nothing trapped. *)
next_cp0(trap, eo) ==
  IF trap.raised THEN cp0_raise(cp0, trap.code, trap.pc, trap.bad_addr)
  ELSE IF eo.mtc0.taken THEN cp0_write(cp0, eo.mtc0.reg, eo.mtc0.value)
  ELSE IF eo.eret THEN cp0_eret(cp0)
  ELSE cp0

(* Priority: two-stage flush, one-stage flush, stall, normal advance. *)
next_pc(trap, eo, io, stall) ==
  IF trap.raised THEN kExceptionVector
  ELSE IF eo.redirect.taken THEN eo.redirect.pc
  ELSE IF io.jump.taken THEN io.jump.pc
  ELSE IF stall THEN pc
  ELSE (pc + 4) % WordSize

(* Mutant: a trap or a branch does not flush IF. *)
next_if_id_no_flush(flush, io, stall, m) ==
  IF io.jump.taken THEN IfIdBubble ELSE IF stall THEN if_id ELSE fetch(m, pc)

next_if_id(flush, io, stall, m) ==
  IF flush \/ io.jump.taken THEN IfIdBubble
  ELSE IF stall THEN if_id
  ELSE fetch(m, pc)

next_id_ex(flush, io, stall) == IF flush \/ stall THEN IdExBubble ELSE io.next

(* Mutant: Halt is returned when the jump reaches EX. *)
step_result_early_halt(trap) ==
  IF trap.raised THEN "Exception"
  ELSE IF id_ex.valid /\ id_ex.is_halt THEN "Halt"
  ELSE "Ok"

step_result(trap) ==
  IF trap.raised THEN "Exception"
  ELSE IF mem_wb.valid /\ mem_wb.is_halt THEN "Halt"
  ELSE "Ok"

Stage(valid, stalled, flushed, p) ==
  [valid |-> valid, stalled |-> stalled, flushed |-> flushed, pc |-> p]

(* What each stage worked on in this cycle; a failed fetch is no instruction. *)
next_ps(flush, eo, io, stall, new_if) ==
  [stages |->
     <<Stage(new_if.valid /\ ~new_if.fetch_fault, stall, flush \/ io.jump.taken, new_if.pc),
       Stage(if_id.valid /\ ~if_id.fetch_fault, stall, flush, if_id.pc),
       Stage(id_ex.valid /\ id_ex.early_trap # AdEL, FALSE, FALSE, id_ex.pc),
       Stage(ex_mem.valid, FALSE, FALSE, ex_mem.pc),
       Stage(mem_wb.valid, FALSE, FALSE, mem_wb.pc)>>,
   fwd          |-> eo.forwarded,
   load_stall   |-> stall,
   branch_flush |-> flush,
   retired      |-> mem_wb.valid]

NoPs ==
  [stages |-> [i \in 1 .. 5 |-> Stage(FALSE, FALSE, FALSE, 0)], fwd |-> NoPaths,
   load_stall |-> FALSE, branch_flush |-> FALSE, retired |-> FALSE]

Step ==
  LET mo     == memory_access(mem, ex_mem)
      eo     == ex_outcome(mo)
      trap   == cycle_trap(mo, eo)
      flush  == ex_flushes(mo, eo)
      stall  == load_use_hazard(id_ex, if_id)
      io     == id_outcome(flush, stall)
      new_if == next_if_id(flush, io, stall, mo.mem)
  IN  /\ op' = "step"
      /\ regs' = write_back(regs, mem_wb)
      /\ ctrl' = IF mem_wb.valid THEN mem_wb.ctrl ELSE ctrl
      /\ mem' = mo.mem
      /\ cp0' = next_cp0(trap, eo)
      /\ mem_wb' = mo.next
      /\ ex_mem' = eo.next
      /\ id_ex' = next_id_ex(flush, io, stall)
      /\ if_id' = new_if
      /\ pc' = next_pc(trap, eo, io, stall)
      /\ ps' = next_ps(flush, eo, io, stall, new_if)
      /\ result' = step_result(trap)

-----------------------------------------------------------------------------
(* The other operations, as the repository's callers use them. *)

(* Every front end loads into a CPU it has just reset. *)
LoadProgram ==
  /\ op = "reset"
  /\ op' = "load_program"
  /\ \E words \in Programs, addr \in LoadAddrs :
       IF in_bounds(addr, 4 * Len(words))
       THEN mem' = load_words(mem, addr, words) /\ pc' = addr
       ELSE UNCHANGED <<mem, pc>>
  /\ UNCHANGED <<regs, cp0, ctrl, if_id, id_ex, ex_mem, mem_wb, ps, result>>

(* Mutant: reset() forgets MEM/WB. *)
ResetKeepsMemWb(clear_memory) ==
  /\ op' = "reset"
  /\ regs' = ZeroRegs
  /\ cp0' = cp0_reset(cp0)
  /\ pc' = 0
  /\ ctrl' = NoControl
  /\ ps' = NoPs
  /\ if_id' = IfIdBubble
  /\ id_ex' = IdExBubble
  /\ ex_mem' = ExMemBubble
  /\ mem' = IF clear_memory THEN ZeroMemory ELSE mem
  /\ UNCHANGED <<mem_wb, result>>

Reset(clear_memory) ==
  /\ op' = "reset"
  /\ regs' = ZeroRegs
  /\ cp0' = cp0_reset(cp0)
  /\ pc' = 0
  /\ ctrl' = NoControl
  /\ ps' = NoPs
  /\ if_id' = IfIdBubble
  /\ id_ex' = IdExBubble
  /\ ex_mem' = ExMemBubble
  /\ mem_wb' = MemWbBubble
  /\ mem' = IF clear_memory THEN ZeroMemory ELSE mem
  /\ UNCHANGED result

(* After a step that trapped, the GDB stub puts the PC back on the EPC.    *)
SetPcToEpc ==
  /\ op = "step" /\ result = "Exception"
  /\ op' = "set_pc"
  /\ pc' = cp0.epc
  /\ UNCHANGED <<regs, mem, cp0, ctrl, if_id, id_ex, ex_mem, mem_wb, ps, result>>

(* A CPU that has been constructed and given a program. *)
Init ==
  /\ \E words \in Programs, addr \in LoadAddrs :
       /\ in_bounds(addr, 4 * Len(words))
       /\ mem = load_words(ZeroMemory, addr, words)
       /\ pc = addr
  /\ regs = ZeroRegs
  /\ cp0 = PowerOnCp0
  /\ ctrl = NoControl
  /\ if_id = IfIdBubble
  /\ id_ex = IdExBubble
  /\ ex_mem = ExMemBubble
  /\ mem_wb = MemWbBubble
  /\ ps = NoPs
  /\ result = "Ok"
  /\ op = "load_program"

Next ==
  \/ Step
  \/ LoadProgram
  \/ \E clear_memory \in ResetModes : Reset(clear_memory)
  \/ SetPcToEpc

Spec == Init /\ [][Next]_vars

(* A store rewrites a word that has been fetched but not yet executed.  A  *)
(* pipeline does not see such a store; the repository lists it as one of   *)
(* the two deliberate differences from the single-cycle model.             *)
RewritesInFlight ==
  /\ ex_mem.valid /\ ex_mem.ctrl.mem_write /\ ~mem_traps(ex_mem)
  /\ \/ if_id.valid /\ if_id.pc = ex_mem.value
     \/ id_ex.valid /\ id_ex.pc = ex_mem.value

(* Programs that do not rewrite instructions in flight. *)
DisciplinedStep == Step /\ ~RewritesInFlight'
DisciplinedNext ==
  \/ DisciplinedStep
  \/ LoadProgram
  \/ \E clear_memory \in ResetModes : Reset(clear_memory)
  \/ SetPcToEpc
DisciplinedSpec == Init /\ [][DisciplinedNext]_vars

(* A front end that keeps calling step(), as run() and a run timer do.     *)
FairSpec == Spec /\ WF_vars(Step)

-----------------------------------------------------------------------------
(* Refinement: an instruction commits when it leaves EX.  What MEM and WB  *)
(* have still to do to the instructions ahead is applied by the stages     *)
(* themselves, and the next instruction is the oldest one before EX.       *)

AbsPc ==
  IF mem_traps(ex_mem) THEN kExceptionVector
  ELSE IF id_ex.valid THEN id_ex.pc
  ELSE IF if_id.valid THEN if_id.pc
  ELSE pc
AbsMem  == memory_access(mem, ex_mem).mem
AbsRegs == write_back(write_back(regs, mem_wb), memory_access(mem, ex_mem).next)
AbsCp0  ==
  IF mem_traps(ex_mem)
  THEN cp0_raise(cp0, mem_trap(ex_mem).code, mem_trap(ex_mem).pc, mem_trap(ex_mem).bad_addr)
  ELSE cp0
AbsArch == [pc |-> AbsPc, regs |-> AbsRegs, mem |-> AbsMem, cp0 |-> AbsCp0]

Arch == INSTANCE MipsArch WITH arch <- AbsArch, op <- op

-----------------------------------------------------------------------------
(* Properties *)

(* Type correctness: every register of the machine and of the pipeline     *)
(* holds a value of its width.                                             *)
StageSnapshot == [valid : BOOLEAN, stalled : BOOLEAN, flushed : BOOLEAN, pc : Word]
TypeOK ==
  /\ pc \in Word
  /\ regs \in RegisterFile
  /\ mem \in Memory
  /\ cp0 \in Cp0
  /\ ctrl \in Control
  /\ if_id \in IfId
  /\ id_ex \in IdEx
  /\ ex_mem \in ExMem
  /\ mem_wb \in MemWb
  /\ ps \in [stages : [1 .. 5 -> StageSnapshot],
             fwd : [ex_mem_a : BOOLEAN, ex_mem_b : BOOLEAN,
                    mem_wb_a : BOOLEAN, mem_wb_b : BOOLEAN],
             load_stall : BOOLEAN, branch_flush : BOOLEAN, retired : BOOLEAN]
  /\ result \in {"Ok", "Exception", "Halt"}
  /\ op \in Arch!Operation

(* The pipeline implements the architecture: every call of step() commits  *)
(* exactly one instruction of the single-cycle oracle, in program order,   *)
(* or none, and the other operations do what they do there.  Stalls,       *)
(* forwarding, flushes, traps and wrong-path work leave no trace.          *)
ImplementsArch == Arch!Spec

(* The operands EX computes with are the architectural ones: whatever the  *)
(* register file held in ID, forwarding has replaced a value that an older *)
(* instruction in MEM or WB is still to write, the youngest such write     *)
(* first, and the load-use stall keeps a load out of MEM when its result   *)
(* is read in EX.                                                          *)
OperandsAreArchitectural ==
  LET ops == forward_operands(id_ex, ex_mem, mem_wb)
      src == source_registers(id_ex.decoded)
  IN  id_ex.valid /\ id_ex.early_trap = NoCode /\ ~mem_traps(ex_mem) =>
        /\ id_ex.rs \in src => ops.a = reg_read(AbsRegs, id_ex.rs)
        /\ id_ex.rt \in src => ops.b = reg_read(AbsRegs, id_ex.rt)

(* A trap is precise when step() reports it: the PC is at the vector, no   *)
(* instruction after the faulting one is left in the pipeline, and CP0 and *)
(* memory are architectural, so a debugger may move the PC at once.  Only  *)
(* a register write of an older instruction may still be in WB.            *)
TrapIsPrecise ==
  op = "step" /\ result = "Exception" =>
    /\ pc = kExceptionVector
    /\ ~if_id.valid /\ ~id_ex.valid /\ ~ex_mem.valid

(* When step() returns Halt every older instruction has retired and the    *)
(* machine has stopped: registers and memory are final, and the oracle's   *)
(* next step changes nothing.                                              *)
HaltIsFinal ==
  op = "step" /\ result = "Halt" =>
    /\ Arch!step(AbsArch) = [arch |-> AbsArch, result |-> "Halt"]
    /\ regs = AbsRegs /\ mem = AbsMem /\ cp0 = AbsCp0

(* The register a front end names for the instruction in WB                *)
(* (destination_register on its word) is the one WB writes.                *)
ShownDestinationIsWritten ==
  mem_wb.valid =>
    LET shown == destination_register(decode(mem_wb.raw)) IN
    IF mem_wb.ctrl.reg_write THEN shown = mem_wb.write_reg ELSE shown = -1

(* pipeline_state().retired counts every completed instruction once: the   *)
(* instructions that have left EX and are still to leave WB grow by one    *)
(* when the oracle completes an instruction and shrink by one when retired *)
(* is shown.  An instruction that traps is never counted.                  *)
InFlight ==
  (IF ex_mem.valid /\ ~mem_traps(ex_mem) THEN 1 ELSE 0) + (IF mem_wb.valid THEN 1 ELSE 0)
CompletesOne ==
  /\ id_ex.valid /\ ~mem_traps(ex_mem)
  /\ Arch!step(AbsArch).result \in {"Ok", "Halt"}
RetiresEachOnce ==
  [][op' = "step" =>
       InFlight' = InFlight + (IF CompletesOne THEN 1 ELSE 0) - (IF ps'.retired THEN 1 ELSE 0)]_vars

(* The pipeline never starves: a front end that keeps calling step() sees  *)
(* instructions commit again and again, unless it also keeps resetting.    *)
CommitsForever == []<>(id_ex.valid \/ mem_traps(ex_mem) \/ op = "reset")

(* Once the program reaches a jump to itself, step() returns Halt, unless  *)
(* a debugger has moved the PC away or a front end has reset the CPU.      *)
AtHaltIdiom ==
  /\ word_ok(AbsPc)
  /\ LET w == read_word(AbsMem, AbsPc) IN
     Fields[w].opcode \in {"J", "JAL"}
       /\ jump_target((AbsPc + 4) % WordSize, Fields[w]) = AbsPc
HaltIsReported == AtHaltIdiom ~> (result = "Halt" \/ op \in {"set_pc", "reset"})
=============================================================================
