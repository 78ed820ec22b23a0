------------------------- MODULE PipelinedCpuProofs -------------------------
(***************************************************************************)
(* Theorems about PipelinedCpu, for every word width, memory size, program *)
(* and exception vector: its types, precise traps, operands, halt and      *)
(* retirement, and that it implements the architecture; and, from the same *)
(* invariant, about the views that show it (PipelineViews), for every size *)
(* of the views and every pattern of throttled cycles.                     *)
(***************************************************************************)
EXTENDS PipelineViews, MipsIsaProofs, SequenceTheorems, WellFoundedInduction

-----------------------------------------------------------------------------
(* The types of what the stages return *)

TrapType     == [raised : BOOLEAN, code : ExceptionCode, pc : Word, bad_addr : Word]
RedirectType == [taken : BOOLEAN, pc : Word]
Mtc0Type     == [taken : BOOLEAN, reg : RegIdx, value : Word]
PathsType    == [ex_mem_a : BOOLEAN, ex_mem_b : BOOLEAN, mem_wb_a : BOOLEAN, mem_wb_b : BOOLEAN]
OperandsType == [a : Word, b : Word, paths : PathsType]
MemOutcome   == [trap : TrapType, mem : Memory, next : MemWb]
ExOutcome    == [next : ExMem, trap : TrapType, redirect : RedirectType, eret : BOOLEAN,
                 mtc0 : Mtc0Type, forwarded : PathsType]
IdOutcome    == [next : IdEx, jump : RedirectType]

LEMMA BubblesType ==
  /\ IfIdBubble \in IfId
  /\ IdExBubble \in IdEx
  /\ ExMemBubble \in ExMem
  /\ MemWbBubble \in MemWb
<1>1. 0 \in Word /\ 0 \in RegIdx
  BY ZeroIsWord DEF RegIdx
<1>2. IfIdBubble \in IfId
  BY <1>1 DEF IfIdBubble, IfId
<1>3. IdExBubble \in IdEx
  BY <1>1, ControlBubbleType, NoInstrType DEF IdExBubble, IdEx
<1>4. ExMemBubble \in ExMem
  BY <1>1, ControlBubbleType DEF ExMemBubble, ExMem, Opcode
<1>5. MemWbBubble \in MemWb
  BY <1>1, ControlBubbleType DEF MemWbBubble, MemWb
<1> QED BY <1>2, <1>3, <1>4, <1>5

LEMMA EmptyOutcomesType ==
  /\ NoTrap \in TrapType
  /\ NoRedirect \in RedirectType
  /\ NoMtc0 \in Mtc0Type
  /\ NoPaths \in PathsType
  /\ NoExOutcome \in ExOutcome
  /\ NoIdOutcome \in IdOutcome
<1>1. 0 \in Word /\ 0 \in RegIdx
  BY ZeroIsWord DEF RegIdx
<1>2. NoTrap \in TrapType
  BY <1>1 DEF NoTrap, TrapType, ExceptionCode
<1>3. NoRedirect \in RedirectType
  BY <1>1 DEF NoRedirect, RedirectType
<1>4. NoMtc0 \in Mtc0Type
  BY <1>1 DEF NoMtc0, Mtc0Type
<1>5. NoPaths \in PathsType
  BY DEF NoPaths, PathsType
<1>6. NoExOutcome \in ExOutcome
  BY <1>2, <1>3, <1>4, <1>5, BubblesType DEF NoExOutcome, ExOutcome
<1>7. NoIdOutcome \in IdOutcome
  BY <1>3, BubblesType DEF NoIdOutcome, IdOutcome
<1> QED BY <1>2, <1>3, <1>4, <1>5, <1>6, <1>7

LEMMA TrapOfType ==
  ASSUME NEW code \in ExceptionCode, NEW p \in Word, NEW bad_addr \in Word
  PROVE  Trap(code, p, bad_addr) \in TrapType
BY DEF Trap, TrapType

LEMMA RedirectOfType ==
  ASSUME NEW p \in Word
  PROVE  Redirect(p) \in RedirectType
BY DEF Redirect, RedirectType

-----------------------------------------------------------------------------
(* WB, MEM and the forwarding unit *)

LEMMA WbValueType ==
  ASSUME NEW mw \in MemWb
  PROVE  wb_value(mw) \in Word
BY DEF wb_value, MemWb

LEMMA WriteBackType ==
  ASSUME NEW r \in RegisterFile, NEW mw \in MemWb
  PROVE  write_back(r, mw) \in RegisterFile
<1>1. mw.write_reg \in RegIdx
  BY DEF MemWb
<1> QED BY <1>1, WbValueType, RegWriteType DEF write_back

LEMMA MemTrapType ==
  ASSUME NEW in \in ExMem
  PROVE  mem_trap(in) \in TrapType
<1>1. in.pc \in Word /\ in.value \in Word
  BY DEF ExMem
<1>2. AdEL \in ExceptionCode /\ AdES \in ExceptionCode
  BY DEF ExceptionCode
<1> QED BY <1>1, <1>2, TrapOfType, EmptyOutcomesType DEF mem_trap

LEMMA MemoryAccessType ==
  ASSUME NEW m \in Memory, NEW in \in ExMem
  PROVE  memory_access(m, in) \in MemOutcome
<1>1. /\ in.pc \in Word /\ in.raw \in Word /\ in.ctrl \in Control /\ in.value \in Word
      /\ in.rt_val \in Word /\ in.write_reg \in RegIdx /\ in.is_halt \in BOOLEAN
  BY DEF ExMem
<1> DEFINE mm == IF in.valid /\ in.ctrl.mem_write /\ ~mem_traps(in)
                 THEN write_word(m, in.value, in.rt_val) ELSE m
           mv == IF in.ctrl.mem_read THEN load_data(m, in.opcode, in.value) ELSE 0
           nx == IF ~in.valid \/ mem_traps(in) THEN MemWbBubble
                 ELSE [valid     |-> TRUE, pc |-> in.pc, raw |-> in.raw, ctrl |-> in.ctrl,
                       alu_val   |-> in.value, mem_val |-> mv,
                       write_reg |-> in.write_reg, is_halt |-> in.is_halt]
<1>2. mm \in Memory
  BY <1>1, WriteWordType
<1>3. in.valid /\ ~mem_traps(in) => mv \in Word
  <2>1. in.valid /\ ~mem_traps(in) /\ in.ctrl.mem_read => load_ok(in.opcode, in.value)
    BY DEF mem_traps
  <2> QED BY <1>1, <2>1, LoadDataType, ZeroIsWord
<1>4. nx \in MemWb
  <2> HIDE DEF mv
  <2> QED BY <1>1, <1>3, BubblesType DEF MemWb
<1>5. memory_access(m, in) = [trap |-> mem_trap(in), mem |-> mm, next |-> nx]
  BY DEF memory_access
<1> HIDE DEF mm, nx
<1> QED BY <1>2, <1>4, <1>5, MemTrapType DEF MemOutcome

LEMMA ForwardType ==
  ASSUME NEW r, NEW read \in Word, NEW em \in ExMem, NEW mw \in MemWb
  PROVE  forward(r, read, em, mw) \in Word
<1>1. em.value \in Word
  BY DEF ExMem
<1> QED BY <1>1, WbValueType DEF forward

LEMMA ForwardOperandsType ==
  ASSUME NEW in \in IdEx, NEW em \in ExMem, NEW mw \in MemWb
  PROVE  forward_operands(in, em, mw) \in OperandsType
<1> DEFINE a  == forward(in.rs, in.rs_val, em, mw)
           b  == forward(in.rt, in.rt_val, em, mw)
           p1 == forwards_ex_mem(em, in.rs)
           p2 == forwards_ex_mem(em, in.rt)
           p3 == forwards_mem_wb(mw, in.rs) /\ ~forwards_ex_mem(em, in.rs)
           p4 == forwards_mem_wb(mw, in.rt) /\ ~forwards_ex_mem(em, in.rt)
<1>1. in.rs_val \in Word /\ in.rt_val \in Word
  BY DEF IdEx
<1>2. a \in Word /\ b \in Word
  BY <1>1, ForwardType
<1>3. p1 \in BOOLEAN /\ p2 \in BOOLEAN /\ p3 \in BOOLEAN /\ p4 \in BOOLEAN
  BY DEF forwards_ex_mem
<1>4. forward_operands(in, em, mw) =
        [a |-> a, b |-> b,
         paths |-> [ex_mem_a |-> p1, ex_mem_b |-> p2, mem_wb_a |-> p3, mem_wb_b |-> p4]]
  BY DEF forward_operands
<1> HIDE DEF a, b, p1, p2, p3, p4
<1> QED BY <1>2, <1>3, <1>4 DEF OperandsType, PathsType

-----------------------------------------------------------------------------
(* EX *)

(* An outcome stays one when EX fills in the value and the register that   *)
(* MEM and WB are to use: for an ALU result or JAL, and for MFC0.          *)
LEMMA ExWritesType ==
  ASSUME NEW eo \in ExOutcome, NEW v \in Word, NEW r \in RegIdx
  PROVE  LET u == [eo EXCEPT !.next.value = v, !.next.write_reg = r]
         IN  u \in ExOutcome /\ u.trap = eo.trap
<1>1. [eo.next EXCEPT !.value = v, !.write_reg = r] \in ExMem
  BY DEF ExOutcome, ExMem
<1> QED BY <1>1 DEF ExOutcome

LEMMA ExReadsCp0Type ==
  ASSUME NEW eo \in ExOutcome, NEW v \in Word, NEW r \in RegIdx
  PROVE  LET u == [eo EXCEPT !.next.ctrl.reg_write = TRUE, !.next.value = v,
                             !.next.write_reg = r]
         IN  u \in ExOutcome /\ u.trap = eo.trap
<1>1. [eo.next EXCEPT !.ctrl.reg_write = TRUE, !.value = v, !.write_reg = r] \in ExMem
  <2>1. eo.next \in ExMem /\ eo.next.ctrl \in Control
    BY DEF ExOutcome, ExMem
  <2>2. [eo.next.ctrl EXCEPT !.reg_write = TRUE] \in Control
    BY <2>1 DEF Control
  <2> QED BY <2>1, <2>2 DEF ExMem
<1> QED BY <1>1 DEF ExOutcome

(* What execute() may return: an instruction that traps in EX goes no      *)
(* further, so MEM gets a bubble.                                          *)
SafeExOutcome(eo) == eo \in ExOutcome /\ (eo.trap.raised => eo.next = ExMemBubble)

LEMMA ExContinuesType ==
  ASSUME NEW in \in IdEx, NEW ops \in OperandsType
  PROVE  ex_continues(in, ops) \in ExOutcome /\ ex_continues(in, ops).trap = NoTrap
<1> DEFINE nx == [valid |-> TRUE, pc |-> in.pc, raw |-> in.decoded.raw, ctrl |-> in.ctrl,
                  opcode |-> in.decoded.opcode, value |-> 0, rt_val |-> ops.b,
                  write_reg |-> 0, is_halt |-> in.is_halt]
<1>1. in.decoded \in DecodedInstr /\ in.pc \in Word /\ in.ctrl \in Control
      /\ in.is_halt \in BOOLEAN
  BY DEF IdEx
<1>2. in.decoded.raw \in Word /\ in.decoded.opcode \in Opcode
  BY <1>1 DEF DecodedInstr
<1>3. ops.b \in Word /\ ops.paths \in PathsType
  BY DEF OperandsType
<1>4. nx \in ExMem
  BY <1>1, <1>2, <1>3, ZeroIsWord DEF ExMem, RegIdx
<1>5. ex_continues(in, ops) = [NoExOutcome EXCEPT !.forwarded = ops.paths, !.next = nx]
  BY DEF ex_continues
<1> HIDE DEF nx
<1>6. NoExOutcome \in ExOutcome /\ NoExOutcome.trap = NoTrap
  BY EmptyOutcomesType DEF NoExOutcome
<1> QED BY <1>3, <1>4, <1>5, <1>6 DEF ExOutcome

LEMMA ExTrapsType ==
  ASSUME NEW in \in IdEx, NEW ops \in OperandsType, NEW code \in ExceptionCode
  PROVE  SafeExOutcome(ex_traps(in, ops, code))
<1>1. Trap(code, in.pc, 0) \in TrapType
  BY TrapOfType, ZeroIsWord DEF IdEx
<1>2. ops.paths \in PathsType
  BY DEF OperandsType
<1>3. NoExOutcome \in ExOutcome /\ NoExOutcome.next = ExMemBubble
  BY EmptyOutcomesType DEF NoExOutcome
<1> QED BY <1>1, <1>2, <1>3 DEF ex_traps, ExOutcome, SafeExOutcome

LEMMA ExEarlyTrapType ==
  ASSUME NEW in \in IdEx, in.early_trap # NoCode
  PROVE  SafeExOutcome(ex_early_trap(in))
<1>1. in.early_trap \in ExceptionCode /\ in.pc \in Word
  BY DEF IdEx, ExceptionCode
<1>2. Trap(in.early_trap, in.pc, IF in.early_trap = AdEL THEN in.pc ELSE 0) \in TrapType
  BY <1>1, TrapOfType, ZeroIsWord
<1>3. NoExOutcome \in ExOutcome /\ NoExOutcome.next = ExMemBubble
  BY EmptyOutcomesType DEF NoExOutcome
<1> QED BY <1>2, <1>3 DEF ex_early_trap, ExOutcome, SafeExOutcome

(* An instruction that does not trap is safe whatever else it does. *)
LEMMA NoTrapIsSafe ==
  ASSUME NEW eo \in ExOutcome, eo.trap = NoTrap
  PROVE  SafeExOutcome(eo)
BY DEF SafeExOutcome, NoTrap

LEMMA ExJumpType ==
  ASSUME NEW in \in IdEx, NEW ops \in OperandsType
  PROVE  SafeExOutcome(ex_jump(in, ops))
<1> DEFINE eo == ex_continues(in, ops)
<1>1. eo \in ExOutcome /\ eo.trap = NoTrap
  BY ExContinuesType
<1>2. in.pc4 \in Word /\ kRa \in RegIdx
  BY DEF IdEx, kRa, RegIdx
<1> HIDE DEF eo
<1>3. LET u == [eo EXCEPT !.next.value = in.pc4, !.next.write_reg = kRa]
      IN  u \in ExOutcome /\ u.trap = NoTrap
  BY <1>1, <1>2, ExWritesType
<1> QED BY <1>1, <1>3, NoTrapIsSafe DEF ex_jump, eo

LEMMA ExBranchType ==
  ASSUME NEW in \in IdEx, NEW ops \in OperandsType
  PROVE  SafeExOutcome(ex_branch(in, ops))
<1> DEFINE eo == ex_continues(in, ops)
           rd == Redirect(branch_target(in.pc4, in.decoded))
<1>1. eo \in ExOutcome /\ eo.trap = NoTrap
  BY ExContinuesType
<1>2. rd \in RedirectType
  BY BranchTargetType, RedirectOfType DEF IdEx
<1> HIDE DEF eo, rd
<1>3. [eo EXCEPT !.redirect = rd] \in ExOutcome /\ [eo EXCEPT !.redirect = rd].trap = NoTrap
  BY <1>1, <1>2 DEF ExOutcome
<1> QED BY <1>1, <1>3, NoTrapIsSafe DEF ex_branch, eo, rd

LEMMA ExRegisterJumpType ==
  ASSUME NEW in \in IdEx, NEW ops \in OperandsType
  PROVE  SafeExOutcome(ex_register_jump(in, ops))
<1> DEFINE eo == ex_continues(in, ops)
           rd == Redirect(ops.a)
<1>1. eo \in ExOutcome /\ eo.trap = NoTrap
  BY ExContinuesType
<1>2. rd \in RedirectType
  BY RedirectOfType DEF OperandsType
<1>3. in.pc4 \in Word /\ in.decoded.rd \in RegIdx
  BY DEF IdEx, DecodedInstr
<1> HIDE DEF eo, rd
<1>4. [eo EXCEPT !.redirect = rd] \in ExOutcome /\ [eo EXCEPT !.redirect = rd].trap = NoTrap
  BY <1>1, <1>2 DEF ExOutcome
<1>5. LET u == [eo EXCEPT !.redirect = rd, !.next.value = in.pc4,
                          !.next.write_reg = in.decoded.rd]
      IN  u \in ExOutcome /\ u.trap = NoTrap
  <2>1. [eo.next EXCEPT !.value = in.pc4, !.write_reg = in.decoded.rd] \in ExMem
    BY <1>1, <1>3 DEF ExOutcome, ExMem
  <2> QED BY <1>1, <1>2, <2>1 DEF ExOutcome
<1> QED BY <1>4, <1>5, NoTrapIsSafe DEF ex_register_jump, eo, rd

LEMMA ExCop0Type ==
  ASSUME NEW in \in IdEx, NEW ops \in OperandsType, NEW c \in Cp0
  PROVE  SafeExOutcome(ex_cop0(in, ops, c))
<1> DEFINE eo == ex_continues(in, ops)
           d  == in.decoded
           v  == cp0_read(c, d.rd)
           mt == [taken |-> TRUE, reg |-> d.rd, value |-> ops.b]
           rd == Redirect(c.epc)
<1>1. eo \in ExOutcome /\ eo.trap = NoTrap
  BY ExContinuesType
<1>2. d.rd \in RegIdx /\ d.rt \in RegIdx /\ ops.b \in Word
  BY DEF IdEx, DecodedInstr, OperandsType
<1>3. v \in Word /\ mt \in Mtc0Type /\ rd \in RedirectType
  <2>1. v \in Word
    BY Cp0ReadType
  <2>2. mt \in Mtc0Type
    BY <1>2 DEF Mtc0Type
  <2>3. rd \in RedirectType
    BY RedirectOfType DEF Cp0
  <2> QED BY <2>1, <2>2, <2>3
<1> HIDE DEF eo, v, mt, rd
<1>4. LET u == [eo EXCEPT !.next.ctrl.reg_write = TRUE, !.next.value = v,
                          !.next.write_reg = d.rt]
      IN  u \in ExOutcome /\ u.trap = NoTrap
  BY <1>1, <1>2, <1>3, ExReadsCp0Type
<1>5. [eo EXCEPT !.mtc0 = mt] \in ExOutcome /\ [eo EXCEPT !.mtc0 = mt].trap = NoTrap
  BY <1>1, <1>3 DEF ExOutcome
<1>6. LET u == [eo EXCEPT !.eret = TRUE, !.redirect = rd]
      IN  u \in ExOutcome /\ u.trap = NoTrap
  BY <1>1, <1>3 DEF ExOutcome
<1>7. SafeExOutcome(eo)
  BY <1>1, NoTrapIsSafe
<1>8. SafeExOutcome([eo EXCEPT !.next.ctrl.reg_write = TRUE, !.next.value = v,
                               !.next.write_reg = d.rt])
  BY <1>4, NoTrapIsSafe
<1>9. SafeExOutcome([eo EXCEPT !.mtc0 = mt])
  BY <1>5, NoTrapIsSafe
<1>10. SafeExOutcome([eo EXCEPT !.eret = TRUE, !.redirect = rd])
  BY <1>6, NoTrapIsSafe
<1> HIDE DEF SafeExOutcome
<1> QED BY <1>7, <1>8, <1>9, <1>10 DEF ex_cop0, eo, v, mt, rd

LEMMA ExAluType ==
  ASSUME NEW in \in IdEx, NEW ops \in OperandsType
  PROVE  SafeExOutcome(ex_alu(in, ops))
<1> DEFINE eo    == ex_continues(in, ops)
           d     == in.decoded
           alu_b == IF in.ctrl.alu_src /\ d.format = "I" THEN extended_imm(d, in.ctrl)
                    ELSE ops.b
           res   == alu_execute(alu_control(d), ops.a, alu_b, shift_amount(d, ops.a))
           wr    == IF in.ctrl.reg_dst /\ d.format = "R" THEN d.rd
                    ELSE IF d.format = "I" THEN d.rt ELSE 0
           u     == [eo EXCEPT !.next.value = res.value, !.next.write_reg = wr]
<1>1. eo \in ExOutcome /\ eo.trap = NoTrap
  BY ExContinuesType
<1>2. d \in DecodedInstr /\ d.rd \in RegIdx /\ d.rt \in RegIdx
  BY DEF IdEx, DecodedInstr
<1>3. ops.a \in Word /\ ops.b \in Word
  BY DEF OperandsType
<1>4. res.value \in Word
  <2>1. alu_b \in Word
    BY <1>2, <1>3, ExtendedImmType
  <2>2. shift_amount(d, ops.a) \in Nat
    BY <1>2, <1>3, ShiftAmountType
  <2> HIDE DEF alu_b
  <2> QED BY <1>3, <2>1, <2>2, AluValueType DEF alu_execute
<1>5. wr \in RegIdx
  BY <1>2 DEF RegIdx
<1>6. SafeExOutcome(u)
  <2> HIDE DEF eo, res, wr
  <2>1. u \in ExOutcome /\ u.trap = NoTrap
    BY <1>1, <1>4, <1>5, ExWritesType
  <2> QED BY <2>1, NoTrapIsSafe
<1>7. SafeExOutcome(ex_traps(in, ops, RI)) /\ SafeExOutcome(ex_traps(in, ops, Ov))
  BY ExTrapsType DEF ExceptionCode
<1> HIDE DEF SafeExOutcome
<1>8. ex_alu(in, ops) \in {u, ex_traps(in, ops, RI), ex_traps(in, ops, Ov)}
  <2> HIDE DEF u
  <2> QED BY DEF ex_alu, u
<1> QED BY <1>6, <1>7, <1>8

LEMMA ExecuteType ==
  ASSUME NEW in \in IdEx, NEW em \in ExMem, NEW mw \in MemWb, NEW c \in Cp0
  PROVE  SafeExOutcome(execute(in, em, mw, c))
<1> DEFINE ops == forward_operands(in, em, mw)
<1>1. ops \in OperandsType
  BY ForwardOperandsType
<1>2. SafeExOutcome(NoExOutcome)
  BY EmptyOutcomesType, NoTrapIsSafe DEF NoExOutcome
<1> HIDE DEF ops
<1>3. SafeExOutcome(ex_instr(in, ops, c))
  <2>1. SafeExOutcome(ex_traps(in, ops, Sys)) /\ SafeExOutcome(ex_traps(in, ops, Bp))
    BY <1>1, ExTrapsType DEF ExceptionCode
  <2>2. /\ SafeExOutcome(ex_jump(in, ops)) /\ SafeExOutcome(ex_branch(in, ops))
        /\ SafeExOutcome(ex_cop0(in, ops, c)) /\ SafeExOutcome(ex_register_jump(in, ops))
        /\ SafeExOutcome(ex_alu(in, ops))
    BY <1>1, ExJumpType, ExBranchType, ExCop0Type, ExRegisterJumpType, ExAluType
  <2> HIDE DEF SafeExOutcome
  <2> QED BY <2>1, <2>2 DEF ex_instr
<1> QED BY <1>2, <1>3, ExEarlyTrapType DEF execute, ops

-----------------------------------------------------------------------------
(* ID and IF *)

LEMMA DecodeStageType ==
  ASSUME NEW in \in IfId, NEW r \in RegisterFile
  PROVE  decode_stage(in, r) \in IdOutcome
<1> DEFINE d     == decode(in.instr)
           began == [IdExBubble EXCEPT !.valid = TRUE, !.pc = in.pc, !.pc4 = in.pc4]
           nx    == [began EXCEPT !.ctrl = derive_control(d), !.decoded = d,
                                  !.rs = d.rs, !.rt = d.rt,
                                  !.rs_val = reg_read(r, d.rs), !.rt_val = reg_read(r, d.rt),
                                  !.is_halt = in.is_halt]
           jp    == IF d.format = "J" THEN Redirect(jump_target(in.pc4, d)) ELSE NoRedirect
<1>1. in.pc \in Word /\ in.pc4 \in Word /\ in.instr \in Word /\ in.is_halt \in BOOLEAN
  BY DEF IfId
<1>2. began \in IdEx /\ began.decoded = NoInstr
  BY <1>1, BubblesType DEF IdEx, IdExBubble
<1>3. [began EXCEPT !.early_trap = AdEL] \in IdEx
  BY <1>2 DEF IdEx
<1>4. [began EXCEPT !.early_trap = RI, !.decoded.raw = in.instr] \in IdEx
  <2>1. [NoInstr EXCEPT !.raw = in.instr] \in DecodedInstr
    BY <1>1, NoInstrType DEF DecodedInstr
  <2> HIDE DEF began
  <2> QED BY <1>2, <2>1 DEF IdEx
<1>5. ASSUME decodes(in.instr)
      PROVE  nx \in IdEx /\ jp \in RedirectType
  <2>1. d \in DecodedInstr
    BY <1>1, <1>5, DecodeType
  <2>2. d.rs \in RegIdx /\ d.rt \in RegIdx /\ d.target \in Targets
    BY <2>1 DEF DecodedInstr
  <2>3. derive_control(d) \in Control
    BY ControlType
  <2>4. reg_read(r, d.rs) \in Word /\ reg_read(r, d.rt) \in Word
    BY <2>2, RegReadType
  <2>5. jump_target(in.pc4, d) \in Word
    BY <1>1, <2>2, JumpTargetType
  <2>6. jp \in RedirectType
    BY <2>5, RedirectOfType, EmptyOutcomesType
  <2>7. nx \in IdEx
    <3> HIDE DEF began, d
    <3> QED BY <1>1, <1>2, <2>1, <2>2, <2>3, <2>4 DEF IdEx
  <2> QED BY <2>6, <2>7
<1>6. /\ [NoIdOutcome EXCEPT !.next = [began EXCEPT !.early_trap = AdEL]] \in IdOutcome
      /\ [NoIdOutcome EXCEPT !.next = [began EXCEPT !.early_trap = RI,
                                                    !.decoded.raw = in.instr]] \in IdOutcome
  <2> HIDE DEF began
  <2> QED BY <1>3, <1>4, EmptyOutcomesType DEF IdOutcome
<1>7. decodes(in.instr) => [next |-> nx, jump |-> jp] \in IdOutcome
  <2> HIDE DEF nx, jp
  <2> QED BY <1>5 DEF IdOutcome
<1> QED
  <2> HIDE DEF IdOutcome
  <2> QED BY <1>6, <1>7 DEF decode_stage

LEMMA FetchType ==
  ASSUME NEW m \in Memory, NEW p \in Word
  PROVE  fetch(m, p) \in IfId
<1> DEFINE pc4 == (p + 4) % WordSize
           w   == read_word(m, p)
           h   == Fields[w].opcode \in {"J", "JAL"} /\ jump_target(pc4, Fields[w]) = p
<1>1. pc4 \in Word
  BY WrapsToWord, WidthFacts DEF Word
<1>2. word_ok(p) => w \in Word
  BY ReadWordType
<1>3. h \in BOOLEAN
  OBVIOUS
<1> HIDE DEF pc4, w, h
<1>4. ~word_ok(p) => fetch(m, p) = [IfIdBubble EXCEPT !.valid = TRUE, !.pc = p, !.pc4 = pc4,
                                                     !.fetch_fault = TRUE]
  BY DEF fetch, pc4
<1>5. word_ok(p) => fetch(m, p) = [valid |-> TRUE, pc |-> p, pc4 |-> pc4, instr |-> w,
                                  is_halt |-> h, fetch_fault |-> FALSE]
  BY DEF fetch, pc4, w, h
<1>6. CASE word_ok(p)
  <2>1. [valid |-> TRUE, pc |-> p, pc4 |-> pc4, instr |-> w, is_halt |-> h,
         fetch_fault |-> FALSE] \in IfId
    BY <1>1, <1>2, <1>3, <1>6 DEF IfId
  <2> QED BY <1>5, <1>6, <2>1
<1>7. CASE ~word_ok(p)
  <2>1. [IfIdBubble EXCEPT !.valid = TRUE, !.pc = p, !.pc4 = pc4, !.fetch_fault = TRUE]
          \in IfId
    BY <1>1, BubblesType DEF IfId
  <2> QED BY <1>4, <1>7, <2>1
<1> QED BY <1>6, <1>7

-----------------------------------------------------------------------------
(* Type correctness *)

SnapshotType ==
  [stages : [1 .. 5 -> StageSnapshot], fwd : PathsType,
   load_stall : BOOLEAN, branch_flush : BOOLEAN, retired : BOOLEAN]

LEMMA SnapshotOfType ==
  ASSUME TypeOK, NEW flush \in BOOLEAN, NEW eo \in ExOutcome, NEW io \in IdOutcome,
         NEW stall \in BOOLEAN, NEW new_if \in IfId
  PROVE  next_ps(flush, eo, io, stall, new_if) \in SnapshotType
<1> DEFINE s1 == Stage(new_if.valid /\ ~new_if.fetch_fault, stall,
                       flush \/ io.jump.taken, new_if.pc)
           s2 == Stage(if_id.valid /\ ~if_id.fetch_fault, stall, flush, if_id.pc)
           s3 == Stage(id_ex.valid /\ id_ex.early_trap # AdEL, FALSE, FALSE, id_ex.pc)
           s4 == Stage(ex_mem.valid, FALSE, FALSE, ex_mem.pc)
           s5 == Stage(mem_wb.valid, FALSE, FALSE, mem_wb.pc)
<1>1. if_id \in IfId /\ id_ex \in IdEx /\ ex_mem \in ExMem /\ mem_wb \in MemWb
  BY DEF TypeOK
<1>2. s1 \in StageSnapshot
  BY DEF Stage, StageSnapshot, IfId
<1>3. s2 \in StageSnapshot
  BY <1>1 DEF Stage, StageSnapshot, IfId
<1>4. s3 \in StageSnapshot
  BY <1>1 DEF Stage, StageSnapshot, IdEx
<1>5. s4 \in StageSnapshot
  BY <1>1 DEF Stage, StageSnapshot, ExMem
<1>6. s5 \in StageSnapshot
  BY <1>1 DEF Stage, StageSnapshot, MemWb
<1>7. eo.forwarded \in PathsType /\ mem_wb.valid \in BOOLEAN
  BY <1>1 DEF ExOutcome, MemWb
<1>8. next_ps(flush, eo, io, stall, new_if) =
        [stages |-> <<s1, s2, s3, s4, s5>>, fwd |-> eo.forwarded, load_stall |-> stall,
         branch_flush |-> flush, retired |-> mem_wb.valid]
  BY DEF next_ps
<1> HIDE DEF s1, s2, s3, s4, s5
<1>9. <<s1, s2, s3, s4, s5>> \in [1 .. 5 -> StageSnapshot]
  BY <1>2, <1>3, <1>4, <1>5, <1>6
<1> QED BY <1>7, <1>8, <1>9 DEF SnapshotType

(* What the stages of a cycle return, whatever the pipeline holds. *)
LEMMA CycleType ==
  ASSUME TypeOK
  PROVE  LET mo    == memory_access(mem, ex_mem)
             eo    == ex_outcome(mo)
             flush == ex_flushes(mo, eo)
             stall == load_use_hazard(id_ex, if_id)
             io    == id_outcome(flush, stall)
         IN  /\ mo \in MemOutcome
             /\ SafeExOutcome(eo)
             /\ mo.trap.raised => eo = NoExOutcome
             /\ cycle_trap(mo, eo) \in TrapType
             /\ flush \in BOOLEAN /\ stall \in BOOLEAN
             /\ io \in IdOutcome
             /\ next_if_id(flush, io, stall, mo.mem) \in IfId
<1> DEFINE mo    == memory_access(mem, ex_mem)
           eo    == ex_outcome(mo)
           flush == ex_flushes(mo, eo)
           stall == load_use_hazard(id_ex, if_id)
           io    == id_outcome(flush, stall)
<1>1. /\ pc \in Word /\ regs \in RegisterFile /\ mem \in Memory /\ cp0 \in Cp0
      /\ if_id \in IfId /\ id_ex \in IdEx /\ ex_mem \in ExMem /\ mem_wb \in MemWb
  BY DEF TypeOK
<1>2. mo \in MemOutcome
  BY <1>1, MemoryAccessType
<1> HIDE DEF mo
<1>3. SafeExOutcome(eo) /\ (mo.trap.raised => eo = NoExOutcome)
  <2>1. SafeExOutcome(NoExOutcome)
    BY EmptyOutcomesType, NoTrapIsSafe DEF NoExOutcome
  <2>2. SafeExOutcome(execute(id_ex, ex_mem, mem_wb, cp0))
    BY <1>1, ExecuteType
  <2> HIDE DEF SafeExOutcome
  <2> QED BY <2>1, <2>2 DEF ex_outcome
<1> HIDE DEF eo
<1>4. eo \in ExOutcome
  BY <1>3 DEF SafeExOutcome
<1>5. cycle_trap(mo, eo) \in TrapType
  BY <1>2, <1>4 DEF cycle_trap, MemOutcome, ExOutcome
<1>6. flush \in BOOLEAN /\ stall \in BOOLEAN
  BY DEF ex_flushes, load_use_hazard
<1> HIDE DEF flush, stall
<1>7. io \in IdOutcome
  <2>1. write_back(regs, mem_wb) \in RegisterFile
    BY <1>1, WriteBackType
  <2>2. decode_stage(if_id, write_back(regs, mem_wb)) \in IdOutcome
    BY <1>1, <2>1, DecodeStageType
  <2> QED BY <2>2, EmptyOutcomesType DEF id_outcome
<1> HIDE DEF io
<1>8. next_if_id(flush, io, stall, mo.mem) \in IfId
  <2>1. mo.mem \in Memory
    BY <1>2 DEF MemOutcome
  <2> QED BY <1>1, <2>1, FetchType, BubblesType DEF next_if_id
<1> QED BY <1>2, <1>3, <1>5, <1>6, <1>7, <1>8 DEF mo, eo, flush, stall, io

LEMMA StepType ==
  ASSUME TypeOK, Step
  PROVE  TypeOK'
<1> DEFINE mo     == memory_access(mem, ex_mem)
           eo     == ex_outcome(mo)
           trap   == cycle_trap(mo, eo)
           flush  == ex_flushes(mo, eo)
           stall  == load_use_hazard(id_ex, if_id)
           io     == id_outcome(flush, stall)
           new_if == next_if_id(flush, io, stall, mo.mem)
<1>1. /\ op' = "step"
      /\ regs' = write_back(regs, mem_wb)
      /\ ctrl' = IF mem_wb.valid THEN mem_wb.ctrl ELSE ctrl
      /\ mem' = mo.mem
      /\ cp0' = next_cp0(trap, eo)
      /\ mem_wb' = mo.next
      /\ ex_mem' = eo.next
      /\ id_ex' = next_id_ex(flush, io, stall)
      /\ if_id' = new_if
      /\ pc' = next_pc(trap, eo, io, stall)
      /\ ps' = next_ps(flush, eo, io, stall, new_if)
      /\ result' = step_result(trap)
  BY DEF Step
<1>2. /\ mo \in MemOutcome /\ SafeExOutcome(eo) /\ trap \in TrapType
      /\ flush \in BOOLEAN /\ stall \in BOOLEAN /\ io \in IdOutcome /\ new_if \in IfId
  BY CycleType
<1>3. /\ pc \in Word /\ regs \in RegisterFile /\ mem \in Memory /\ cp0 \in Cp0
      /\ ctrl \in Control /\ if_id \in IfId /\ id_ex \in IdEx /\ mem_wb \in MemWb
  BY DEF TypeOK
<1> HIDE DEF mo, eo, trap, flush, stall, io, new_if
<1>4. eo \in ExOutcome
  BY <1>2 DEF SafeExOutcome
<1>5. pc' \in Word
  <2>1. kExceptionVector \in Word /\ (pc + 4) % WordSize \in Word
    BY <1>3, SizeAssumption, WrapsToWord, WidthFacts DEF Word
  <2>2. eo.redirect.pc \in Word /\ io.jump.pc \in Word
    BY <1>2, <1>4 DEF ExOutcome, IdOutcome, RedirectType
  <2> QED BY <1>1, <1>3, <2>1, <2>2 DEF next_pc
<1>6. regs' \in RegisterFile
  BY <1>1, <1>3, WriteBackType
<1>7. mem' \in Memory /\ mem_wb' \in MemWb
  BY <1>1, <1>2 DEF MemOutcome
<1>8. cp0' \in Cp0
  <2>1. cp0_raise(cp0, trap.code, trap.pc, trap.bad_addr) \in Cp0
    BY <1>2, <1>3, Cp0RaiseType DEF TrapType
  <2>2. cp0_write(cp0, eo.mtc0.reg, eo.mtc0.value) \in Cp0
    BY <1>3, <1>4, Cp0WriteType DEF ExOutcome, Mtc0Type
  <2>3. cp0_eret(cp0) \in Cp0
    BY <1>3, Cp0EretType
  <2> QED BY <1>1, <1>3, <2>1, <2>2, <2>3 DEF next_cp0
<1>9. ctrl' \in Control
  BY <1>1, <1>3 DEF MemWb
<1>10. if_id' \in IfId /\ ex_mem' \in ExMem
  BY <1>1, <1>2, <1>4 DEF ExOutcome
<1>11. id_ex' \in IdEx
  BY <1>1, <1>2, BubblesType DEF next_id_ex, IdOutcome
<1>12. ps' \in SnapshotType
  BY <1>1, <1>2, <1>4, SnapshotOfType
<1>13. result' \in {"Ok", "Exception", "Halt"}
  BY <1>1 DEF step_result
<1>14. op' \in Arch!Operation
  BY <1>1 DEF Arch!Operation
<1> QED
  BY <1>5, <1>6, <1>7, <1>8, <1>9, <1>10, <1>11, <1>12, <1>13, <1>14
  DEF TypeOK, SnapshotType, PathsType

LEMMA NoPsType == NoPs \in SnapshotType
<1>1. Stage(FALSE, FALSE, FALSE, 0) \in StageSnapshot
  BY ZeroIsWord DEF Stage, StageSnapshot
<1>2. [i \in 1 .. 5 |-> Stage(FALSE, FALSE, FALSE, 0)] \in [1 .. 5 -> StageSnapshot]
  BY <1>1
<1> QED BY <1>2, EmptyOutcomesType DEF NoPs, SnapshotType

LEMMA InitType ==
  ASSUME Init
  PROVE  TypeOK
<1>1. mem \in Memory /\ pc \in Word
  <2>1. PICK words \in Programs, addr \in LoadAddrs :
          mem = load_words(ZeroMemory, addr, words) /\ pc = addr
    BY DEF Init
  <2>2. words \in Seq(Word) /\ addr \in Word
    BY CallersAssumption
  <2> QED BY <2>1, <2>2, LoadWordsType, ZeroMemoryType
<1>2. regs \in RegisterFile
  BY ZeroIsWord DEF Init, ZeroRegs, RegisterFile
<1>3. ps \in SnapshotType
  BY NoPsType DEF Init
<1> QED
  BY <1>1, <1>2, <1>3, PowerOnCp0Type, ControlBubbleType, BubblesType
  DEF Init, TypeOK, SnapshotType, PathsType, Arch!Operation

LEMMA NextType ==
  ASSUME TypeOK, [Next]_vars
  PROVE  TypeOK'
<1>1. CASE Step
  BY <1>1, StepType
<1>2. CASE LoadProgram
  <2>1. PICK words \in Programs, addr \in LoadAddrs :
          IF in_bounds(addr, 4 * Len(words))
          THEN mem' = load_words(mem, addr, words) /\ pc' = addr
          ELSE UNCHANGED <<mem, pc>>
    BY <1>2 DEF LoadProgram
  <2>2. mem' \in Memory /\ pc' \in Word
    <3>1. words \in Seq(Word) /\ addr \in Word
      BY CallersAssumption
    <3> QED BY <2>1, <3>1, LoadWordsType DEF TypeOK
  <2> QED BY <1>2, <2>2 DEF LoadProgram, TypeOK, Arch!Operation
<1>3. ASSUME NEW clear_memory \in ResetModes, Reset(clear_memory)
      PROVE  TypeOK'
  <2>1. mem' \in Memory
    BY <1>3, ZeroMemoryType DEF Reset, TypeOK
  <2>2. regs' \in RegisterFile /\ pc' \in Word
    BY <1>3, ZeroIsWord DEF Reset, ZeroRegs, RegisterFile
  <2>3. cp0' \in Cp0
    BY <1>3, Cp0ResetType DEF Reset, TypeOK
  <2>4. ps' \in SnapshotType
    BY <1>3, NoPsType DEF Reset
  <2> QED
    BY <1>3, <2>1, <2>2, <2>3, <2>4, ControlBubbleType, BubblesType
    DEF Reset, TypeOK, SnapshotType, PathsType, Arch!Operation
<1>4. CASE SetPcToEpc
  <2>1. pc' \in Word
    BY <1>4 DEF SetPcToEpc, TypeOK, Cp0
  <2> QED BY <1>4, <2>1 DEF SetPcToEpc, TypeOK, Arch!Operation
<1>5. CASE UNCHANGED vars
  BY <1>5 DEF vars, TypeOK
<1> QED BY <1>1, <1>2, <1>3, <1>4, <1>5 DEF Next

(* The pipeline is type correct: every latch, register, CP0 field, memory  *)
(* byte and snapshot of PipelinedCpu keeps its width, whatever program is  *)
(* loaded and however traps, stalls and flushes coincide.                  *)
THEOREM TypeCorrect == Spec => []TypeOK
<1>1. Init => TypeOK
  BY InitType
<1>2. TypeOK /\ [Next]_vars => TypeOK'
  BY NextType
<1> QED BY <1>1, <1>2, PTL DEF Spec

-----------------------------------------------------------------------------
(* Precise traps *)

(* TrapIsPrecise needs no history: the cycle that reports the trap leaves  *)
(* the pipeline empty up to MEM/WB by itself.                              *)
LEMMA StepIsPrecise ==
  ASSUME TypeOK, Step
  PROVE  TrapIsPrecise'
<1> DEFINE mo     == memory_access(mem, ex_mem)
           eo     == ex_outcome(mo)
           trap   == cycle_trap(mo, eo)
           flush  == ex_flushes(mo, eo)
           stall  == load_use_hazard(id_ex, if_id)
           io     == id_outcome(flush, stall)
<1>1. /\ ex_mem' = eo.next
      /\ id_ex' = next_id_ex(flush, io, stall)
      /\ if_id' = next_if_id(flush, io, stall, mo.mem)
      /\ pc' = next_pc(trap, eo, io, stall)
      /\ result' = step_result(trap)
  BY DEF Step
<1>2. mo \in MemOutcome /\ SafeExOutcome(eo) /\ (mo.trap.raised => eo = NoExOutcome)
  BY CycleType
<1> HIDE DEF mo, eo, stall, io
<1>3. SUFFICES ASSUME trap.raised
      PROVE  pc' = kExceptionVector /\ ~if_id'.valid /\ ~id_ex'.valid /\ ~ex_mem'.valid
  BY <1>1 DEF TrapIsPrecise, step_result
<1>4. mo.trap.raised \/ eo.trap.raised
  BY <1>3 DEF cycle_trap
<1>5. flush
  BY <1>4 DEF ex_flushes
<1>6. pc' = kExceptionVector
  BY <1>1, <1>3 DEF next_pc
<1>7. ~if_id'.valid /\ ~id_ex'.valid
  BY <1>1, <1>5 DEF next_if_id, next_id_ex, IfIdBubble, IdExBubble
<1>8. ~ex_mem'.valid
  BY <1>1, <1>2, <1>4 DEF SafeExOutcome, NoExOutcome, ExMemBubble
<1> QED BY <1>6, <1>7, <1>8

(* Traps are precise: when step() returns Exception the PC is at the       *)
(* vector and nothing younger than the faulting instruction is left in     *)
(* IF/ID, ID/EX or EX/MEM, so an older load or store that faults in MEM in *)
(* the same cycle as a younger fault in EX wins and the younger one leaves *)
(* no trace.                                                               *)
THEOREM TrapsArePrecise == Spec => []TrapIsPrecise
<1>1. Init => TrapIsPrecise
  BY DEF Init, TrapIsPrecise
<1>2. TypeOK /\ TrapIsPrecise /\ [Next]_vars => TrapIsPrecise'
  <2> SUFFICES ASSUME TypeOK, TrapIsPrecise, [Next]_vars
               PROVE  TrapIsPrecise'
    OBVIOUS
  <2>1. CASE Step
    BY <2>1, StepIsPrecise
  <2>2. CASE LoadProgram
    BY <2>2 DEF LoadProgram, TrapIsPrecise
  <2>3. ASSUME NEW clear_memory \in ResetModes, Reset(clear_memory)
        PROVE  TrapIsPrecise'
    BY <2>3 DEF Reset, TrapIsPrecise
  <2>4. CASE SetPcToEpc
    BY <2>4 DEF SetPcToEpc, TrapIsPrecise
  <2>5. CASE UNCHANGED vars
    BY <2>5 DEF vars, TrapIsPrecise
  <2> QED BY <2>1, <2>2, <2>3, <2>4, <2>5 DEF Next
<1> QED BY <1>1, <1>2, TypeCorrect, PTL DEF Spec

-----------------------------------------------------------------------------
(* What EX hands on *)

(* The outcome eo sends the instruction in on to MEM, with rt_val b, value *)
(* v, destination wr and the signal rw for writing it.                     *)
Sends(eo, in, b, rw, v, wr) ==
  /\ eo \in ExOutcome /\ eo.trap = NoTrap
  /\ eo.next.valid = TRUE /\ eo.next.pc = in.pc /\ eo.next.raw = in.decoded.raw
  /\ eo.next.opcode = in.decoded.opcode /\ eo.next.is_halt = in.is_halt
  /\ eo.next.rt_val = b /\ eo.next.value = v /\ eo.next.write_reg = wr
  /\ eo.next.ctrl.reg_write = rw
  /\ eo.next.ctrl.mem_read = in.ctrl.mem_read
  /\ eo.next.ctrl.mem_write = in.ctrl.mem_write
  /\ eo.next.ctrl.mem_to_reg = in.ctrl.mem_to_reg

(* Beside that, what eo does to the PC and to CP0. *)
Effects(eo, redirect, mtc0, eret) ==
  eo.redirect = redirect /\ eo.mtc0 = mtc0 /\ eo.eret = eret

LEMMA ExContinuesSends ==
  ASSUME NEW in \in IdEx, NEW ops \in OperandsType
  PROVE  /\ Sends(ex_continues(in, ops), in, ops.b, in.ctrl.reg_write, 0, 0)
         /\ Effects(ex_continues(in, ops), NoRedirect, NoMtc0, FALSE)
<1> DEFINE nx == [valid |-> TRUE, pc |-> in.pc, raw |-> in.decoded.raw, ctrl |-> in.ctrl,
                  opcode |-> in.decoded.opcode, value |-> 0, rt_val |-> ops.b,
                  write_reg |-> 0, is_halt |-> in.is_halt]
           eo == ex_continues(in, ops)
<1>1. eo \in ExOutcome /\ eo.trap = NoTrap
  BY ExContinuesType
<1>2. eo = [NoExOutcome EXCEPT !.forwarded = ops.paths, !.next = nx]
  BY DEF ex_continues
<1>3. /\ nx.valid = TRUE /\ nx.pc = in.pc /\ nx.raw = in.decoded.raw /\ nx.ctrl = in.ctrl
      /\ nx.opcode = in.decoded.opcode /\ nx.value = 0 /\ nx.rt_val = ops.b
      /\ nx.write_reg = 0 /\ nx.is_halt = in.is_halt
  OBVIOUS
<1> HIDE DEF nx
<1>4. /\ eo.next = nx /\ eo.redirect = NoRedirect /\ eo.mtc0 = NoMtc0 /\ eo.eret = FALSE
  BY <1>2 DEF NoExOutcome
<1> HIDE DEF eo
<1> QED BY <1>1, <1>3, <1>4 DEF Sends, Effects, eo

(* EX fills in the value and the destination. *)
LEMMA WritesSends ==
  ASSUME NEW eo, NEW in, NEW b, NEW rw, NEW v0, NEW w0, Sends(eo, in, b, rw, v0, w0),
         NEW v \in Word, NEW wr \in RegIdx
  PROVE  LET u == [eo EXCEPT !.next.value = v, !.next.write_reg = wr]
         IN  Sends(u, in, b, rw, v, wr) /\ Effects(u, eo.redirect, eo.mtc0, eo.eret)
<1> DEFINE nx == [eo.next EXCEPT !.value = v, !.write_reg = wr]
           u  == [eo EXCEPT !.next.value = v, !.next.write_reg = wr]
<1>1. eo \in ExOutcome /\ eo.next \in ExMem
  BY DEF Sends, ExOutcome
<1>2. /\ nx \in ExMem /\ nx.value = v /\ nx.write_reg = wr
      /\ nx.valid = eo.next.valid /\ nx.pc = eo.next.pc /\ nx.raw = eo.next.raw
      /\ nx.ctrl = eo.next.ctrl /\ nx.opcode = eo.next.opcode
      /\ nx.rt_val = eo.next.rt_val /\ nx.is_halt = eo.next.is_halt
  BY <1>1 DEF ExMem
<1>3. u \in ExOutcome /\ u.trap = eo.trap
  BY <1>1, ExWritesType
<1>4. u.next = nx /\ u.redirect = eo.redirect /\ u.mtc0 = eo.mtc0 /\ u.eret = eo.eret
  BY <1>1 DEF ExOutcome
<1> HIDE DEF u, nx
<1> QED BY <1>2, <1>3, <1>4 DEF Sends, Effects, u

(* MFC0 also raises RegWrite. *)
LEMMA Cp0ReadSends ==
  ASSUME NEW eo, NEW in, NEW b, NEW rw, NEW v0, NEW w0, Sends(eo, in, b, rw, v0, w0),
         NEW v \in Word, NEW wr \in RegIdx
  PROVE  LET u == [eo EXCEPT !.next.ctrl.reg_write = TRUE, !.next.value = v,
                             !.next.write_reg = wr]
         IN  Sends(u, in, b, TRUE, v, wr) /\ Effects(u, eo.redirect, eo.mtc0, eo.eret)
<1> DEFINE ct == [eo.next.ctrl EXCEPT !.reg_write = TRUE]
           nx == [eo.next EXCEPT !.ctrl = ct, !.value = v, !.write_reg = wr]
           u  == [eo EXCEPT !.next.ctrl.reg_write = TRUE, !.next.value = v,
                            !.next.write_reg = wr]
<1>1. eo \in ExOutcome /\ eo.next \in ExMem /\ eo.next.ctrl \in Control
  BY DEF Sends, ExOutcome, ExMem
<1>2. /\ ct \in Control /\ ct.reg_write = TRUE /\ ct.mem_read = eo.next.ctrl.mem_read
      /\ ct.mem_write = eo.next.ctrl.mem_write /\ ct.mem_to_reg = eo.next.ctrl.mem_to_reg
  BY <1>1 DEF Control
<1>3. u.next = nx /\ u.redirect = eo.redirect /\ u.mtc0 = eo.mtc0 /\ u.eret = eo.eret
  BY <1>1 DEF ExOutcome, ExMem
<1>4. u \in ExOutcome /\ u.trap = eo.trap
  BY <1>1, ExReadsCp0Type
<1> HIDE DEF u, ct
<1>5. /\ nx \in ExMem /\ nx.value = v /\ nx.write_reg = wr /\ nx.ctrl = ct
      /\ nx.valid = eo.next.valid /\ nx.pc = eo.next.pc /\ nx.raw = eo.next.raw
      /\ nx.opcode = eo.next.opcode
      /\ nx.rt_val = eo.next.rt_val /\ nx.is_halt = eo.next.is_halt
  BY <1>1, <1>2 DEF ExMem
<1> HIDE DEF nx
<1> QED BY <1>2, <1>3, <1>4, <1>5 DEF Sends, Effects, u

(* EX redirects the PC, writes CP0 or leaves an exception handler. *)
LEMMA RedirectSends ==
  ASSUME NEW eo, NEW in, NEW b, NEW rw, NEW v, NEW wr, Sends(eo, in, b, rw, v, wr),
         NEW rd \in RedirectType
  PROVE  LET u == [eo EXCEPT !.redirect = rd]
         IN  Sends(u, in, b, rw, v, wr) /\ Effects(u, rd, eo.mtc0, eo.eret)
<1> DEFINE u == [eo EXCEPT !.redirect = rd]
<1>1. eo \in ExOutcome
  BY DEF Sends
<1>2. u \in ExOutcome /\ u.next = eo.next /\ u.trap = eo.trap /\ u.redirect = rd
      /\ u.mtc0 = eo.mtc0 /\ u.eret = eo.eret
  BY <1>1 DEF ExOutcome
<1> HIDE DEF u
<1> QED BY <1>2 DEF Sends, Effects, u

LEMMA Mtc0Sends ==
  ASSUME NEW eo, NEW in, NEW b, NEW rw, NEW v, NEW wr, Sends(eo, in, b, rw, v, wr),
         NEW mt \in Mtc0Type
  PROVE  LET u == [eo EXCEPT !.mtc0 = mt]
         IN  Sends(u, in, b, rw, v, wr) /\ Effects(u, eo.redirect, mt, eo.eret)
<1> DEFINE u == [eo EXCEPT !.mtc0 = mt]
<1>1. eo \in ExOutcome
  BY DEF Sends
<1>2. u \in ExOutcome /\ u.next = eo.next /\ u.trap = eo.trap /\ u.redirect = eo.redirect
      /\ u.mtc0 = mt /\ u.eret = eo.eret
  BY <1>1 DEF ExOutcome
<1> HIDE DEF u
<1> QED BY <1>2 DEF Sends, Effects, u

LEMMA EretSends ==
  ASSUME NEW eo, NEW in, NEW b, NEW rw, NEW v, NEW wr, Sends(eo, in, b, rw, v, wr),
         NEW rd \in RedirectType
  PROVE  LET u == [eo EXCEPT !.eret = TRUE, !.redirect = rd]
         IN  Sends(u, in, b, rw, v, wr) /\ Effects(u, rd, eo.mtc0, TRUE)
<1> DEFINE u == [eo EXCEPT !.eret = TRUE, !.redirect = rd]
<1>1. eo \in ExOutcome
  BY DEF Sends
<1>2. u \in ExOutcome /\ u.next = eo.next /\ u.trap = eo.trap /\ u.redirect = rd
      /\ u.mtc0 = eo.mtc0 /\ u.eret = TRUE
  BY <1>1 DEF ExOutcome
<1> HIDE DEF u
<1> QED BY <1>2 DEF Sends, Effects, u

LEMMA ExJumpSends ==
  ASSUME NEW in \in IdEx, NEW ops \in OperandsType
  PROVE  /\ Sends(ex_jump(in, ops), in, ops.b, in.ctrl.reg_write,
                  IF in.decoded.opcode = "JAL" THEN in.pc4 ELSE 0,
                  IF in.decoded.opcode = "JAL" THEN kRa ELSE 0)
         /\ Effects(ex_jump(in, ops), NoRedirect, NoMtc0, FALSE)
<1> DEFINE eo == ex_continues(in, ops)
           u  == [eo EXCEPT !.next.value = in.pc4, !.next.write_reg = kRa]
<1>1. Sends(eo, in, ops.b, in.ctrl.reg_write, 0, 0) /\ Effects(eo, NoRedirect, NoMtc0, FALSE)
  BY ExContinuesSends
<1>2. in.pc4 \in Word /\ kRa \in RegIdx
  BY DEF IdEx, kRa, RegIdx
<1>3. ex_jump(in, ops) = IF in.decoded.opcode = "JAL" THEN u ELSE eo
  BY DEF ex_jump
<1> HIDE DEF eo
<1>4. Sends(u, in, ops.b, in.ctrl.reg_write, in.pc4, kRa)
      /\ Effects(u, eo.redirect, eo.mtc0, eo.eret)
  BY <1>1, <1>2, WritesSends
<1> HIDE DEF u
<1>5. eo.redirect = NoRedirect /\ eo.mtc0 = NoMtc0 /\ eo.eret = FALSE
  BY <1>1 DEF Effects
<1> QED BY <1>1, <1>3, <1>4, <1>5

LEMMA ExBranchSends ==
  ASSUME NEW in \in IdEx, NEW ops \in OperandsType
  PROVE  LET taken == (in.decoded.opcode = "BEQ") <=>
                        (alu_execute("SUBU", ops.a, ops.b, 0).value = 0)
         IN  /\ Sends(ex_branch(in, ops), in, ops.b, in.ctrl.reg_write, 0, 0)
             /\ Effects(ex_branch(in, ops),
                        IF taken THEN Redirect(branch_target(in.pc4, in.decoded))
                        ELSE NoRedirect, NoMtc0, FALSE)
<1> DEFINE eo    == ex_continues(in, ops)
           rd    == Redirect(branch_target(in.pc4, in.decoded))
           u     == [eo EXCEPT !.redirect = rd]
           taken == (in.decoded.opcode = "BEQ") <=>
                      (alu_execute("SUBU", ops.a, ops.b, 0).value = 0)
<1>1. Sends(eo, in, ops.b, in.ctrl.reg_write, 0, 0) /\ Effects(eo, NoRedirect, NoMtc0, FALSE)
  BY ExContinuesSends
<1>2. rd \in RedirectType
  BY BranchTargetType, RedirectOfType DEF IdEx
<1>3. ex_branch(in, ops) = IF taken THEN u ELSE eo
  BY DEF ex_branch
<1> HIDE DEF eo, rd
<1>4. Sends(u, in, ops.b, in.ctrl.reg_write, 0, 0) /\ Effects(u, rd, eo.mtc0, eo.eret)
  BY <1>1, <1>2, RedirectSends
<1> HIDE DEF u, taken
<1>5. eo.redirect = NoRedirect /\ eo.mtc0 = NoMtc0 /\ eo.eret = FALSE
  BY <1>1 DEF Effects
<1> QED BY <1>1, <1>3, <1>4, <1>5 DEF rd, taken

LEMMA ExRegisterJumpSends ==
  ASSUME NEW in \in IdEx, NEW ops \in OperandsType
  PROVE  LET link == in.decoded.funct = "JALR"
         IN  /\ Sends(ex_register_jump(in, ops), in, ops.b, in.ctrl.reg_write,
                      IF link THEN in.pc4 ELSE 0, IF link THEN in.decoded.rd ELSE 0)
             /\ Effects(ex_register_jump(in, ops), Redirect(ops.a), NoMtc0, FALSE)
<1> DEFINE eo == ex_continues(in, ops)
           rd == Redirect(ops.a)
           u  == [eo EXCEPT !.redirect = rd]
           x  == [u EXCEPT !.next.value = in.pc4, !.next.write_reg = in.decoded.rd]
<1>1. Sends(eo, in, ops.b, in.ctrl.reg_write, 0, 0) /\ Effects(eo, NoRedirect, NoMtc0, FALSE)
  BY ExContinuesSends
<1>2. rd \in RedirectType /\ in.pc4 \in Word /\ in.decoded.rd \in RegIdx
  BY RedirectOfType DEF OperandsType, IdEx, DecodedInstr
<1>3. ex_register_jump(in, ops) = IF in.decoded.funct = "JALR" THEN x ELSE u
  BY DEF ex_register_jump
<1> HIDE DEF eo, rd
<1>4. Sends(u, in, ops.b, in.ctrl.reg_write, 0, 0) /\ Effects(u, rd, eo.mtc0, eo.eret)
  BY <1>1, <1>2, RedirectSends
<1> HIDE DEF u
<1>5. Sends(x, in, ops.b, in.ctrl.reg_write, in.pc4, in.decoded.rd)
      /\ Effects(x, u.redirect, u.mtc0, u.eret)
  BY <1>2, <1>4, WritesSends
<1> HIDE DEF x
<1>6. eo.mtc0 = NoMtc0 /\ eo.eret = FALSE /\ u.redirect = rd /\ u.mtc0 = eo.mtc0
      /\ u.eret = eo.eret
  BY <1>1, <1>4 DEF Effects
<1> QED BY <1>3, <1>4, <1>5, <1>6 DEF rd

LEMMA ExCop0Sends ==
  ASSUME NEW in \in IdEx, NEW ops \in OperandsType, NEW c \in Cp0
  PROVE  LET d    == in.decoded
             u    == ex_cop0(in, ops, c)
             eret == d.rs = 16 /\ d.funct = "ERET"
         IN  /\ d.rs = 0 => /\ Sends(u, in, ops.b, TRUE, cp0_read(c, d.rd), d.rt)
                            /\ Effects(u, NoRedirect, NoMtc0, FALSE)
             /\ d.rs = 4 => /\ Sends(u, in, ops.b, in.ctrl.reg_write, 0, 0)
                            /\ Effects(u, NoRedirect,
                                       [taken |-> TRUE, reg |-> d.rd, value |-> ops.b], FALSE)
             /\ eret => /\ Sends(u, in, ops.b, in.ctrl.reg_write, 0, 0)
                        /\ Effects(u, Redirect(c.epc), NoMtc0, TRUE)
             /\ d.rs \notin {0, 4} /\ ~eret =>
                  /\ Sends(u, in, ops.b, in.ctrl.reg_write, 0, 0)
                  /\ Effects(u, NoRedirect, NoMtc0, FALSE)
<1> DEFINE eo == ex_continues(in, ops)
           d  == in.decoded
           v  == cp0_read(c, d.rd)
           mt == [taken |-> TRUE, reg |-> d.rd, value |-> ops.b]
           rd == Redirect(c.epc)
           u0 == [eo EXCEPT !.next.ctrl.reg_write = TRUE, !.next.value = v,
                            !.next.write_reg = d.rt]
           u4 == [eo EXCEPT !.mtc0 = mt]
           ue == [eo EXCEPT !.eret = TRUE, !.redirect = rd]
<1>1. Sends(eo, in, ops.b, in.ctrl.reg_write, 0, 0) /\ Effects(eo, NoRedirect, NoMtc0, FALSE)
  BY ExContinuesSends
<1>2. d.rd \in RegIdx /\ d.rt \in RegIdx /\ ops.b \in Word
  BY DEF IdEx, DecodedInstr, OperandsType
<1>3. v \in Word /\ mt \in Mtc0Type /\ rd \in RedirectType
  <2>1. v \in Word
    BY Cp0ReadType
  <2>2. mt \in Mtc0Type
    BY <1>2 DEF Mtc0Type
  <2>3. rd \in RedirectType
    BY RedirectOfType DEF Cp0
  <2> QED BY <2>1, <2>2, <2>3
<1>4. /\ d.rs = 0 => ex_cop0(in, ops, c) = u0
      /\ d.rs = 4 => ex_cop0(in, ops, c) = u4
      /\ d.rs = 16 /\ d.funct = "ERET" => ex_cop0(in, ops, c) = ue
      /\ d.rs \notin {0, 4} /\ ~(d.rs = 16 /\ d.funct = "ERET") => ex_cop0(in, ops, c) = eo
  <2> HIDE DEF eo, v, mt, rd
  <2> QED BY DEF ex_cop0, eo, v, mt, rd
<1> HIDE DEF eo, v, mt, rd
<1>5. Sends(u0, in, ops.b, TRUE, v, d.rt) /\ Effects(u0, eo.redirect, eo.mtc0, eo.eret)
  BY <1>1, <1>2, <1>3, Cp0ReadSends
<1>6. Sends(u4, in, ops.b, in.ctrl.reg_write, 0, 0) /\ Effects(u4, eo.redirect, mt, eo.eret)
  BY <1>1, <1>3, Mtc0Sends
<1>7. Sends(ue, in, ops.b, in.ctrl.reg_write, 0, 0) /\ Effects(ue, rd, eo.mtc0, TRUE)
  BY <1>1, <1>3, EretSends
<1>8. eo.redirect = NoRedirect /\ eo.mtc0 = NoMtc0 /\ eo.eret = FALSE
  BY <1>1 DEF Effects
<1> HIDE DEF u0, u4, ue
<1> QED BY <1>1, <1>4, <1>5, <1>6, <1>7, <1>8 DEF v, mt, rd

(* What the ALU computes in EX. *)
ExResult(in, ops) ==
  LET d     == in.decoded
      alu_b == IF in.ctrl.alu_src /\ d.format = "I" THEN extended_imm(d, in.ctrl) ELSE ops.b
  IN  alu_execute(alu_control(d), ops.a, alu_b, shift_amount(d, ops.a))
ExOverflows(in, ops) ==
  /\ ExResult(in, ops).overflow
  /\ in.decoded.funct \in {"ADD", "SUB"} \/ in.decoded.opcode = "ADDI"
ExDest(in) ==
  IF in.ctrl.reg_dst /\ in.decoded.format = "R" THEN in.decoded.rd
  ELSE IF in.decoded.format = "I" THEN in.decoded.rt ELSE 0

LEMMA ExAluSends ==
  ASSUME NEW in \in IdEx, NEW ops \in OperandsType, alu_control(in.decoded) # "none"
  PROVE  /\ ExOverflows(in, ops) => ex_alu(in, ops) = ex_traps(in, ops, Ov)
         /\ ~ExOverflows(in, ops) =>
              /\ Sends(ex_alu(in, ops), in, ops.b, in.ctrl.reg_write,
                       ExResult(in, ops).value, ExDest(in))
              /\ Effects(ex_alu(in, ops), NoRedirect, NoMtc0, FALSE)
<1> DEFINE eo == ex_continues(in, ops)
           d  == in.decoded
           v  == ExResult(in, ops).value
           wr == ExDest(in)
           u  == [eo EXCEPT !.next.value = v, !.next.write_reg = wr]
<1>1. Sends(eo, in, ops.b, in.ctrl.reg_write, 0, 0) /\ Effects(eo, NoRedirect, NoMtc0, FALSE)
  BY ExContinuesSends
<1>2. d \in DecodedInstr /\ d.rd \in RegIdx /\ d.rt \in RegIdx
  BY DEF IdEx, DecodedInstr
<1>3. ops.a \in Word /\ ops.b \in Word
  BY DEF OperandsType
<1>4. v \in Word
  <2> DEFINE alu_b == IF in.ctrl.alu_src /\ d.format = "I" THEN extended_imm(d, in.ctrl)
                      ELSE ops.b
  <2>1. alu_b \in Word
    BY <1>2, <1>3, ExtendedImmType
  <2>2. shift_amount(d, ops.a) \in Nat
    BY <1>2, <1>3, ShiftAmountType
  <2>3. v = alu_execute(alu_control(d), ops.a, alu_b, shift_amount(d, ops.a)).value
    BY DEF ExResult
  <2> HIDE DEF alu_b
  <2> QED BY <1>3, <2>1, <2>2, <2>3, AluExecuteType
<1>5. wr \in RegIdx
  BY <1>2 DEF RegIdx, ExDest
<1>6. /\ ExOverflows(in, ops) => ex_alu(in, ops) = ex_traps(in, ops, Ov)
      /\ ~ExOverflows(in, ops) => ex_alu(in, ops) = u
  BY DEF ex_alu, ExOverflows, ExResult, ExDest
<1> HIDE DEF eo, v, wr
<1>7. Sends(u, in, ops.b, in.ctrl.reg_write, v, wr) /\ Effects(u, eo.redirect, eo.mtc0, eo.eret)
  BY <1>1, <1>4, <1>5, WritesSends
<1> HIDE DEF u
<1>8. eo.redirect = NoRedirect /\ eo.mtc0 = NoMtc0 /\ eo.eret = FALSE
  BY <1>1 DEF Effects
<1> QED BY <1>6, <1>7, <1>8 DEF v, wr

-----------------------------------------------------------------------------
(* What a cycle commits *)

(* What the front of the pipeline fetches behind the instruction in ID/EX  *)
(* when EX does not redirect.                                              *)
Predicted(in) ==
  IF in.early_trap = NoCode /\ in.decoded.format = "J"
  THEN jump_target(in.pc4, in.decoded) ELSE in.pc4

(* The parts of the architectural state once the instruction in has left   *)
(* EX with outcome eo, and MEM and WB have been let finish it.             *)
CommitPc(in, eo) ==
  IF eo.trap.raised \/ mem_traps(eo.next) THEN kExceptionVector
  ELSE IF eo.redirect.taken THEN eo.redirect.pc ELSE Predicted(in)
ExCp0(c, eo) ==
  IF eo.trap.raised THEN cp0_raise(c, eo.trap.code, eo.trap.pc, eo.trap.bad_addr)
  ELSE IF eo.mtc0.taken THEN cp0_write(c, eo.mtc0.reg, eo.mtc0.value)
  ELSE IF eo.eret THEN cp0_eret(c)
  ELSE c
CommitCp0(c, eo) ==
  LET t == mem_trap(eo.next) IN
  IF mem_traps(eo.next) THEN cp0_raise(ExCp0(c, eo), t.code, t.pc, t.bad_addr)
  ELSE ExCp0(c, eo)

(* The instruction in, executed in state a with outcome eo, does what the  *)
(* oracle's outcome o says.                                                *)
Commits(a, in, eo, o) ==
  /\ o \in Outcome
  /\ o.arch.pc = CommitPc(in, eo)
  /\ o.arch.regs = write_back(a.regs, memory_access(a.mem, eo.next).next)
  /\ o.arch.mem = memory_access(a.mem, eo.next).mem
  /\ o.arch.cp0 = CommitCp0(a.cp0, eo)
  /\ o.result = IF eo.next.valid /\ ~mem_traps(eo.next) THEN "Ok" ELSE "Exception"

(* MEM and WB on the outcomes that EX hands them. *)
LEMMA BubblePasses ==
  ASSUME NEW m, NEW r
  PROVE  /\ ~mem_traps(ExMemBubble) /\ ~ExMemBubble.valid
         /\ memory_access(m, ExMemBubble).mem = m
         /\ memory_access(m, ExMemBubble).next = MemWbBubble
         /\ write_back(r, MemWbBubble) = r
<1>1. ~mem_traps(ExMemBubble) /\ ~ExMemBubble.valid
  BY DEF mem_traps, ExMemBubble
<1>2. /\ memory_access(m, ExMemBubble).mem = m
      /\ memory_access(m, ExMemBubble).next = MemWbBubble
  BY <1>1 DEF memory_access
<1>3. write_back(r, MemWbBubble) = r
  BY DEF write_back, MemWbBubble
<1> QED BY <1>1, <1>2, <1>3

(* What MEM hands to WB for an instruction that does not trap there. *)
HandsOn(m, in, mo) ==
  /\ mo.mem = IF in.ctrl.mem_write THEN write_word(m, in.value, in.rt_val) ELSE m
  /\ mo.next.valid = TRUE /\ mo.next.ctrl = in.ctrl /\ mo.next.alu_val = in.value
  /\ mo.next.mem_val = IF in.ctrl.mem_read THEN load_data(m, in.opcode, in.value) ELSE 0
  /\ mo.next.write_reg = in.write_reg /\ mo.next.is_halt = in.is_halt
  /\ mo.next.raw = in.raw /\ mo.next.pc = in.pc

LEMMA MemPasses ==
  ASSUME NEW m, NEW in, in.valid = TRUE, ~mem_traps(in)
  PROVE  HandsOn(m, in, memory_access(m, in))
<1> DEFINE mm == IF in.valid /\ in.ctrl.mem_write /\ ~mem_traps(in)
                 THEN write_word(m, in.value, in.rt_val) ELSE m
           mv == IF in.ctrl.mem_read THEN load_data(m, in.opcode, in.value) ELSE 0
           nx == [valid     |-> TRUE, pc |-> in.pc, raw |-> in.raw, ctrl |-> in.ctrl,
                  alu_val   |-> in.value, mem_val |-> mv,
                  write_reg |-> in.write_reg, is_halt |-> in.is_halt]
<1>1. memory_access(m, in) = [trap |-> mem_trap(in), mem |-> mm, next |-> nx]
  BY DEF memory_access
<1>2. mm = IF in.ctrl.mem_write THEN write_word(m, in.value, in.rt_val) ELSE m
  OBVIOUS
<1> HIDE DEF mm, mv
<1>3. /\ nx.valid = TRUE /\ nx.ctrl = in.ctrl /\ nx.alu_val = in.value /\ nx.mem_val = mv
      /\ nx.write_reg = in.write_reg /\ nx.is_halt = in.is_halt /\ nx.raw = in.raw
      /\ nx.pc = in.pc
  OBVIOUS
<1> HIDE DEF nx
<1>4. memory_access(m, in).mem = mm /\ memory_access(m, in).next = nx
  BY <1>1
<1> QED BY <1>2, <1>3, <1>4 DEF mv, HandsOn

LEMMA MemBlocks ==
  ASSUME NEW m, NEW in, mem_traps(in)
  PROVE  memory_access(m, in).mem = m /\ memory_access(m, in).next = MemWbBubble
         /\ memory_access(m, in).trap = mem_trap(in)
BY DEF memory_access

LEMMA TrapCommits ==
  ASSUME NEW a \in ArchState, NEW in, NEW eo, NEW o, NEW code, NEW bad_addr,
         eo.trap = Trap(code, a.pc, bad_addr), eo.next = ExMemBubble,
         Reaches(o, "Exception", kExceptionVector, a.regs, a.mem,
                 cp0_raise(a.cp0, code, a.pc, bad_addr))
  PROVE  Commits(a, in, eo, o)
<1>1. /\ eo.trap.raised = TRUE /\ eo.trap.code = code /\ eo.trap.pc = a.pc
      /\ eo.trap.bad_addr = bad_addr
  BY DEF Trap
<1>2. CommitPc(in, eo) = kExceptionVector
  BY <1>1 DEF CommitPc
<1>3. ~mem_traps(eo.next) /\ ~eo.next.valid
      /\ memory_access(a.mem, eo.next).mem = a.mem
      /\ write_back(a.regs, memory_access(a.mem, eo.next).next) = a.regs
  BY BubblePasses
<1>4. CommitCp0(a.cp0, eo) = cp0_raise(a.cp0, code, a.pc, bad_addr)
  BY <1>1, <1>3 DEF CommitCp0, ExCp0
<1> QED BY <1>2, <1>3, <1>4 DEF Commits, Reaches

(* An instruction that goes through MEM and WB with no access to memory. *)
PlainPc(in, rd) == IF rd.taken THEN rd.pc ELSE Predicted(in)
PlainRegs(r, rw, v, wr) == IF rw THEN reg_write(r, wr, v) ELSE r
PlainCp0(c, mt, er) ==
  IF mt.taken THEN cp0_write(c, mt.reg, mt.value) ELSE IF er THEN cp0_eret(c) ELSE c

LEMMA PlainCommits ==
  ASSUME NEW a \in ArchState, NEW in, NEW eo, NEW o, NEW b, NEW rw, NEW v, NEW wr,
         NEW rd, NEW mt, NEW er,
         Sends(eo, in, b, rw, v, wr), Effects(eo, rd, mt, er),
         ~in.ctrl.mem_read, ~in.ctrl.mem_write, ~in.ctrl.mem_to_reg,
         Reaches(o, "Ok", PlainPc(in, rd), PlainRegs(a.regs, rw, v, wr), a.mem,
                 PlainCp0(a.cp0, mt, er))
  PROVE  Commits(a, in, eo, o)
<1>1. /\ eo.trap.raised = FALSE /\ eo.next.valid = TRUE /\ eo.next.value = v
      /\ eo.next.write_reg = wr /\ eo.next.ctrl.reg_write = rw
      /\ ~eo.next.ctrl.mem_read /\ ~eo.next.ctrl.mem_write /\ ~eo.next.ctrl.mem_to_reg
  BY DEF Sends, NoTrap
<1>2. ~mem_traps(eo.next)
  BY <1>1 DEF mem_traps
<1>3. CommitPc(in, eo) = PlainPc(in, rd)
  BY <1>1, <1>2 DEF CommitPc, Effects, PlainPc
<1> DEFINE mo == memory_access(a.mem, eo.next)
<1>4. HandsOn(a.mem, eo.next, mo)
  BY <1>1, <1>2, MemPasses
<1> HIDE DEF mo
<1>5. mo.mem = a.mem /\ mo.next.valid = TRUE /\ mo.next.ctrl = eo.next.ctrl
      /\ mo.next.alu_val = v /\ mo.next.write_reg = wr
  BY <1>1, <1>4 DEF HandsOn
<1>6. write_back(a.regs, mo.next) = PlainRegs(a.regs, rw, v, wr)
  BY <1>1, <1>5 DEF write_back, wb_value, PlainRegs
<1>7. CommitCp0(a.cp0, eo) = PlainCp0(a.cp0, mt, er)
  BY <1>1, <1>2 DEF CommitCp0, ExCp0, Effects, PlainCp0
<1> QED BY <1>1, <1>2, <1>3, <1>5, <1>6, <1>7 DEF Commits, Reaches, mo

(* The address trap of a load or store that MEM refuses. *)
LEMMA MemTrapCommits ==
  ASSUME NEW a \in ArchState, NEW in, NEW eo, NEW o, NEW b, NEW rw, NEW v, NEW wr,
         Sends(eo, in, b, rw, v, wr), Effects(eo, NoRedirect, NoMtc0, FALSE),
         in.pc = a.pc, mem_traps(eo.next),
         Reaches(o, "Exception", kExceptionVector, a.regs, a.mem,
                 cp0_raise(a.cp0, IF in.ctrl.mem_read THEN AdEL ELSE AdES, a.pc, v))
  PROVE  Commits(a, in, eo, o)
<1>1. /\ eo.trap.raised = FALSE /\ eo.next.valid = TRUE /\ eo.next.value = v
      /\ eo.next.pc = a.pc /\ eo.next.ctrl.mem_read = in.ctrl.mem_read
  BY DEF Sends, NoTrap
<1> DEFINE code == IF in.ctrl.mem_read THEN AdEL ELSE AdES
           t    == mem_trap(eo.next)
<1>2. t = Trap(code, a.pc, v)
  BY <1>1 DEF mem_trap
<1> HIDE DEF t
<1>3. t.code = code /\ t.pc = a.pc /\ t.bad_addr = v
  BY <1>2 DEF Trap
<1>4. CommitPc(in, eo) = kExceptionVector
  BY DEF CommitPc
<1>5. memory_access(a.mem, eo.next).mem = a.mem
      /\ write_back(a.regs, memory_access(a.mem, eo.next).next) = a.regs
  BY MemBlocks, BubblePasses
<1>6. ExCp0(a.cp0, eo) = a.cp0
  BY <1>1 DEF ExCp0, Effects, NoMtc0
<1>7. CommitCp0(a.cp0, eo) = cp0_raise(a.cp0, code, a.pc, v)
  BY <1>3, <1>6 DEF CommitCp0, t
<1> QED BY <1>4, <1>5, <1>7 DEF Commits, Reaches

LEMMA LoadCommits ==
  ASSUME NEW a \in ArchState, NEW in, NEW eo, NEW o, NEW b, NEW rw, NEW v, NEW wr,
         Sends(eo, in, b, rw, v, wr), Effects(eo, NoRedirect, NoMtc0, FALSE),
         in.ctrl.mem_read, ~in.ctrl.mem_write, in.ctrl.mem_to_reg, rw = TRUE,
         load_ok(in.decoded.opcode, v),
         Reaches(o, "Ok", Predicted(in),
                 reg_write(a.regs, wr, load_data(a.mem, in.decoded.opcode, v)), a.mem, a.cp0)
  PROVE  Commits(a, in, eo, o)
<1>1. /\ eo.trap.raised = FALSE /\ eo.next.valid = TRUE /\ eo.next.value = v
      /\ eo.next.write_reg = wr /\ eo.next.ctrl.reg_write = TRUE
      /\ eo.next.opcode = in.decoded.opcode
      /\ eo.next.ctrl.mem_read /\ ~eo.next.ctrl.mem_write /\ eo.next.ctrl.mem_to_reg
  BY DEF Sends, NoTrap
<1>2. ~mem_traps(eo.next)
  BY <1>1 DEF mem_traps
<1>3. CommitPc(in, eo) = Predicted(in)
  BY <1>1, <1>2 DEF CommitPc, Effects, NoRedirect
<1> DEFINE mo == memory_access(a.mem, eo.next)
<1>4. HandsOn(a.mem, eo.next, mo)
  BY <1>1, <1>2, MemPasses
<1> HIDE DEF mo
<1>5. mo.mem = a.mem /\ mo.next.valid = TRUE /\ mo.next.ctrl = eo.next.ctrl
      /\ mo.next.mem_val = load_data(a.mem, in.decoded.opcode, v) /\ mo.next.write_reg = wr
  BY <1>1, <1>4 DEF HandsOn
<1>6. write_back(a.regs, mo.next) =
        reg_write(a.regs, wr, load_data(a.mem, in.decoded.opcode, v))
  BY <1>1, <1>5 DEF write_back, wb_value
<1>7. CommitCp0(a.cp0, eo) = a.cp0
  BY <1>1, <1>2 DEF CommitCp0, ExCp0, Effects, NoMtc0
<1> QED BY <1>1, <1>2, <1>3, <1>5, <1>6, <1>7 DEF Commits, Reaches, mo

LEMMA StoreCommits ==
  ASSUME NEW a \in ArchState, NEW in, NEW eo, NEW o, NEW b, NEW rw, NEW v, NEW wr,
         Sends(eo, in, b, rw, v, wr), Effects(eo, NoRedirect, NoMtc0, FALSE),
         ~in.ctrl.mem_read, in.ctrl.mem_write, rw = FALSE,
         store_ok(in.decoded.opcode, v),
         Reaches(o, "Ok", Predicted(in), a.regs, write_word(a.mem, v, b), a.cp0)
  PROVE  Commits(a, in, eo, o)
<1>1. /\ eo.trap.raised = FALSE /\ eo.next.valid = TRUE /\ eo.next.value = v
      /\ eo.next.rt_val = b /\ eo.next.ctrl.reg_write = FALSE
      /\ eo.next.opcode = in.decoded.opcode
      /\ ~eo.next.ctrl.mem_read /\ eo.next.ctrl.mem_write
  BY DEF Sends, NoTrap
<1>2. ~mem_traps(eo.next)
  BY <1>1 DEF mem_traps
<1>3. CommitPc(in, eo) = Predicted(in)
  BY <1>1, <1>2 DEF CommitPc, Effects, NoRedirect
<1> DEFINE mo == memory_access(a.mem, eo.next)
<1>4. HandsOn(a.mem, eo.next, mo)
  BY <1>1, <1>2, MemPasses
<1> HIDE DEF mo
<1>5. mo.mem = write_word(a.mem, v, b) /\ mo.next.valid = TRUE /\ mo.next.ctrl = eo.next.ctrl
  BY <1>1, <1>4 DEF HandsOn
<1>6. write_back(a.regs, mo.next) = a.regs
  BY <1>1, <1>5 DEF write_back
<1>7. CommitCp0(a.cp0, eo) = a.cp0
  BY <1>1, <1>2 DEF CommitCp0, ExCp0, Effects, NoMtc0
<1> QED BY <1>1, <1>2, <1>3, <1>5, <1>6, <1>7 DEF Commits, Reaches, mo

-----------------------------------------------------------------------------
(* EX does what the oracle does *)

(* EX holds the instruction that the oracle executes in state a, with its  *)
(* operands.                                                               *)
Ready(a, in, ops) ==
  /\ a \in ArchState /\ in \in IdEx /\ ops \in OperandsType
  /\ in.pc = a.pc /\ in.pc4 = Succ(a.pc) /\ in.early_trap = NoCode
  /\ decodes(in.decoded.raw) /\ in.decoded = decode(in.decoded.raw)
  /\ in.ctrl = derive_control(in.decoded)
  /\ in.decoded.rs \in source_registers(in.decoded) =>
       ops.a = reg_read(a.regs, in.decoded.rs)
  /\ in.decoded.rt \in source_registers(in.decoded) =>
       ops.b = reg_read(a.regs, in.decoded.rt)

(* The fields of an instruction that the decoder has returned. *)
LEMMA FaithfulParts ==
  ASSUME NEW d \in DecodedInstr, decodes(d.raw), d = decode(d.raw)
  PROVE  /\ d.raw \in Word /\ d.opcode = Fields[d.raw].opcode
         /\ d.format = format_of(d.opcode) /\ d.format \in {"R", "I", "J"}
         /\ d.format = "R" => /\ d.opcode \in {"SPECIAL", "COP0"}
                              /\ d.opcode = "SPECIAL" => d.funct \in SpecialFuncts
         /\ d.format = "I" => d.opcode \in IOpcodes /\ d.funct = "none" /\ d.shamt = 0
         /\ d.format = "J" => d.opcode \in {"J", "JAL"} /\ d.target = Fields[d.raw].target
<1> DEFINE w == d.raw
<1>1. w \in Word
  BY DEF DecodedInstr
<1> HIDE DEF w
<1>2. decodes(w) /\ d = decode(w)
  BY DEF w
<1> QED BY <1>1, <1>2, DecodedParts DEF w

LEMMA ReadyParts ==
  ASSUME NEW a, NEW in, NEW ops, Ready(a, in, ops)
  PROVE  LET d == in.decoded IN
         /\ d \in DecodedInstr /\ d.raw \in Word /\ d.opcode = Fields[d.raw].opcode
         /\ d.format = format_of(d.opcode) /\ d.format \in {"R", "I", "J"}
         /\ d.format = "R" => /\ d.opcode \in {"SPECIAL", "COP0"}
                              /\ d.opcode = "SPECIAL" => d.funct \in SpecialFuncts
         /\ d.format = "I" => d.opcode \in IOpcodes /\ d.funct = "none" /\ d.shamt = 0
         /\ d.format = "J" => d.opcode \in {"J", "JAL"} /\ d.target = Fields[d.raw].target
<1>1. in.decoded \in DecodedInstr
  BY DEF Ready, IdEx
<1>2. decodes(in.decoded.raw) /\ in.decoded = decode(in.decoded.raw)
  BY DEF Ready
<1> QED BY <1>1, <1>2, FaithfulParts

(* The signals of the instructions that are not in I format. *)
LEMMA JtypeControl ==
  ASSUME NEW d, d.format = "J"
  PROVE  LET c == derive_control(d) IN
         /\ c.mem_read = FALSE /\ c.mem_write = FALSE /\ c.mem_to_reg = FALSE
         /\ c.reg_write = (d.opcode = "JAL")
<1>1. derive_control(d) = [NoControl EXCEPT !.jump = TRUE, !.reg_write = d.opcode = "JAL"]
  BY DEF derive_control
<1> QED BY <1>1 DEF NoControl

LEMMA RtypeControl ==
  ASSUME NEW d, d.format = "R"
  PROVE  LET c == derive_control(d) IN
         /\ c.mem_read = FALSE /\ c.mem_write = FALSE /\ c.mem_to_reg = FALSE
         /\ c.reg_write <=> ~(d.opcode = "COP0" \/ d.funct \in {"JR", "SYSCALL", "BREAK"})
         /\ c.reg_dst <=> (c.reg_write /\ d.funct # "JALR")
<1>1. derive_control(d) = r_type_control(d)
  BY DEF derive_control
<1>2. CASE d.opcode = "COP0" \/ d.funct \in {"JR", "SYSCALL", "BREAK"}
  BY <1>1, <1>2 DEF r_type_control, NoControl
<1>3. CASE ~(d.opcode = "COP0" \/ d.funct \in {"JR", "SYSCALL", "BREAK"})
  <2>1. derive_control(d) = [NoControl EXCEPT !.reg_write = TRUE, !.reg_dst = d.funct # "JALR"]
    BY <1>1, <1>3 DEF r_type_control
  <2> QED BY <1>3, <2>1 DEF NoControl
<1> QED BY <1>2, <1>3

LEMMA JumpCommits ==
  ASSUME NEW a, NEW in, NEW ops, Ready(a, in, ops), in.decoded.format = "J"
  PROVE  Commits(a, in, ex_jump(in, ops), exec_jtype(a, in.decoded))
<1> DEFINE d  == in.decoded
           eo == ex_jump(in, ops)
           o  == exec_jtype(a, d)
           v  == IF d.opcode = "JAL" THEN in.pc4 ELSE 0
           wr == IF d.opcode = "JAL" THEN kRa ELSE 0
           rw == in.ctrl.reg_write
<1>1. /\ a \in ArchState /\ in \in IdEx /\ ops \in OperandsType /\ d \in DecodedInstr
      /\ in.pc4 = Succ(a.pc) /\ in.early_trap = NoCode /\ in.ctrl = derive_control(d)
  BY ReadyParts DEF Ready
<1>2. /\ in.ctrl.mem_read = FALSE /\ in.ctrl.mem_write = FALSE
      /\ in.ctrl.mem_to_reg = FALSE /\ rw = (d.opcode = "JAL")
  BY <1>1, JtypeControl
<1>3. Sends(eo, in, ops.b, rw, v, wr) /\ Effects(eo, NoRedirect, NoMtc0, FALSE)
  BY <1>1, ExJumpSends
<1>4. Reaches(o, "Ok", jump_target(Succ(a.pc), d),
              IF d.opcode = "JAL" THEN reg_write(a.regs, kRa, Succ(a.pc)) ELSE a.regs,
              a.mem, a.cp0)
  BY <1>1, JtypeReaches
<1>5. PlainPc(in, NoRedirect) = jump_target(Succ(a.pc), d)
  BY <1>1 DEF PlainPc, NoRedirect, Predicted
<1>6. PlainRegs(a.regs, rw, v, wr) =
        IF d.opcode = "JAL" THEN reg_write(a.regs, kRa, Succ(a.pc)) ELSE a.regs
  BY <1>1, <1>2 DEF PlainRegs
<1>7. PlainCp0(a.cp0, NoMtc0, FALSE) = a.cp0
  BY DEF PlainCp0, NoMtc0
<1> HIDE DEF eo, o, v, wr, rw
<1>8. Reaches(o, "Ok", PlainPc(in, NoRedirect), PlainRegs(a.regs, rw, v, wr), a.mem,
              PlainCp0(a.cp0, NoMtc0, FALSE))
  BY <1>4, <1>5, <1>6, <1>7
<1>9. Commits(a, in, eo, o)
  BY <1>1, <1>2, <1>3, <1>8, PlainCommits
<1> QED BY <1>9 DEF eo, o

LEMMA BranchCommits ==
  ASSUME NEW a, NEW in, NEW ops, Ready(a, in, ops), in.decoded.format = "I",
         in.decoded.opcode \in {"BEQ", "BNE"}
  PROVE  Commits(a, in, ex_branch(in, ops), exec_branch(a, in.decoded))
<1> DEFINE d  == in.decoded
           eo == ex_branch(in, ops)
           o  == exec_branch(a, d)
           rd == IF BranchTaken(a, d) THEN Redirect(branch_target(in.pc4, d)) ELSE NoRedirect
           rw == in.ctrl.reg_write
<1>1. /\ a \in ArchState /\ in \in IdEx /\ ops \in OperandsType /\ d \in DecodedInstr
      /\ in.pc4 = Succ(a.pc) /\ in.early_trap = NoCode /\ in.ctrl = derive_control(d)
  BY ReadyParts DEF Ready
<1>2. /\ ~in.ctrl.mem_read /\ ~in.ctrl.mem_write /\ ~in.ctrl.mem_to_reg /\ ~rw
  BY <1>1, ItypeControl DEF Loads
<1>3. ops.a = reg_read(a.regs, d.rs) /\ ops.b = reg_read(a.regs, d.rt)
  BY DEF Ready, source_registers
<1>4. Sends(eo, in, ops.b, rw, 0, 0) /\ Effects(eo, rd, NoMtc0, FALSE)
  BY <1>1, <1>3, ExBranchSends DEF BranchTaken
<1>5. Reaches(o, "Ok",
              IF BranchTaken(a, d) THEN branch_target(Succ(a.pc), d) ELSE Succ(a.pc),
              a.regs, a.mem, a.cp0)
  BY <1>1, BranchReaches
<1>6. PlainPc(in, rd) =
        IF BranchTaken(a, d) THEN branch_target(Succ(a.pc), d) ELSE Succ(a.pc)
  BY <1>1 DEF PlainPc, NoRedirect, Redirect, Predicted
<1>7. PlainRegs(a.regs, rw, 0, 0) = a.regs
  BY <1>2 DEF PlainRegs
<1>8. PlainCp0(a.cp0, NoMtc0, FALSE) = a.cp0
  BY DEF PlainCp0, NoMtc0
<1> HIDE DEF eo, o, rd, rw
<1>9. Reaches(o, "Ok", PlainPc(in, rd), PlainRegs(a.regs, rw, 0, 0), a.mem,
              PlainCp0(a.cp0, NoMtc0, FALSE))
  BY <1>5, <1>6, <1>7, <1>8
<1>10. Commits(a, in, eo, o)
  BY <1>1, <1>2, <1>4, <1>9, PlainCommits
<1> QED BY <1>10 DEF eo, o

(* MFC0, MTC0, ERET and the sub-operations of COP0 that do nothing. *)
LEMMA Cop0Commits ==
  ASSUME NEW a, NEW in, NEW ops, Ready(a, in, ops), in.decoded.format = "R",
         in.decoded.opcode = "COP0"
  PROVE  Commits(a, in, ex_cop0(in, ops, a.cp0), exec_cop0(a, in.decoded))
<1> DEFINE d    == in.decoded
           eo   == ex_cop0(in, ops, a.cp0)
           o    == exec_cop0(a, d)
           rw   == in.ctrl.reg_write
           v    == cp0_read(a.cp0, d.rd)
           mt   == [taken |-> TRUE, reg |-> d.rd, value |-> ops.b]
           rd   == Redirect(a.cp0.epc)
           eret == d.rs = 16 /\ d.funct = "ERET"
<1>1. /\ a \in ArchState /\ in \in IdEx /\ ops \in OperandsType /\ d \in DecodedInstr
      /\ in.pc4 = Succ(a.pc) /\ in.early_trap = NoCode /\ in.ctrl = derive_control(d)
      /\ a.cp0 \in Cp0
  BY ReadyParts, ArchParts DEF Ready
<1>2. ~in.ctrl.mem_read /\ ~in.ctrl.mem_write /\ ~in.ctrl.mem_to_reg /\ ~rw
  BY <1>1, RtypeControl
<1>3. d.rs = 4 => ops.b = reg_read(a.regs, d.rt)
  BY DEF Ready, source_registers
<1>4. /\ d.rs = 0 => Sends(eo, in, ops.b, TRUE, v, d.rt)
                     /\ Effects(eo, NoRedirect, NoMtc0, FALSE)
      /\ d.rs = 4 => Sends(eo, in, ops.b, rw, 0, 0) /\ Effects(eo, NoRedirect, mt, FALSE)
      /\ eret => Sends(eo, in, ops.b, rw, 0, 0) /\ Effects(eo, rd, NoMtc0, TRUE)
      /\ d.rs \notin {0, 4} /\ ~eret => Sends(eo, in, ops.b, rw, 0, 0)
                                        /\ Effects(eo, NoRedirect, NoMtc0, FALSE)
  BY <1>1, ExCop0Sends
<1>5. /\ d.rs = 0 => Reaches(o, "Ok", Succ(a.pc), reg_write(a.regs, d.rt, v), a.mem, a.cp0)
      /\ d.rs = 4 => Reaches(o, "Ok", Succ(a.pc), a.regs, a.mem,
                             cp0_write(a.cp0, d.rd, reg_read(a.regs, d.rt)))
      /\ eret => Reaches(o, "Ok", a.cp0.epc, a.regs, a.mem, cp0_eret(a.cp0))
      /\ d.rs \notin {0, 4} /\ ~eret =>
           Reaches(o, "Ok", Succ(a.pc), a.regs, a.mem, a.cp0)
  BY <1>1, Cop0Reaches
<1>6. PlainPc(in, NoRedirect) = Succ(a.pc) /\ PlainPc(in, rd) = a.cp0.epc
  BY <1>1 DEF PlainPc, NoRedirect, Redirect, Predicted
<1>7. /\ PlainRegs(a.regs, TRUE, v, d.rt) = reg_write(a.regs, d.rt, v)
      /\ PlainRegs(a.regs, rw, 0, 0) = a.regs
  BY <1>2 DEF PlainRegs
<1>8. /\ PlainCp0(a.cp0, NoMtc0, FALSE) = a.cp0
      /\ PlainCp0(a.cp0, NoMtc0, TRUE) = cp0_eret(a.cp0)
      /\ PlainCp0(a.cp0, mt, FALSE) = cp0_write(a.cp0, d.rd, ops.b)
  BY DEF PlainCp0, NoMtc0
<1> HIDE DEF eo, o, rw, v, mt, rd, eret
<1>9. CASE d.rs = 0
  <2>1. Reaches(o, "Ok", PlainPc(in, NoRedirect), PlainRegs(a.regs, TRUE, v, d.rt), a.mem,
                PlainCp0(a.cp0, NoMtc0, FALSE))
    BY <1>5, <1>6, <1>7, <1>8, <1>9
  <2>2. Sends(eo, in, ops.b, TRUE, v, d.rt) /\ Effects(eo, NoRedirect, NoMtc0, FALSE)
    BY <1>4, <1>9
  <2>3. Commits(a, in, eo, o)
    BY <1>1, <1>2, <2>1, <2>2, PlainCommits
  <2> QED BY <2>3 DEF eo, o
<1>10. CASE d.rs = 4
  <2>1. Reaches(o, "Ok", PlainPc(in, NoRedirect), PlainRegs(a.regs, rw, 0, 0), a.mem,
                PlainCp0(a.cp0, mt, FALSE))
    BY <1>3, <1>5, <1>6, <1>7, <1>8, <1>10
  <2>2. Sends(eo, in, ops.b, rw, 0, 0) /\ Effects(eo, NoRedirect, mt, FALSE)
    BY <1>4, <1>10
  <2>3. Commits(a, in, eo, o)
    BY <1>1, <1>2, <2>1, <2>2, PlainCommits
  <2> QED BY <2>3 DEF eo, o
<1>11. CASE eret
  <2>1. Reaches(o, "Ok", PlainPc(in, rd), PlainRegs(a.regs, rw, 0, 0), a.mem,
                PlainCp0(a.cp0, NoMtc0, TRUE))
    BY <1>5, <1>6, <1>7, <1>8, <1>11
  <2>2. Sends(eo, in, ops.b, rw, 0, 0) /\ Effects(eo, rd, NoMtc0, TRUE)
    BY <1>4, <1>11
  <2>3. Commits(a, in, eo, o)
    BY <1>1, <1>2, <2>1, <2>2, PlainCommits
  <2> QED BY <2>3 DEF eo, o
<1>12. CASE d.rs \notin {0, 4} /\ ~eret
  <2>1. Reaches(o, "Ok", PlainPc(in, NoRedirect), PlainRegs(a.regs, rw, 0, 0), a.mem,
                PlainCp0(a.cp0, NoMtc0, FALSE))
    BY <1>5, <1>6, <1>7, <1>8, <1>12
  <2>2. Sends(eo, in, ops.b, rw, 0, 0) /\ Effects(eo, NoRedirect, NoMtc0, FALSE)
    BY <1>4, <1>12
  <2>3. Commits(a, in, eo, o)
    BY <1>1, <1>2, <2>1, <2>2, PlainCommits
  <2> QED BY <2>3 DEF eo, o
<1> QED BY <1>9, <1>10, <1>11, <1>12

LEMMA RegisterJumpCommits ==
  ASSUME NEW a, NEW in, NEW ops, Ready(a, in, ops), in.decoded.format = "R",
         in.decoded.opcode = "SPECIAL", in.decoded.funct \in {"JR", "JALR"}
  PROVE  Commits(a, in, ex_register_jump(in, ops), exec_rtype(a, in.decoded))
<1> DEFINE d    == in.decoded
           eo   == ex_register_jump(in, ops)
           o    == exec_rtype(a, d)
           rw   == in.ctrl.reg_write
           link == d.funct = "JALR"
           v    == IF link THEN in.pc4 ELSE 0
           wr   == IF link THEN d.rd ELSE 0
           rd   == Redirect(ops.a)
<1>1. /\ a \in ArchState /\ in \in IdEx /\ ops \in OperandsType /\ d \in DecodedInstr
      /\ in.pc4 = Succ(a.pc) /\ in.early_trap = NoCode /\ in.ctrl = derive_control(d)
  BY ReadyParts DEF Ready
<1>2. ~in.ctrl.mem_read /\ ~in.ctrl.mem_write /\ ~in.ctrl.mem_to_reg /\ (rw <=> link)
  BY <1>1, RtypeControl
<1>3. ops.a = reg_read(a.regs, d.rs)
  BY DEF Ready, source_registers
<1>4. Sends(eo, in, ops.b, rw, v, wr) /\ Effects(eo, rd, NoMtc0, FALSE)
  BY <1>1, ExRegisterJumpSends
<1>5. /\ ~link => Reaches(o, "Ok", reg_read(a.regs, d.rs), a.regs, a.mem, a.cp0)
      /\ link => Reaches(o, "Ok", reg_read(a.regs, d.rs),
                         reg_write(a.regs, d.rd, Succ(a.pc)), a.mem, a.cp0)
  BY <1>1, RegisterJumpReaches
<1>6. PlainPc(in, rd) = reg_read(a.regs, d.rs)
  BY <1>3 DEF PlainPc, Redirect
<1>7. PlainRegs(a.regs, rw, v, wr) =
        IF link THEN reg_write(a.regs, d.rd, Succ(a.pc)) ELSE a.regs
  BY <1>1, <1>2 DEF PlainRegs
<1>8. PlainCp0(a.cp0, NoMtc0, FALSE) = a.cp0
  BY DEF PlainCp0, NoMtc0
<1> HIDE DEF eo, o, rw, link, v, wr, rd
<1>9. Reaches(o, "Ok", PlainPc(in, rd), PlainRegs(a.regs, rw, v, wr), a.mem,
              PlainCp0(a.cp0, NoMtc0, FALSE))
  BY <1>5, <1>6, <1>7, <1>8
<1>10. Commits(a, in, eo, o)
  BY <1>1, <1>2, <1>4, <1>9, PlainCommits
<1> QED BY <1>10 DEF eo, o

(* Traps that EX raises with no bad address. *)
LEMMA ExTrapCommits ==
  ASSUME NEW a, NEW in, NEW ops, Ready(a, in, ops), NEW code \in ExceptionCode
  PROVE  Commits(a, in, ex_traps(in, ops, code), raise(a, code, 0))
<1> DEFINE eo == ex_traps(in, ops, code)
           o  == raise(a, code, 0)
<1>1. a \in ArchState /\ in.pc = a.pc
  BY DEF Ready
<1>2. eo.trap = Trap(code, a.pc, 0) /\ eo.next = ExMemBubble
  BY <1>1 DEF ex_traps, NoExOutcome
<1>3. Reaches(o, "Exception", kExceptionVector, a.regs, a.mem,
              cp0_raise(a.cp0, code, a.pc, 0))
  BY <1>1, RaiseReaches, ZeroIsWord
<1> HIDE DEF eo, o
<1>4. Commits(a, in, eo, o)
  BY <1>1, <1>2, <1>3, TrapCommits
<1> QED BY <1>4 DEF eo, o

(* Shifts by an immediate amount and LUI do not look at their first        *)
(* operand, so EX need not forward it.                                     *)
LEMMA FirstOperandUnused ==
  ASSUME NEW o \in {"SLL", "SRL", "SRA", "LUI"}, NEW x, NEW y, NEW b, NEW s
  PROVE  alu_execute(o, x, b, s) = alu_execute(o, y, b, s)
<1>1. alu_value(o, x, b, s) = alu_value(o, y, b, s)
  BY DEF alu_value
<1> QED BY <1>1 DEF alu_execute

LEMMA RtypeResultMatches ==
  ASSUME NEW a, NEW in, NEW ops, Ready(a, in, ops), in.decoded.format = "R",
         in.decoded.opcode = "SPECIAL",
         in.decoded.funct \notin {"JR", "JALR", "SYSCALL", "BREAK"}
  PROVE  /\ ExResult(in, ops) = RtypeResult(a, in.decoded)
         /\ ExOverflows(in, ops) <=> RtypeOverflows(a, in.decoded)
         /\ ExDest(in) = in.decoded.rd
<1> DEFINE d == in.decoded
           x == reg_read(a.regs, d.rs)
<1>1. ExResult(in, ops) = alu_execute(alu_control(d), ops.a, ops.b, shift_amount(d, ops.a))
  BY DEF ExResult
<1>2. ops.b = reg_read(a.regs, d.rt)
  BY DEF Ready, source_registers
<1> HIDE DEF x
<1>3. ExResult(in, ops) = RtypeResult(a, d)
  <2>1. CASE d.funct \in {"SLL", "SRL", "SRA"}
    <3>1. shift_amount(d, ops.a) = shift_amount(d, x)
      BY <2>1 DEF shift_amount
    <3>2. alu_control(d) \in {"SLL", "SRL", "SRA", "LUI"}
      BY <2>1 DEF alu_control, r_type_op
    <3>3. alu_execute(alu_control(d), ops.a, ops.b, shift_amount(d, x)) =
            alu_execute(alu_control(d), x, ops.b, shift_amount(d, x))
      BY <3>2, FirstOperandUnused
    <3> QED BY <1>1, <1>2, <3>1, <3>3 DEF RtypeResult, x
  <2>2. CASE d.funct \notin {"SLL", "SRL", "SRA"}
    <3>1. ops.a = x
      BY <2>2 DEF Ready, source_registers, x
    <3> QED BY <1>1, <1>2, <3>1 DEF RtypeResult, x
  <2> QED BY <2>1, <2>2
<1>4. ExOverflows(in, ops) <=> RtypeOverflows(a, d)
  BY <1>3 DEF ExOverflows, RtypeOverflows
<1>5. in.ctrl.reg_dst
  BY RtypeControl DEF Ready
<1> QED BY <1>3, <1>4, <1>5 DEF ExDest

LEMMA AluRtypeCommits ==
  ASSUME NEW a, NEW in, NEW ops, Ready(a, in, ops), in.decoded.format = "R",
         in.decoded.opcode = "SPECIAL",
         in.decoded.funct \notin {"JR", "JALR", "SYSCALL", "BREAK"}
  PROVE  Commits(a, in, ex_alu(in, ops), exec_alu_rtype(a, in.decoded))
<1> DEFINE d  == in.decoded
           eo == ex_alu(in, ops)
           o  == exec_alu_rtype(a, d)
           rw == in.ctrl.reg_write
           v  == RtypeResult(a, d).value
<1>1. /\ a \in ArchState /\ in \in IdEx /\ ops \in OperandsType /\ d \in DecodedInstr
      /\ in.pc4 = Succ(a.pc) /\ in.early_trap = NoCode /\ in.ctrl = derive_control(d)
      /\ d.funct \in SpecialFuncts
  BY ReadyParts DEF Ready
<1>2. ~in.ctrl.mem_read /\ ~in.ctrl.mem_write /\ ~in.ctrl.mem_to_reg /\ rw
  BY <1>1, RtypeControl
<1>3. alu_control(d) # "none"
  BY <1>1, AluControlled
<1>4. /\ ExResult(in, ops) = RtypeResult(a, d) /\ ExDest(in) = d.rd
      /\ ExOverflows(in, ops) <=> RtypeOverflows(a, d)
  BY RtypeResultMatches
<1>5. /\ RtypeOverflows(a, d) => eo = ex_traps(in, ops, Ov)
      /\ ~RtypeOverflows(a, d) => Sends(eo, in, ops.b, rw, v, d.rd)
                                  /\ Effects(eo, NoRedirect, NoMtc0, FALSE)
  BY <1>1, <1>3, <1>4, ExAluSends
<1>6. CASE RtypeOverflows(a, d)
  <2>1. o = raise(a, Ov, 0)
    BY <1>3, <1>6 DEF exec_alu_rtype, RtypeOverflows, RtypeResult
  <2> QED BY <1>5, <1>6, <2>1, ExTrapCommits DEF ExceptionCode
<1>7. CASE ~RtypeOverflows(a, d)
  <2>1. Reaches(o, "Ok", Succ(a.pc), reg_write(a.regs, d.rd, v), a.mem, a.cp0)
    BY <1>1, <1>3, <1>7, AluRtypeReaches
  <2>2. PlainPc(in, NoRedirect) = Succ(a.pc)
    BY <1>1 DEF PlainPc, NoRedirect, Predicted
  <2>3. PlainRegs(a.regs, rw, v, d.rd) = reg_write(a.regs, d.rd, v)
    BY <1>2 DEF PlainRegs
  <2>4. PlainCp0(a.cp0, NoMtc0, FALSE) = a.cp0
    BY DEF PlainCp0, NoMtc0
  <2> HIDE DEF eo, o, rw, v
  <2>5. Reaches(o, "Ok", PlainPc(in, NoRedirect), PlainRegs(a.regs, rw, v, d.rd), a.mem,
                PlainCp0(a.cp0, NoMtc0, FALSE))
    BY <2>1, <2>2, <2>3, <2>4
  <2>6. Commits(a, in, eo, o)
    BY <1>1, <1>2, <1>5, <1>7, <2>5, PlainCommits
  <2> QED BY <2>6 DEF eo, o
<1> QED BY <1>6, <1>7

LEMMA ItypeResultMatches ==
  ASSUME NEW a, NEW in, NEW ops, Ready(a, in, ops), in.decoded.format = "I",
         in.decoded.opcode \notin {"BEQ", "BNE"}
  PROVE  /\ ExResult(in, ops) = ItypeResult(a, in.decoded)
         /\ ExOverflows(in, ops) <=> ItypeOverflows(a, in.decoded)
         /\ ExDest(in) = in.decoded.rt
<1> DEFINE d == in.decoded
           x == reg_read(a.regs, d.rs)
           b == extended_imm(d, derive_control(d))
<1>1. /\ in.ctrl = derive_control(d) /\ in.ctrl.alu_src /\ ~in.ctrl.reg_dst
      /\ d.funct = "none" /\ d.shamt = 0
  <2>1. in.ctrl = derive_control(d) /\ d.format = "I" /\ d.funct = "none" /\ d.shamt = 0
    BY ReadyParts DEF Ready
  <2> HIDE DEF d
  <2>2. /\ derive_control(d).alu_src <=> d.opcode \notin {"BEQ", "BNE"}
        /\ derive_control(d).reg_dst = FALSE
    BY <2>1, ItypeControl
  <2> QED BY <2>1, <2>2 DEF d
<1>2. shift_amount(d, ops.a) = 0
  BY <1>1 DEF shift_amount
<1>3. ExResult(in, ops) = alu_execute(alu_control(d), ops.a, b, 0)
  BY <1>1, <1>2 DEF ExResult
<1> HIDE DEF x, b
<1>4. ExResult(in, ops) = ItypeResult(a, d)
  <2>1. CASE d.opcode = "LUI"
    <3>1. alu_control(d) \in {"SLL", "SRL", "SRA", "LUI"}
      BY <2>1 DEF alu_control, i_type_op
    <3>2. alu_execute(alu_control(d), ops.a, b, 0) = alu_execute(alu_control(d), x, b, 0)
      BY <3>1, FirstOperandUnused
    <3> QED BY <1>3, <3>2 DEF ItypeResult, x, b
  <2>2. CASE d.opcode # "LUI"
    <3>1. d.opcode \in IOpcodes
      BY ReadyParts
    <3>2. ops.a = x
      BY <2>2, <3>1 DEF Ready, source_registers, IOpcodes, x
    <3> QED BY <1>3, <3>2 DEF ItypeResult, x, b
  <2> QED BY <2>1, <2>2
<1>5. ExOverflows(in, ops) <=> ItypeOverflows(a, d)
  BY <1>1, <1>4 DEF ExOverflows, ItypeOverflows
<1> QED BY <1>1, <1>4, <1>5 DEF ExDest

LEMMA ItypeCommits ==
  ASSUME NEW a, NEW in, NEW ops, Ready(a, in, ops), in.decoded.format = "I",
         in.decoded.opcode \notin {"BEQ", "BNE"}
  PROVE  Commits(a, in, ex_alu(in, ops), exec_itype(a, in.decoded))
<1> DEFINE d  == in.decoded
           eo == ex_alu(in, ops)
           o  == exec_itype(a, d)
           rw == in.ctrl.reg_write
           v  == ItypeResult(a, d).value
<1>1. /\ a \in ArchState /\ in \in IdEx /\ ops \in OperandsType /\ d \in DecodedInstr
      /\ in.pc = a.pc /\ in.pc4 = Succ(a.pc) /\ in.early_trap = NoCode
      /\ in.ctrl = derive_control(d) /\ d.opcode \in IOpcodes
  BY ReadyParts DEF Ready
<1>2. /\ in.ctrl.mem_read <=> d.opcode \in Loads
      /\ in.ctrl.mem_to_reg <=> d.opcode \in Loads
      /\ in.ctrl.mem_write <=> d.opcode = "SW"
      /\ rw <=> d.opcode # "SW"
      /\ rw \in BOOLEAN
  <2> DEFINE c == derive_control(d)
  <2>1. /\ c.mem_read <=> d.opcode \in Loads
        /\ c.mem_to_reg <=> d.opcode \in Loads
        /\ c.mem_write <=> d.opcode = "SW"
        /\ c.reg_write <=> d.opcode \notin {"SW", "BEQ", "BNE"}
    BY ItypeControl
  <2> HIDE DEF c
  <2>2. in.ctrl = c /\ c \in Control
    BY <1>1, ControlType DEF c
  <2>3. c.reg_write \in BOOLEAN
    BY <2>2 DEF Control
  <2> QED BY <2>1, <2>2, <2>3
<1>3. alu_control(d) # "none"
  BY <1>1, AluControlled
<1>4. /\ ExResult(in, ops) = ItypeResult(a, d) /\ ExDest(in) = d.rt
      /\ ExOverflows(in, ops) <=> ItypeOverflows(a, d)
  BY ItypeResultMatches
<1>5. /\ ItypeOverflows(a, d) => eo = ex_traps(in, ops, Ov)
      /\ ~ItypeOverflows(a, d) => Sends(eo, in, ops.b, rw, v, d.rt)
                                  /\ Effects(eo, NoRedirect, NoMtc0, FALSE)
  BY <1>1, <1>3, <1>4, ExAluSends
<1>6. v \in Word
  BY <1>1, ItypeResultType
<1>7. PlainPc(in, NoRedirect) = Succ(a.pc) /\ Predicted(in) = Succ(a.pc)
  BY <1>1 DEF PlainPc, NoRedirect, Predicted
<1>8. CASE ItypeOverflows(a, d)
  <2>1. ~(d.opcode \in {"BEQ", "BNE"}) /\ ItypeResult(a, d).overflow /\ d.opcode = "ADDI"
    BY <1>8 DEF ItypeOverflows
  <2>2. o = raise(a, Ov, 0)
    BY <1>1, <1>2, <1>3, <2>1 DEF exec_itype, ItypeResult, Loads
  <2> QED BY <1>5, <1>8, <2>2, ExTrapCommits DEF ExceptionCode
<1>9. CASE d.opcode \in Loads
  <2>1. ~ItypeOverflows(a, d) /\ d.opcode # "SW"
    BY <1>9 DEF Loads, ItypeOverflows
  <2>2. o = exec_load(a, d, v)
    BY <1>1, <1>9, ItypeReaches
  <2>3. /\ ~load_ok(d.opcode, v) =>
             Reaches(o, "Exception", kExceptionVector, a.regs, a.mem,
                     cp0_raise(a.cp0, AdEL, a.pc, v))
        /\ load_ok(d.opcode, v) =>
             Reaches(o, "Ok", Succ(a.pc),
                     reg_write(a.regs, d.rt, load_data(a.mem, d.opcode, v)), a.mem, a.cp0)
    BY <1>1, <1>6, <2>2, LoadReaches
  <2>4. Sends(eo, in, ops.b, rw, v, d.rt) /\ Effects(eo, NoRedirect, NoMtc0, FALSE)
    BY <1>5, <2>1
  <2>5. /\ in.ctrl.mem_read /\ ~in.ctrl.mem_write /\ in.ctrl.mem_to_reg /\ rw = TRUE
    BY <1>2, <1>9, <2>1
  <2> HIDE DEF eo, o, rw, v
  <2>6. CASE load_ok(d.opcode, v)
    <3>1. Commits(a, in, eo, o)
      BY <1>1, <1>7, <2>3, <2>4, <2>5, <2>6, LoadCommits
    <3> QED BY <3>1 DEF eo, o
  <2>7. CASE ~load_ok(d.opcode, v)
    <3>1. mem_traps(eo.next)
      BY <2>4, <2>5, <2>7 DEF Sends, mem_traps
    <3>2. Reaches(o, "Exception", kExceptionVector, a.regs, a.mem,
                  cp0_raise(a.cp0, IF in.ctrl.mem_read THEN AdEL ELSE AdES, a.pc, v))
      BY <2>3, <2>5, <2>7
    <3>3. Commits(a, in, eo, o)
      BY <1>1, <2>4, <3>1, <3>2, MemTrapCommits
    <3> QED BY <3>3 DEF eo, o
  <2> QED BY <2>6, <2>7
<1>10. CASE d.opcode = "SW"
  <2>1. ~ItypeOverflows(a, d) /\ d.opcode \notin Loads
    BY <1>10 DEF Loads, ItypeOverflows
  <2>2. o = exec_store(a, d, v)
    BY <1>1, <1>10, ItypeReaches
  <2>3. ops.b = reg_read(a.regs, d.rt)
    BY <1>10 DEF Ready, source_registers
  <2>4. /\ ~store_ok(d.opcode, v) =>
             Reaches(o, "Exception", kExceptionVector, a.regs, a.mem,
                     cp0_raise(a.cp0, AdES, a.pc, v))
        /\ store_ok(d.opcode, v) =>
             Reaches(o, "Ok", Succ(a.pc), a.regs, write_word(a.mem, v, ops.b), a.cp0)
    BY <1>1, <1>6, <2>2, <2>3, StoreReaches
  <2>5. Sends(eo, in, ops.b, rw, v, d.rt) /\ Effects(eo, NoRedirect, NoMtc0, FALSE)
    BY <1>5, <2>1
  <2>6. ~in.ctrl.mem_read /\ in.ctrl.mem_write /\ rw = FALSE
    BY <1>2, <1>10, <2>1
  <2> HIDE DEF eo, o, rw, v
  <2>7. CASE store_ok(d.opcode, v)
    <3>1. Commits(a, in, eo, o)
      BY <1>1, <1>7, <2>4, <2>5, <2>6, <2>7, StoreCommits
    <3> QED BY <3>1 DEF eo, o
  <2>8. CASE ~store_ok(d.opcode, v)
    <3>1. mem_traps(eo.next)
      BY <2>5, <2>6, <2>8 DEF Sends, mem_traps
    <3>2. Reaches(o, "Exception", kExceptionVector, a.regs, a.mem,
                  cp0_raise(a.cp0, IF in.ctrl.mem_read THEN AdEL ELSE AdES, a.pc, v))
      BY <2>4, <2>6, <2>8
    <3>3. Commits(a, in, eo, o)
      BY <1>1, <2>5, <3>1, <3>2, MemTrapCommits
    <3> QED BY <3>3 DEF eo, o
  <2> QED BY <2>7, <2>8
<1>11. CASE ~ItypeOverflows(a, d) /\ d.opcode \notin Loads \cup {"SW"}
  <2>1. Reaches(o, "Ok", Succ(a.pc), reg_write(a.regs, d.rt, v), a.mem, a.cp0)
    BY <1>1, <1>11, ItypeReaches
  <2>2. PlainRegs(a.regs, rw, v, d.rt) = reg_write(a.regs, d.rt, v)
    BY <1>2, <1>11 DEF PlainRegs
  <2>3. PlainCp0(a.cp0, NoMtc0, FALSE) = a.cp0
    BY DEF PlainCp0, NoMtc0
  <2>4. ~in.ctrl.mem_read /\ ~in.ctrl.mem_write /\ ~in.ctrl.mem_to_reg
    BY <1>2, <1>11
  <2> HIDE DEF eo, o, rw, v
  <2>5. Reaches(o, "Ok", PlainPc(in, NoRedirect), PlainRegs(a.regs, rw, v, d.rt), a.mem,
                PlainCp0(a.cp0, NoMtc0, FALSE))
    BY <1>7, <2>1, <2>2, <2>3
  <2>6. Commits(a, in, eo, o)
    BY <1>1, <1>5, <1>11, <2>4, <2>5, PlainCommits
  <2> QED BY <2>6 DEF eo, o
<1> QED BY <1>8, <1>9, <1>10, <1>11

(* For every instruction, EX, MEM and WB together do what the oracle does. *)
LEMMA InstrCommits ==
  ASSUME NEW a, NEW in, NEW ops, Ready(a, in, ops)
  PROVE  Commits(a, in, ex_instr(in, ops, a.cp0), exec_instr(a, in.decoded))
<1> DEFINE d == in.decoded
<1>1. /\ d.format \in {"R", "I", "J"}
      /\ d.format = "R" => /\ d.opcode \in {"SPECIAL", "COP0"}
                           /\ d.opcode = "SPECIAL" => d.funct \in SpecialFuncts
      /\ d.format = "I" => d.opcode \in IOpcodes
      /\ d.format = "J" => d.opcode \in {"J", "JAL"}
  BY ReadyParts
<1>2. CASE d.format = "J"
  <2>1. ex_instr(in, ops, a.cp0) = ex_jump(in, ops) /\ exec_instr(a, d) = exec_jtype(a, d)
    BY <1>1, <1>2 DEF ex_instr, exec_instr
  <2> QED BY <1>2, <2>1, JumpCommits
<1>3. CASE d.format = "I" /\ d.opcode \in {"BEQ", "BNE"}
  <2>1. ex_instr(in, ops, a.cp0) = ex_branch(in, ops) /\ exec_instr(a, d) = exec_branch(a, d)
    BY <1>3 DEF ex_instr, exec_instr, exec_itype
  <2> QED BY <1>3, <2>1, BranchCommits
<1>4. CASE d.format = "R" /\ d.opcode = "COP0"
  <2>1. /\ ex_instr(in, ops, a.cp0) = ex_cop0(in, ops, a.cp0)
        /\ exec_instr(a, d) = exec_cop0(a, d)
    BY <1>4 DEF ex_instr, exec_instr, exec_rtype
  <2> QED BY <1>4, <2>1, Cop0Commits
<1>5. CASE d.format = "R" /\ d.opcode = "SPECIAL" /\ d.funct \in {"JR", "JALR"}
  <2>1. /\ ex_instr(in, ops, a.cp0) = ex_register_jump(in, ops)
        /\ exec_instr(a, d) = exec_rtype(a, d)
    BY <1>5 DEF ex_instr, exec_instr
  <2> QED BY <1>5, <2>1, RegisterJumpCommits
<1>6. CASE d.format = "R" /\ d.opcode = "SPECIAL" /\ d.funct = "SYSCALL"
  <2>1. /\ ex_instr(in, ops, a.cp0) = ex_traps(in, ops, Sys)
        /\ exec_instr(a, d) = raise(a, Sys, 0)
    BY <1>6 DEF ex_instr, exec_instr, exec_rtype
  <2> QED BY <2>1, ExTrapCommits DEF ExceptionCode
<1>7. CASE d.format = "R" /\ d.opcode = "SPECIAL" /\ d.funct = "BREAK"
  <2>1. /\ ex_instr(in, ops, a.cp0) = ex_traps(in, ops, Bp)
        /\ exec_instr(a, d) = raise(a, Bp, 0)
    BY <1>7 DEF ex_instr, exec_instr, exec_rtype
  <2> QED BY <2>1, ExTrapCommits DEF ExceptionCode
<1>8. CASE d.format = "R" /\ d.opcode = "SPECIAL"
             /\ d.funct \notin {"JR", "JALR", "SYSCALL", "BREAK"}
  <2>1. ex_instr(in, ops, a.cp0) = ex_alu(in, ops)
    BY <1>8 DEF ex_instr
  <2>2. exec_instr(a, d) = exec_alu_rtype(a, d)
    BY <1>8 DEF exec_instr, exec_rtype
  <2> QED BY <1>8, <2>1, <2>2, AluRtypeCommits
<1>9. CASE d.format = "I" /\ d.opcode \notin {"BEQ", "BNE"}
  <2>1. d.opcode \notin {"SPECIAL", "COP0"}
    BY <1>1, <1>9 DEF IOpcodes
  <2>2. ex_instr(in, ops, a.cp0) = ex_alu(in, ops) /\ exec_instr(a, d) = exec_itype(a, d)
    BY <1>9, <2>1 DEF ex_instr, exec_instr
  <2> QED BY <1>9, <2>2, ItypeCommits
<1> QED BY <1>1, <1>2, <1>3, <1>4, <1>5, <1>6, <1>7, <1>8, <1>9

-----------------------------------------------------------------------------
(* The inductive invariant *)

(* w, at address p, is the halt idiom: a jump to its own address. *)
SelfJump(w, p) ==
  Fields[w].opcode \in {"J", "JAL"} /\ jump_target(Succ(p), Fields[w]) = p

(* IF/ID holds what fetch() returned for its PC, and the next PC is the    *)
(* address behind it.                                                      *)
FetchedRight ==
  if_id.valid =>
    /\ if_id.pc4 = Succ(if_id.pc)
    /\ if_id.fetch_fault <=> ~word_ok(if_id.pc)
    /\ if_id.is_halt <=> (word_ok(if_id.pc) /\ SelfJump(if_id.instr, if_id.pc))
    /\ pc = if_id.pc4

(* ID/EX holds what the decoder and the control unit make of its word, and *)
(* the registers as WB left them in the cycle that decoded it.             *)
DecodedRight ==
  id_ex.valid =>
    /\ id_ex.pc4 = Succ(id_ex.pc)
    /\ id_ex.early_trap = AdEL <=> ~word_ok(id_ex.pc)
    /\ id_ex.early_trap = RI <=> (word_ok(id_ex.pc) /\ ~decodes(id_ex.decoded.raw))
    /\ id_ex.early_trap = NoCode =>
         /\ id_ex.decoded = decode(id_ex.decoded.raw)
         /\ id_ex.ctrl = derive_control(id_ex.decoded)
         /\ id_ex.rs = id_ex.decoded.rs /\ id_ex.rt = id_ex.decoded.rt
         /\ id_ex.is_halt <=> SelfJump(id_ex.decoded.raw, id_ex.pc)
         /\ id_ex.rs_val = reg_read(regs, id_ex.rs)
         /\ id_ex.rt_val = reg_read(regs, id_ex.rt)

(* What the front of the pipeline holds behind the instruction in ID/EX is *)
(* what follows it when EX does not redirect.                              *)
FollowsPrediction ==
  id_ex.valid => (IF if_id.valid THEN if_id.pc ELSE pc) = Predicted(id_ex)

(* The control signals of an instruction that has left EX are those of its *)
(* word, and the register it writes is the one its word names.             *)
WritesAsShown(in) ==
  LET named == destination_register(decode(in.raw)) IN
  IF in.ctrl.reg_write THEN named = in.write_reg ELSE named = -1
LeftExRight ==
  /\ ex_mem.valid => WritesAsShown(ex_mem)
  /\ ex_mem.valid => (ex_mem.ctrl.mem_to_reg <=> ex_mem.ctrl.mem_read)
  /\ mem_wb.valid => WritesAsShown(mem_wb)

(* No load is in MEM when EX reads the register it is to write. *)
NoLoadUse ==
  id_ex.valid /\ id_ex.early_trap = NoCode /\ ex_mem.valid /\ ex_mem.ctrl.mem_read =>
    ex_mem.write_reg = 0 \/ ex_mem.write_reg \notin source_registers(id_ex.decoded)

(* reset() empties the pipeline. *)
EmptyAfterReset ==
  op = "reset" => ~if_id.valid /\ ~id_ex.valid /\ ~ex_mem.valid /\ ~mem_wb.valid

PipeInv ==
  /\ FetchedRight
  /\ DecodedRight
  /\ FollowsPrediction
  /\ LeftExRight
  /\ NoLoadUse
  /\ EmptyAfterReset

(* In a program that does not rewrite instructions in flight, the words    *)
(* that IF and ID hold are the words in memory.                            *)
WordsAreCurrent ==
  /\ if_id.valid /\ word_ok(if_id.pc) => if_id.instr = read_word(AbsMem, if_id.pc)
  /\ id_ex.valid /\ word_ok(id_ex.pc) => id_ex.decoded.raw = read_word(AbsMem, id_ex.pc)

(* The architecture has stopped: the next instruction is the halt idiom,   *)
(* and its link register, if any, is written already.                      *)
Stopped ==
  /\ ~mem_traps(ex_mem)
  /\ word_ok(AbsPc)
  /\ SelfJump(read_word(AbsMem, AbsPc), AbsPc)
  /\ Fields[read_word(AbsMem, AbsPc)].opcode = "JAL" => AbsRegs[kRa] = Succ(AbsPc)

HaltInFlight == (ex_mem.valid /\ ex_mem.is_halt) \/ (mem_wb.valid /\ mem_wb.is_halt)
HaltInv ==
  /\ HaltInFlight \/ (op = "step" /\ result = "Halt") => Stopped
  /\ mem_wb.valid /\ mem_wb.is_halt => write_back(regs, mem_wb) = AbsRegs
  /\ op = "step" /\ result = "Halt" => regs = AbsRegs /\ mem = AbsMem /\ cp0 = AbsCp0
  /\ op = "step" /\ result = "Exception" => ~(mem_wb.valid /\ mem_wb.is_halt)

CommitInv == PipeInv /\ WordsAreCurrent /\ HaltInv

-----------------------------------------------------------------------------
(* One cycle *)

(* The outcomes of the stages in the current cycle. *)
Mo    == memory_access(mem, ex_mem)
Eo    == ex_outcome(Mo)
Flush == ex_flushes(Mo, Eo)
Stall == load_use_hazard(id_ex, if_id)
Io    == id_outcome(Flush, Stall)
Tr    == cycle_trap(Mo, Eo)

LEMMA StepParts ==
  ASSUME Step
  PROVE  /\ op' = "step"
         /\ regs' = write_back(regs, mem_wb)
         /\ mem' = Mo.mem
         /\ cp0' = next_cp0(Tr, Eo)
         /\ mem_wb' = Mo.next
         /\ ex_mem' = Eo.next
         /\ id_ex' = next_id_ex(Flush, Io, Stall)
         /\ if_id' = next_if_id(Flush, Io, Stall, Mo.mem)
         /\ pc' = next_pc(Tr, Eo, Io, Stall)
         /\ ps' = next_ps(Flush, Eo, Io, Stall, next_if_id(Flush, Io, Stall, Mo.mem))
         /\ result' = step_result(Tr)
BY DEF Step, Mo, Eo, Flush, Stall, Io, Tr

LEMMA CycleParts ==
  ASSUME TypeOK
  PROVE  /\ Mo \in MemOutcome /\ Mo.trap = mem_trap(ex_mem)
         /\ Mo.trap.raised <=> mem_traps(ex_mem)
         /\ Eo \in ExOutcome /\ (Eo.trap.raised => Eo.next = ExMemBubble)
         /\ mem_traps(ex_mem) => Eo = NoExOutcome
         /\ ~mem_traps(ex_mem) => Eo = execute(id_ex, ex_mem, mem_wb, cp0)
         /\ Tr = IF mem_traps(ex_mem) THEN Mo.trap ELSE Eo.trap
         /\ Flush <=> mem_traps(ex_mem) \/ Eo.trap.raised \/ Eo.redirect.taken
         /\ Io \in IdOutcome
<1>1. /\ Mo \in MemOutcome /\ SafeExOutcome(Eo) /\ Io \in IdOutcome
  BY CycleType DEF Mo, Eo, Flush, Stall, Io
<1>2. Mo.trap = mem_trap(ex_mem)
  BY DEF Mo, memory_access
<1>3. Mo.trap.raised <=> mem_traps(ex_mem)
  BY <1>2 DEF mem_trap, Trap, NoTrap
<1>4. Eo \in ExOutcome /\ (Eo.trap.raised => Eo.next = ExMemBubble)
  BY <1>1 DEF SafeExOutcome
<1>5. /\ mem_traps(ex_mem) => Eo = NoExOutcome
      /\ ~mem_traps(ex_mem) => Eo = execute(id_ex, ex_mem, mem_wb, cp0)
  BY <1>3 DEF Eo, ex_outcome
<1>6. Tr = IF mem_traps(ex_mem) THEN Mo.trap ELSE Eo.trap
  BY <1>3 DEF Tr, cycle_trap
<1>7. Flush <=> mem_traps(ex_mem) \/ Eo.trap.raised \/ Eo.redirect.taken
  BY <1>3 DEF Flush, ex_flushes
<1> QED BY <1>1, <1>2, <1>3, <1>4, <1>5, <1>6, <1>7

(* The architectural state is well typed, and its parts. *)
LEMMA AbsParts ==
  ASSUME TypeOK
  PROVE  /\ AbsArch \in ArchState
         /\ AbsArch.pc = AbsPc /\ AbsArch.regs = AbsRegs
         /\ AbsArch.mem = AbsMem /\ AbsArch.cp0 = AbsCp0
<1>1. /\ pc \in Word /\ regs \in RegisterFile /\ cp0 \in Cp0
      /\ if_id \in IfId /\ id_ex \in IdEx /\ ex_mem \in ExMem /\ mem_wb \in MemWb
  BY DEF TypeOK
<1>2. Mo \in MemOutcome /\ Mo.trap = mem_trap(ex_mem)
  BY CycleParts
<1>3. AbsPc \in Word
  BY <1>1, SizeAssumption DEF AbsPc, IfId, IdEx
<1>4. AbsMem \in Memory
  BY <1>2 DEF AbsMem, MemOutcome, Mo
<1>5. AbsRegs \in RegisterFile
  <2>1. Mo.next \in MemWb
    BY <1>2 DEF MemOutcome
  <2>2. write_back(regs, mem_wb) \in RegisterFile
    BY <1>1, WriteBackType
  <2>3. write_back(write_back(regs, mem_wb), Mo.next) \in RegisterFile
    BY <2>1, <2>2, WriteBackType
  <2> QED BY <2>3 DEF AbsRegs, Mo
<1>6. AbsCp0 \in Cp0
  <2>1. mem_trap(ex_mem) \in TrapType
    BY <1>1, MemTrapType
  <2>2. /\ mem_trap(ex_mem).code \in ExceptionCode /\ mem_trap(ex_mem).pc \in Word
        /\ mem_trap(ex_mem).bad_addr \in Word
    BY <2>1 DEF TrapType
  <2> QED BY <1>1, <2>2, Cp0RaiseType DEF AbsCp0
<1>7. /\ AbsArch.pc = AbsPc /\ AbsArch.regs = AbsRegs
      /\ AbsArch.mem = AbsMem /\ AbsArch.cp0 = AbsCp0
  BY DEF AbsArch
<1>8. AbsArch \in ArchState
  BY <1>3, <1>4, <1>5, <1>6 DEF AbsArch, ArchState
<1> QED BY <1>7, <1>8

-----------------------------------------------------------------------------
(* Operands *)

(* A register file reads back what WB writes to it, except in $zero. *)
LEMMA WriteBackReads ==
  ASSUME NEW r \in RegisterFile, NEW mw \in MemWb, NEW i \in RegIdx
  PROVE  reg_read(write_back(r, mw), i) =
           IF forwards_mem_wb(mw, i) THEN wb_value(mw) ELSE reg_read(r, i)
<1>1. mw.write_reg \in RegIdx
  BY DEF MemWb
<1> DEFINE v == wb_value(mw)
<1> HIDE DEF v
<1>2. write_back(r, mw) = IF mw.valid /\ mw.ctrl.reg_write THEN reg_write(r, mw.write_reg, v)
                          ELSE r
  BY DEF write_back, v
<1>3. reg_read(reg_write(r, mw.write_reg, v), i) =
        IF mw.write_reg # 0 /\ mw.write_reg = i THEN v ELSE reg_read(r, i)
  BY <1>1 DEF reg_read, reg_write, RegisterFile
<1> QED BY <1>2, <1>3 DEF forwards_mem_wb, v

(* What forwarding makes of a register that ID read and no load in MEM is  *)
(* about to write.                                                         *)
LEMMA ForwardMatches ==
  ASSUME TypeOK, LeftExRight, ~mem_traps(ex_mem), NEW i \in RegIdx, NEW read,
         read = reg_read(regs, i),
         ex_mem.valid /\ ex_mem.ctrl.mem_read => ex_mem.write_reg = 0 \/ ex_mem.write_reg # i
  PROVE  forward(i, read, ex_mem, mem_wb) = reg_read(AbsRegs, i)
<1>1. regs \in RegisterFile /\ mem_wb \in MemWb /\ ex_mem \in ExMem
  BY DEF TypeOK
<1>2. Mo.next \in MemWb
  BY CycleParts DEF MemOutcome
<1> DEFINE r1 == write_back(regs, mem_wb)
<1>3. r1 \in RegisterFile
  BY <1>1, WriteBackType
<1>4. reg_read(r1, i) = IF forwards_mem_wb(mem_wb, i) THEN wb_value(mem_wb) ELSE read
  BY <1>1, WriteBackReads
<1>5. AbsRegs = write_back(r1, Mo.next)
  BY DEF AbsRegs, Mo
<1> HIDE DEF r1
<1>6. reg_read(AbsRegs, i) =
        IF forwards_mem_wb(Mo.next, i) THEN wb_value(Mo.next) ELSE reg_read(r1, i)
  BY <1>2, <1>3, <1>5, WriteBackReads
<1>7. CASE ~ex_mem.valid
  <2>1. Mo.next = MemWbBubble
    BY <1>7 DEF Mo, memory_access
  <2>2. ~forwards_mem_wb(Mo.next, i)
    BY <2>1 DEF forwards_mem_wb, MemWbBubble
  <2>3. ~forwards_ex_mem(ex_mem, i)
    BY <1>7 DEF forwards_ex_mem
  <2> QED BY <1>4, <1>6, <2>2, <2>3 DEF forward
<1>8. CASE ex_mem.valid
  <2>1. ex_mem.valid = TRUE
    BY <1>1, <1>8 DEF ExMem
  <2>2. HandsOn(mem, ex_mem, Mo)
    BY <2>1, MemPasses DEF Mo
  <2>3. /\ Mo.next.valid = TRUE /\ Mo.next.ctrl = ex_mem.ctrl
        /\ Mo.next.alu_val = ex_mem.value /\ Mo.next.write_reg = ex_mem.write_reg
    BY <2>2 DEF HandsOn
  <2>4. ex_mem.ctrl.mem_to_reg <=> ex_mem.ctrl.mem_read
    BY <1>8 DEF LeftExRight
  <2>5. forwards_mem_wb(Mo.next, i) <=> forwards_ex_mem(ex_mem, i)
    BY <1>8, <2>3 DEF forwards_mem_wb, forwards_ex_mem
  <2>6. forwards_ex_mem(ex_mem, i) => wb_value(Mo.next) = ex_mem.value
    BY <2>3, <2>4 DEF forwards_ex_mem, wb_value
  <2> QED BY <1>4, <1>6, <2>5, <2>6 DEF forward
<1> QED BY <1>7, <1>8

LEMMA OperandsMatch ==
  ASSUME TypeOK, PipeInv
  PROVE  OperandsAreArchitectural
<1> DEFINE ops == forward_operands(id_ex, ex_mem, mem_wb)
           src == source_registers(id_ex.decoded)
<1> SUFFICES ASSUME id_ex.valid, id_ex.early_trap = NoCode, ~mem_traps(ex_mem)
             PROVE  /\ id_ex.rs \in src => ops.a = reg_read(AbsRegs, id_ex.rs)
                    /\ id_ex.rt \in src => ops.b = reg_read(AbsRegs, id_ex.rt)
  BY DEF OperandsAreArchitectural
<1>1. /\ id_ex.rs_val = reg_read(regs, id_ex.rs) /\ id_ex.rt_val = reg_read(regs, id_ex.rt)
      /\ LeftExRight
      /\ ex_mem.valid /\ ex_mem.ctrl.mem_read =>
           ex_mem.write_reg = 0 \/ ex_mem.write_reg \notin src
  BY DEF PipeInv, DecodedRight, NoLoadUse
<1>2. id_ex.rs \in RegIdx /\ id_ex.rt \in RegIdx
  BY DEF TypeOK, IdEx
<1>3. /\ ops.a = forward(id_ex.rs, id_ex.rs_val, ex_mem, mem_wb)
      /\ ops.b = forward(id_ex.rt, id_ex.rt_val, ex_mem, mem_wb)
  BY DEF forward_operands
<1> HIDE DEF ops, src
<1>4. id_ex.rs \in src => ops.a = reg_read(AbsRegs, id_ex.rs)
  BY <1>1, <1>2, <1>3, ForwardMatches
<1>5. id_ex.rt \in src => ops.b = reg_read(AbsRegs, id_ex.rt)
  BY <1>1, <1>2, <1>3, ForwardMatches
<1> QED BY <1>4, <1>5

-----------------------------------------------------------------------------
(* What leaves EX *)

(* An instruction that has been decoded, whatever its operands are. *)
Shaped(in) ==
  /\ in \in IdEx /\ in.early_trap = NoCode
  /\ decodes(in.decoded.raw) /\ in.decoded = decode(in.decoded.raw)
  /\ in.ctrl = derive_control(in.decoded)
  /\ in.rt = in.decoded.rt

LEMMA ShapedParts ==
  ASSUME NEW in, Shaped(in)
  PROVE  LET d == in.decoded IN
         /\ d \in DecodedInstr /\ d.raw \in Word /\ d.opcode = Fields[d.raw].opcode
         /\ d.format = format_of(d.opcode) /\ d.format \in {"R", "I", "J"}
         /\ d.format = "R" => /\ d.opcode \in {"SPECIAL", "COP0"}
                              /\ d.opcode = "SPECIAL" => d.funct \in SpecialFuncts
         /\ d.format = "I" => d.opcode \in IOpcodes /\ d.funct = "none" /\ d.shamt = 0
         /\ d.format = "J" => d.opcode \in {"J", "JAL"} /\ d.target = Fields[d.raw].target
<1>1. in.decoded \in DecodedInstr
  BY DEF Shaped, IdEx
<1>2. decodes(in.decoded.raw) /\ in.decoded = decode(in.decoded.raw)
  BY DEF Shaped
<1> QED BY <1>1, <1>2, FaithfulParts

(* EX/MEM is as LeftExRight wants it, a load writes its rt, and the PC and *)
(* the halt mark go along.                                                 *)
LeavesRight(in, n) ==
  /\ n.pc = in.pc /\ n.is_halt = in.is_halt
  /\ WritesAsShown(n)
  /\ n.ctrl.mem_to_reg <=> n.ctrl.mem_read
  /\ n.ctrl.mem_read => in.ctrl.mem_read /\ n.write_reg = in.rt

LEMMA SentRight ==
  ASSUME NEW in, Shaped(in), NEW eo, NEW b, NEW rw, NEW v, NEW wr,
         Sends(eo, in, b, rw, v, wr),
         IF rw THEN destination_register(in.decoded) = wr
         ELSE destination_register(in.decoded) = -1,
         in.ctrl.mem_to_reg <=> in.ctrl.mem_read,
         in.ctrl.mem_read => wr = in.decoded.rt
  PROVE  LeavesRight(in, eo.next)
<1>1. eo.next.raw = in.decoded.raw /\ in.decoded = decode(in.decoded.raw)
  BY DEF Sends, Shaped
<1>2. decode(eo.next.raw) = in.decoded
  BY <1>1
<1>3. /\ eo.next.ctrl.reg_write = rw /\ eo.next.write_reg = wr
      /\ eo.next.ctrl.mem_read = in.ctrl.mem_read
      /\ eo.next.ctrl.mem_to_reg = in.ctrl.mem_to_reg /\ in.rt = in.decoded.rt
      /\ eo.next.is_halt = in.is_halt /\ eo.next.pc = in.pc
  BY DEF Sends, Shaped
<1> QED BY <1>2, <1>3 DEF LeavesRight, WritesAsShown

(* destination_register agrees with the control unit and with EX, for      *)
(* every instruction that goes on to MEM.                                  *)
LEMMA InstrLeavesRight ==
  ASSUME NEW in, Shaped(in), NEW ops \in OperandsType, NEW c \in Cp0,
         ex_instr(in, ops, c).next.valid
  PROVE  LeavesRight(in, ex_instr(in, ops, c).next)
<1> DEFINE d  == in.decoded
           eo == ex_instr(in, ops, c)
           rw == in.ctrl.reg_write
<1>1. /\ in \in IdEx /\ in.ctrl = derive_control(d) /\ d \in DecodedInstr
      /\ d.format \in {"R", "I", "J"}
      /\ d.format = "R" => /\ d.opcode \in {"SPECIAL", "COP0"}
                           /\ d.opcode = "SPECIAL" => d.funct \in SpecialFuncts
      /\ d.format = "I" => d.opcode \in IOpcodes
      /\ d.format = "J" => d.opcode \in {"J", "JAL"}
  BY ShapedParts DEF Shaped
<1>2. ASSUME NEW code PROVE ~ex_traps(in, ops, code).next.valid
  BY DEF ex_traps, NoExOutcome, ExMemBubble
<1>3. CASE d.format = "J"
  <2>1. eo = ex_jump(in, ops)
    BY <1>1, <1>3 DEF ex_instr
  <2>2. /\ ~in.ctrl.mem_read /\ ~in.ctrl.mem_to_reg /\ (rw <=> d.opcode = "JAL")
    BY <1>1, <1>3, JtypeControl
  <2> DEFINE wr == IF d.opcode = "JAL" THEN kRa ELSE 0
             v  == IF d.opcode = "JAL" THEN in.pc4 ELSE 0
  <2>3. Sends(eo, in, ops.b, rw, v, wr)
    BY <1>1, <2>1, ExJumpSends
  <2>4. IF rw THEN destination_register(d) = wr ELSE destination_register(d) = -1
    BY <1>1, <1>3, <2>2 DEF destination_register
  <2> HIDE DEF eo, wr, v, rw
  <2>5. LeavesRight(in, eo.next)
    BY <2>2, <2>3, <2>4, SentRight
  <2> QED BY <2>5 DEF eo
<1>4. CASE d.format = "I" /\ d.opcode \in {"BEQ", "BNE"}
  <2>1. eo = ex_branch(in, ops)
    BY <1>4 DEF ex_instr
  <2>2. ~in.ctrl.mem_read /\ ~in.ctrl.mem_to_reg /\ ~rw
    BY <1>1, <1>4, ItypeControl DEF Loads
  <2>3. Sends(eo, in, ops.b, rw, 0, 0)
    BY <1>1, <2>1, ExBranchSends
  <2>4. IF rw THEN destination_register(d) = 0 ELSE destination_register(d) = -1
    BY <1>1, <1>4, <2>2 DEF destination_register
  <2> HIDE DEF eo, rw
  <2>5. LeavesRight(in, eo.next)
    BY <2>2, <2>3, <2>4, SentRight
  <2> QED BY <2>5 DEF eo
<1>5. CASE d.format = "R" /\ d.opcode = "COP0"
  <2>1. eo = ex_cop0(in, ops, c)
    BY <1>5 DEF ex_instr
  <2>2. ~in.ctrl.mem_read /\ ~in.ctrl.mem_to_reg /\ ~rw
    BY <1>1, <1>5, RtypeControl
  <2>3. /\ d.rs = 0 => Sends(eo, in, ops.b, TRUE, cp0_read(c, d.rd), d.rt)
        /\ d.rs # 0 => Sends(eo, in, ops.b, rw, 0, 0)
    BY <1>1, <2>1, ExCop0Sends
  <2>4. /\ d.rs = 0 => destination_register(d) = d.rt
        /\ d.rs # 0 => destination_register(d) = -1
    BY <1>5 DEF destination_register
  <2> HIDE DEF eo, rw
  <2>5. d.rs = 0 => LeavesRight(in, eo.next)
    BY <2>2, <2>3, <2>4, SentRight
  <2>6. d.rs # 0 => LeavesRight(in, eo.next)
    BY <2>2, <2>3, <2>4, SentRight
  <2> QED BY <2>5, <2>6 DEF eo
<1>6. CASE d.format = "R" /\ d.opcode = "SPECIAL" /\ d.funct \in {"JR", "JALR"}
  <2>1. eo = ex_register_jump(in, ops)
    BY <1>6 DEF ex_instr
  <2>2. ~in.ctrl.mem_read /\ ~in.ctrl.mem_to_reg /\ (rw <=> d.funct = "JALR")
    BY <1>1, <1>6, RtypeControl
  <2> DEFINE wr == IF d.funct = "JALR" THEN d.rd ELSE 0
             v  == IF d.funct = "JALR" THEN in.pc4 ELSE 0
  <2>3. Sends(eo, in, ops.b, rw, v, wr)
    BY <1>1, <2>1, ExRegisterJumpSends
  <2>4. IF rw THEN destination_register(d) = wr ELSE destination_register(d) = -1
    BY <1>1, <1>6, <2>2 DEF destination_register
  <2> HIDE DEF eo, wr, v, rw
  <2>5. LeavesRight(in, eo.next)
    BY <2>2, <2>3, <2>4, SentRight
  <2> QED BY <2>5 DEF eo
<1>7. CASE d.format = "R" /\ d.opcode = "SPECIAL" /\ d.funct \in {"SYSCALL", "BREAK"}
  <2>1. eo = ex_traps(in, ops, Sys) \/ eo = ex_traps(in, ops, Bp)
    BY <1>7 DEF ex_instr
  <2> QED BY <1>2, <2>1
<1>8. CASE d.format = "R" /\ d.opcode = "SPECIAL"
             /\ d.funct \notin {"JR", "JALR", "SYSCALL", "BREAK"}
  <2>1. eo = ex_alu(in, ops)
    BY <1>8 DEF ex_instr
  <2>2. ~in.ctrl.mem_read /\ ~in.ctrl.mem_to_reg /\ rw /\ in.ctrl.reg_dst
    BY <1>1, <1>8, RtypeControl
  <2>3. alu_control(d) # "none"
    BY <1>1, <1>8, AluControlled
  <2>4. ~ExOverflows(in, ops)
    BY <1>1, <1>2, <2>1, <2>3, ExAluSends
  <2>5. ExDest(in) = d.rd
    BY <1>8, <2>2 DEF ExDest
  <2> DEFINE v == ExResult(in, ops).value
  <2>6. Sends(eo, in, ops.b, rw, v, d.rd)
    BY <1>1, <2>1, <2>3, <2>4, <2>5, ExAluSends
  <2>7. destination_register(d) = d.rd
    BY <1>1, <1>8, <2>2 DEF destination_register
  <2> HIDE DEF eo, v, rw
  <2>8. LeavesRight(in, eo.next)
    BY <2>2, <2>6, <2>7, SentRight
  <2> QED BY <2>8 DEF eo
<1>9. CASE d.format = "I" /\ d.opcode \notin {"BEQ", "BNE"}
  <2>1. d.opcode \notin {"SPECIAL", "COP0", "J", "JAL"}
    BY <1>1, <1>9 DEF IOpcodes
  <2>2. eo = ex_alu(in, ops)
    BY <1>9, <2>1 DEF ex_instr
  <2>3. /\ in.ctrl.mem_to_reg <=> in.ctrl.mem_read
        /\ ~in.ctrl.reg_dst /\ (rw <=> d.opcode # "SW")
    <3> DEFINE k == derive_control(d)
    <3>1. /\ k.mem_read <=> d.opcode \in Loads
          /\ k.mem_to_reg <=> d.opcode \in Loads
          /\ k.reg_write <=> d.opcode \notin {"SW", "BEQ", "BNE"}
          /\ k.reg_dst = FALSE
      BY <1>9, ItypeControl
    <3> HIDE DEF k
    <3>2. in.ctrl = k
      BY <1>1 DEF k
    <3> QED BY <1>9, <3>1, <3>2
  <2>4. alu_control(d) # "none"
    BY <1>1, <1>9, AluControlled
  <2>5. ~ExOverflows(in, ops)
    BY <1>1, <1>2, <2>2, <2>4, ExAluSends
  <2>6. ExDest(in) = d.rt
    BY <1>9, <2>3 DEF ExDest
  <2> DEFINE v == ExResult(in, ops).value
  <2>7. Sends(eo, in, ops.b, rw, v, d.rt)
    BY <1>1, <2>2, <2>4, <2>5, <2>6, ExAluSends
  <2>8. IF rw THEN destination_register(d) = d.rt ELSE destination_register(d) = -1
    BY <1>1, <1>9, <2>1, <2>3 DEF destination_register
  <2> HIDE DEF eo, v, rw
  <2>9. LeavesRight(in, eo.next)
    BY <2>3, <2>7, <2>8, SentRight
  <2> QED BY <2>9 DEF eo
<1> QED BY <1>1, <1>3, <1>4, <1>5, <1>6, <1>7, <1>8, <1>9

(* The instruction in EX, when it has been decoded. *)
LEMMA DecodedIsShaped ==
  ASSUME TypeOK, DecodedRight, id_ex.valid, id_ex.early_trap = NoCode
  PROVE  Shaped(id_ex)
<1>1. id_ex \in IdEx
  BY DEF TypeOK
<1>2. word_ok(id_ex.pc) /\ decodes(id_ex.decoded.raw)
  <2>1. /\ id_ex.early_trap = AdEL <=> ~word_ok(id_ex.pc)
        /\ id_ex.early_trap = RI <=> (word_ok(id_ex.pc) /\ ~decodes(id_ex.decoded.raw))
    BY DEF DecodedRight
  <2>2. NoCode # AdEL /\ NoCode # RI
    BY DEF NoCode, AdEL, RI
  <2> QED BY <2>1, <2>2
<1> QED BY <1>1, <1>2 DEF Shaped, DecodedRight

(* Nothing but a decoded instruction leaves EX, and it leaves as it should.*)
LEMMA EoLeavesRight ==
  ASSUME TypeOK, DecodedRight, Eo.next.valid
  PROVE  /\ ~mem_traps(ex_mem) /\ id_ex.valid /\ id_ex.early_trap = NoCode
         /\ Shaped(id_ex)
         /\ Eo = ex_instr(id_ex, forward_operands(id_ex, ex_mem, mem_wb), cp0)
         /\ LeavesRight(id_ex, Eo.next)
<1>1. ~NoExOutcome.next.valid /\ ~ex_early_trap(id_ex).next.valid
  BY DEF NoExOutcome, ex_early_trap, ExMemBubble
<1>2. ~mem_traps(ex_mem) /\ Eo = execute(id_ex, ex_mem, mem_wb, cp0)
  BY <1>1, CycleParts
<1>3. /\ id_ex.valid /\ id_ex.early_trap = NoCode
      /\ Eo = ex_instr(id_ex, forward_operands(id_ex, ex_mem, mem_wb), cp0)
  BY <1>1, <1>2 DEF execute
<1>4. Shaped(id_ex)
  BY <1>3, DecodedIsShaped
<1>5. forward_operands(id_ex, ex_mem, mem_wb) \in OperandsType /\ cp0 \in Cp0
  BY ForwardOperandsType DEF TypeOK
<1>6. LeavesRight(id_ex, Eo.next)
  BY <1>3, <1>4, <1>5, InstrLeavesRight
<1> QED BY <1>2, <1>3, <1>4, <1>6

-----------------------------------------------------------------------------
(* IF and ID *)

LEMMA FetchParts ==
  ASSUME NEW m, NEW p
  PROVE  LET n == fetch(m, p) IN
         /\ n.valid = TRUE /\ n.pc = p /\ n.pc4 = Succ(p)
         /\ n.fetch_fault <=> ~word_ok(p)
         /\ n.is_halt <=> (word_ok(p) /\ SelfJump(n.instr, p))
         /\ word_ok(p) => n.instr = read_word(m, p)
<1> DEFINE w == read_word(m, p)
           q == Succ(p)
           h == Fields[w].opcode \in {"J", "JAL"} /\ jump_target(q, Fields[w]) = p
<1>1. h <=> SelfJump(w, p)
  BY DEF SelfJump
<1>2. /\ ~word_ok(p) => fetch(m, p) = [IfIdBubble EXCEPT !.valid = TRUE, !.pc = p, !.pc4 = q,
                                                        !.fetch_fault = TRUE]
      /\ word_ok(p) => fetch(m, p) = [valid |-> TRUE, pc |-> p, pc4 |-> q, instr |-> w,
                                     is_halt |-> h, fetch_fault |-> FALSE]
  BY DEF fetch, Succ
<1> HIDE DEF w, q, h
<1>3. CASE ~word_ok(p)
  BY <1>2, <1>3 DEF IfIdBubble, q
<1>4. CASE word_ok(p)
  <2> DEFINE n == fetch(m, p)
  <2>1. /\ n.valid = TRUE /\ n.pc = p /\ n.pc4 = q /\ n.instr = w /\ n.is_halt = h
        /\ n.fetch_fault = FALSE
    BY <1>2, <1>4
  <2> HIDE DEF n
  <2> QED BY <1>1, <1>4, <2>1 DEF n, w, q
<1> QED BY <1>3, <1>4

LEMMA DecodeStageParts ==
  ASSUME NEW in \in IfId, NEW r \in RegisterFile, in.valid
  PROVE  LET o == decode_stage(in, r)
             n == o.next
             d == decode(in.instr)
         IN  /\ n.valid = TRUE /\ n.pc = in.pc /\ n.pc4 = in.pc4
             /\ in.fetch_fault => n.early_trap = AdEL /\ o.jump = NoRedirect
             /\ ~in.fetch_fault /\ ~decodes(in.instr) =>
                  n.early_trap = RI /\ n.decoded.raw = in.instr /\ o.jump = NoRedirect
             /\ ~in.fetch_fault /\ decodes(in.instr) =>
                  /\ n.early_trap = NoCode /\ n.decoded = d /\ n.ctrl = derive_control(d)
                  /\ n.rs = d.rs /\ n.rt = d.rt /\ n.is_halt = in.is_halt
                  /\ n.rs_val = reg_read(r, d.rs) /\ n.rt_val = reg_read(r, d.rt)
                  /\ o.jump = IF d.format = "J" THEN Redirect(jump_target(in.pc4, d))
                              ELSE NoRedirect
<1> DEFINE d     == decode(in.instr)
           k     == derive_control(d)
           a     == reg_read(r, d.rs)
           b     == reg_read(r, d.rt)
           began == [IdExBubble EXCEPT !.valid = TRUE, !.pc = in.pc, !.pc4 = in.pc4]
           n1    == [began EXCEPT !.early_trap = AdEL]
           n2    == [began EXCEPT !.early_trap = RI, !.decoded.raw = in.instr]
           n3    == [began EXCEPT !.ctrl = k, !.decoded = d, !.rs = d.rs, !.rt = d.rt,
                                  !.rs_val = a, !.rt_val = b, !.is_halt = in.is_halt]
           jp    == IF d.format = "J" THEN Redirect(jump_target(in.pc4, d)) ELSE NoRedirect
           o     == decode_stage(in, r)
<1>1. /\ in.fetch_fault => o = [NoIdOutcome EXCEPT !.next = n1]
      /\ ~in.fetch_fault /\ ~decodes(in.instr) => o = [NoIdOutcome EXCEPT !.next = n2]
      /\ ~in.fetch_fault /\ decodes(in.instr) => o = [next |-> n3, jump |-> jp]
  BY DEF decode_stage
<1>2. /\ began \in IdEx /\ began.valid = TRUE /\ began.pc = in.pc /\ began.pc4 = in.pc4
      /\ began.decoded = NoInstr /\ began.early_trap = NoCode
  BY BubblesType DEF IdEx, IdExBubble, IfId
<1> HIDE DEF d, k, a, b, began
<1>3. n1.valid = TRUE /\ n1.pc = in.pc /\ n1.pc4 = in.pc4 /\ n1.early_trap = AdEL
  BY <1>2 DEF IdEx
<1>4. /\ n2.valid = TRUE /\ n2.pc = in.pc /\ n2.pc4 = in.pc4 /\ n2.early_trap = RI
      /\ n2.decoded.raw = in.instr
  BY <1>2, NoInstrType DEF IdEx, DecodedInstr
<1>5. /\ n3.valid = TRUE /\ n3.pc = in.pc /\ n3.pc4 = in.pc4 /\ n3.early_trap = NoCode
      /\ n3.decoded = d /\ n3.ctrl = k /\ n3.rs = d.rs /\ n3.rt = d.rt
      /\ n3.is_halt = in.is_halt /\ n3.rs_val = a /\ n3.rt_val = b
  BY <1>2 DEF IdEx
<1> HIDE DEF n1, n2, n3, jp, o
<1>6. CASE in.fetch_fault
  <2>1. o.next = n1 /\ o.jump = NoRedirect
    BY <1>1, <1>6 DEF NoIdOutcome
  <2> QED BY <1>3, <1>6, <2>1 DEF o
<1>7. CASE ~in.fetch_fault /\ ~decodes(in.instr)
  <2>1. o.next = n2 /\ o.jump = NoRedirect
    BY <1>1, <1>7 DEF NoIdOutcome
  <2> QED BY <1>4, <1>7, <2>1 DEF o
<1>8. CASE ~in.fetch_fault /\ decodes(in.instr)
  <2>1. o.next = n3 /\ o.jump = jp
    BY <1>1, <1>8
  <2> QED BY <1>5, <1>8, <2>1 DEF o, d, k, a, b, jp
<1> QED BY <1>6, <1>7, <1>8

(* What the next IF/ID and ID/EX are made of. *)
LEMMA FrontEnd ==
  ASSUME TypeOK, Step
  PROVE  /\ if_id'.valid =>
              /\ ~Flush /\ ~Io.jump.taken /\ ~Tr.raised /\ ~Eo.redirect.taken
              /\ Stall => if_id' = if_id /\ pc' = pc
              /\ ~Stall => if_id' = fetch(mem', pc) /\ pc' = Succ(pc)
         /\ id_ex'.valid =>
              /\ ~Flush /\ ~Stall /\ if_id.valid /\ ~Tr.raised /\ ~Eo.redirect.taken
              /\ Io = decode_stage(if_id, regs') /\ id_ex' = Io.next
              /\ Io.jump.taken => ~if_id'.valid /\ pc' = Io.jump.pc
              /\ ~Io.jump.taken => if_id' = fetch(mem', pc) /\ pc' = Succ(pc)
<1>1. /\ regs' = write_back(regs, mem_wb) /\ mem' = Mo.mem
      /\ id_ex' = next_id_ex(Flush, Io, Stall)
      /\ if_id' = next_if_id(Flush, Io, Stall, Mo.mem)
      /\ pc' = next_pc(Tr, Eo, Io, Stall)
  BY StepParts
<1>2. ~IfIdBubble.valid /\ ~IdExBubble.valid /\ ~NoIdOutcome.next.valid
  BY DEF IfIdBubble, IdExBubble, NoIdOutcome
<1>3. ~Flush => ~Tr.raised /\ ~Eo.redirect.taken
  BY CycleParts
<1>4. Io = IF Stall \/ Flush \/ ~if_id.valid THEN NoIdOutcome
           ELSE decode_stage(if_id, regs')
  BY <1>1 DEF Io, id_outcome
<1>5. ASSUME if_id'.valid
      PROVE  /\ ~Flush /\ ~Io.jump.taken
             /\ Stall => if_id' = if_id
             /\ ~Stall => if_id' = fetch(mem', pc)
  BY <1>1, <1>2, <1>5 DEF next_if_id
<1>6. ASSUME if_id'.valid
      PROVE  /\ ~Tr.raised /\ ~Eo.redirect.taken
             /\ Stall => pc' = pc
             /\ ~Stall => pc' = Succ(pc)
  BY <1>1, <1>3, <1>5, <1>6 DEF next_pc, Succ
<1>7. ASSUME id_ex'.valid
      PROVE  /\ ~Flush /\ ~Stall /\ if_id.valid /\ id_ex' = Io.next
             /\ Io = decode_stage(if_id, regs')
  BY <1>1, <1>2, <1>4, <1>7 DEF next_id_ex
<1>8. ASSUME id_ex'.valid
      PROVE  /\ ~Tr.raised /\ ~Eo.redirect.taken
             /\ Io.jump.taken => ~if_id'.valid /\ pc' = Io.jump.pc
             /\ ~Io.jump.taken => if_id' = fetch(mem', pc) /\ pc' = Succ(pc)
  BY <1>1, <1>2, <1>3, <1>7, <1>8 DEF next_pc, next_if_id, Succ
<1> QED BY <1>5, <1>6, <1>7, <1>8

-----------------------------------------------------------------------------
(* The latches stay right *)

LEMMA StepFetchedRight ==
  ASSUME TypeOK, FetchedRight, Step
  PROVE  FetchedRight'
<1> SUFFICES ASSUME if_id'.valid
             PROVE  /\ if_id'.pc4 = Succ(if_id'.pc)
                    /\ if_id'.fetch_fault <=> ~word_ok(if_id'.pc)
                    /\ if_id'.is_halt <=>
                         (word_ok(if_id'.pc) /\ SelfJump(if_id'.instr, if_id'.pc))
                    /\ pc' = if_id'.pc4
  BY DEF FetchedRight
<1>1. CASE Stall
  <2>1. if_id' = if_id /\ pc' = pc
    BY <1>1, FrontEnd
  <2> QED BY <2>1 DEF FetchedRight
<1>2. CASE ~Stall
  <2>1. if_id' = fetch(mem', pc) /\ pc' = Succ(pc)
    BY <1>2, FrontEnd
  <2> DEFINE n == fetch(mem', pc)
  <2>2. /\ n.pc = pc /\ n.pc4 = Succ(pc) /\ (n.fetch_fault <=> ~word_ok(pc))
        /\ n.is_halt <=> (word_ok(pc) /\ SelfJump(n.instr, pc))
    BY FetchParts
  <2> HIDE DEF n
  <2>3. if_id' = n
    BY <2>1 DEF n
  <2> QED BY <2>1, <2>2, <2>3
<1> QED BY <1>1, <1>2

(* What ID hands to EX. *)
LEMMA DecodeFacts ==
  ASSUME TypeOK, Step, id_ex'.valid
  PROVE  LET d == decode(if_id.instr) IN
         /\ if_id.valid /\ id_ex'.pc = if_id.pc /\ id_ex'.pc4 = if_id.pc4
         /\ if_id.fetch_fault => id_ex'.early_trap = AdEL /\ Io.jump = NoRedirect
         /\ ~if_id.fetch_fault /\ ~decodes(if_id.instr) =>
              id_ex'.early_trap = RI /\ id_ex'.decoded.raw = if_id.instr
              /\ Io.jump = NoRedirect
         /\ ~if_id.fetch_fault /\ decodes(if_id.instr) =>
              /\ id_ex'.early_trap = NoCode /\ id_ex'.decoded = d
              /\ id_ex'.decoded.raw = if_id.instr /\ id_ex'.ctrl = derive_control(d)
              /\ id_ex'.rs = d.rs /\ id_ex'.rt = d.rt /\ id_ex'.is_halt = if_id.is_halt
              /\ id_ex'.rs_val = reg_read(regs', d.rs)
              /\ id_ex'.rt_val = reg_read(regs', d.rt)
              /\ Io.jump = IF d.format = "J" THEN Redirect(jump_target(if_id.pc4, d))
                           ELSE NoRedirect
<1>1. if_id.valid /\ Io = decode_stage(if_id, regs') /\ id_ex' = Io.next
  BY FrontEnd
<1>2. if_id \in IfId /\ if_id.instr \in Word
  BY DEF TypeOK, IfId
<1>3. regs' \in RegisterFile
  BY StepParts, WriteBackType DEF TypeOK
<1>4. decodes(if_id.instr) => decode(if_id.instr).raw = if_id.instr
  BY <1>2, DecodedParts
<1> DEFINE r == regs'
<1> HIDE DEF r
<1>5. r \in RegisterFile /\ r = regs' /\ Io = decode_stage(if_id, r)
  BY <1>1, <1>3 DEF r
<1>6. LET n == decode_stage(if_id, r).next
          d == decode(if_id.instr)
      IN  /\ n.valid = TRUE /\ n.pc = if_id.pc /\ n.pc4 = if_id.pc4
          /\ if_id.fetch_fault =>
               n.early_trap = AdEL /\ decode_stage(if_id, r).jump = NoRedirect
          /\ ~if_id.fetch_fault /\ ~decodes(if_id.instr) =>
               n.early_trap = RI /\ n.decoded.raw = if_id.instr
               /\ decode_stage(if_id, r).jump = NoRedirect
          /\ ~if_id.fetch_fault /\ decodes(if_id.instr) =>
               /\ n.early_trap = NoCode /\ n.decoded = d /\ n.ctrl = derive_control(d)
               /\ n.rs = d.rs /\ n.rt = d.rt /\ n.is_halt = if_id.is_halt
               /\ n.rs_val = reg_read(r, d.rs) /\ n.rt_val = reg_read(r, d.rt)
               /\ decode_stage(if_id, r).jump =
                    IF d.format = "J" THEN Redirect(jump_target(if_id.pc4, d))
                    ELSE NoRedirect
  BY <1>1, <1>2, <1>5, DecodeStageParts
<1> QED BY <1>1, <1>4, <1>5, <1>6

LEMMA StepDecodedRight ==
  ASSUME TypeOK, FetchedRight, Step
  PROVE  DecodedRight'
<1> SUFFICES ASSUME id_ex'.valid
             PROVE  DecodedRight'
  BY DEF DecodedRight
<1> DEFINE d == decode(if_id.instr)
<1> HIDE DEF d
<1>1. /\ if_id.valid /\ id_ex'.pc = if_id.pc /\ id_ex'.pc4 = if_id.pc4
      /\ if_id.fetch_fault => id_ex'.early_trap = AdEL
      /\ ~if_id.fetch_fault /\ ~decodes(if_id.instr) =>
           id_ex'.early_trap = RI /\ id_ex'.decoded.raw = if_id.instr
      /\ ~if_id.fetch_fault /\ decodes(if_id.instr) =>
           /\ id_ex'.early_trap = NoCode /\ id_ex'.decoded = d
           /\ id_ex'.decoded.raw = if_id.instr /\ id_ex'.ctrl = derive_control(d)
           /\ id_ex'.rs = d.rs /\ id_ex'.rt = d.rt /\ id_ex'.is_halt = if_id.is_halt
           /\ id_ex'.rs_val = reg_read(regs', d.rs)
           /\ id_ex'.rt_val = reg_read(regs', d.rt)
  BY DecodeFacts DEF d
<1>2. /\ if_id.pc4 = Succ(if_id.pc) /\ (if_id.fetch_fault <=> ~word_ok(if_id.pc))
      /\ if_id.is_halt <=> (word_ok(if_id.pc) /\ SelfJump(if_id.instr, if_id.pc))
  BY <1>1 DEF FetchedRight
<1>3. AdEL # RI /\ AdEL # NoCode /\ RI # NoCode
  BY DEF AdEL, RI, NoCode
<1> SUFFICES /\ id_ex'.pc4 = Succ(id_ex'.pc)
             /\ id_ex'.early_trap = AdEL <=> ~word_ok(id_ex'.pc)
             /\ id_ex'.early_trap = RI <=>
                  (word_ok(id_ex'.pc) /\ ~decodes(id_ex'.decoded.raw))
             /\ id_ex'.early_trap = NoCode =>
                  /\ id_ex'.decoded = decode(id_ex'.decoded.raw)
                  /\ id_ex'.ctrl = derive_control(id_ex'.decoded)
                  /\ id_ex'.rs = id_ex'.decoded.rs /\ id_ex'.rt = id_ex'.decoded.rt
                  /\ id_ex'.is_halt <=> SelfJump(id_ex'.decoded.raw, id_ex'.pc)
                  /\ id_ex'.rs_val = reg_read(regs', id_ex'.rs)
                  /\ id_ex'.rt_val = reg_read(regs', id_ex'.rt)
  BY DEF DecodedRight
<1>4. CASE if_id.fetch_fault
  BY <1>1, <1>2, <1>3, <1>4
<1>5. CASE ~if_id.fetch_fault /\ ~decodes(if_id.instr)
  BY <1>1, <1>2, <1>3, <1>5
<1>6. CASE ~if_id.fetch_fault /\ decodes(if_id.instr)
  BY <1>1, <1>2, <1>3, <1>6 DEF d
<1> QED BY <1>4, <1>5, <1>6

LEMMA StepFollowsPrediction ==
  ASSUME TypeOK, FetchedRight, Step
  PROVE  FollowsPrediction'
<1> SUFFICES ASSUME id_ex'.valid
             PROVE  (IF if_id'.valid THEN if_id'.pc ELSE pc') = Predicted(id_ex')
  BY DEF FollowsPrediction
<1> DEFINE d == decode(if_id.instr)
<1> HIDE DEF d
<1>1. /\ if_id.valid /\ id_ex'.pc4 = if_id.pc4
      /\ if_id.fetch_fault => id_ex'.early_trap = AdEL /\ Io.jump = NoRedirect
      /\ ~if_id.fetch_fault /\ ~decodes(if_id.instr) =>
           id_ex'.early_trap = RI /\ Io.jump = NoRedirect
      /\ ~if_id.fetch_fault /\ decodes(if_id.instr) =>
           /\ id_ex'.early_trap = NoCode /\ id_ex'.decoded = d
           /\ Io.jump = IF d.format = "J" THEN Redirect(jump_target(if_id.pc4, d))
                        ELSE NoRedirect
  BY DecodeFacts DEF d
<1>2. pc = if_id.pc4
  BY <1>1 DEF FetchedRight
<1>3. AdEL # NoCode /\ RI # NoCode
  BY DEF AdEL, RI, NoCode
<1>4. /\ Io.jump.taken => ~if_id'.valid /\ pc' = Io.jump.pc
      /\ ~Io.jump.taken => if_id' = fetch(mem', pc)
  BY FrontEnd
<1>5. fetch(mem', pc).valid = TRUE /\ fetch(mem', pc).pc = pc
  BY FetchParts
<1> DEFINE jumps == ~if_id.fetch_fault /\ decodes(if_id.instr) /\ d.format = "J"
<1>6. CASE jumps
  <2>1. Io.jump = Redirect(jump_target(if_id.pc4, d))
    BY <1>1, <1>6
  <2>2. Io.jump.taken /\ Io.jump.pc = jump_target(if_id.pc4, d)
    BY <2>1 DEF Redirect
  <2> QED BY <1>1, <1>4, <1>6, <2>2 DEF Predicted
<1>7. CASE ~jumps
  <2>1. Io.jump = NoRedirect
    BY <1>1, <1>7
  <2>2. ~Io.jump.taken
    BY <2>1 DEF NoRedirect
  <2>3. if_id'.valid /\ if_id'.pc = pc
    BY <1>4, <1>5, <2>2
  <2>4. Predicted(id_ex') = if_id.pc4
    BY <1>1, <1>3, <1>7 DEF Predicted
  <2> QED BY <1>2, <2>3, <2>4
<1> QED BY <1>6, <1>7

LEMMA StepLeftExRight ==
  ASSUME TypeOK, DecodedRight, LeftExRight, Step
  PROVE  LeftExRight'
<1>1. ex_mem' = Eo.next /\ mem_wb' = Mo.next
  BY StepParts
<1>2. ASSUME ex_mem'.valid
      PROVE  WritesAsShown(ex_mem') /\ (ex_mem'.ctrl.mem_to_reg <=> ex_mem'.ctrl.mem_read)
  <2>1. Eo.next.valid
    BY <1>1, <1>2
  <2>2. LeavesRight(id_ex, Eo.next)
    BY <2>1, EoLeavesRight
  <2> QED BY <1>1, <2>2 DEF LeavesRight
<1>3. ASSUME mem_wb'.valid
      PROVE  WritesAsShown(mem_wb')
  <2>1. ~MemWbBubble.valid
    BY DEF MemWbBubble
  <2>2. ex_mem.valid /\ ~mem_traps(ex_mem)
    BY <1>1, <1>3, <2>1 DEF Mo, memory_access
  <2>3. ex_mem.valid = TRUE
    BY <2>2 DEF TypeOK, ExMem
  <2>4. HandsOn(mem, ex_mem, Mo)
    BY <2>2, <2>3, MemPasses DEF Mo
  <2>5. /\ mem_wb'.ctrl = ex_mem.ctrl /\ mem_wb'.write_reg = ex_mem.write_reg
        /\ mem_wb'.raw = ex_mem.raw
    BY <1>1, <2>4 DEF HandsOn
  <2>6. WritesAsShown(ex_mem)
    BY <2>2 DEF LeftExRight
  <2> QED BY <2>5, <2>6 DEF WritesAsShown
<1> QED BY <1>2, <1>3 DEF LeftExRight

LEMMA StepNoLoadUse ==
  ASSUME TypeOK, FetchedRight, DecodedRight, Step
  PROVE  NoLoadUse'
<1> SUFFICES ASSUME id_ex'.valid, id_ex'.early_trap = NoCode, ex_mem'.valid,
                    ex_mem'.ctrl.mem_read
             PROVE  ex_mem'.write_reg = 0
                    \/ ex_mem'.write_reg \notin source_registers(id_ex'.decoded)
  BY DEF NoLoadUse
<1>1. ex_mem' = Eo.next
  BY StepParts
<1>2. LeavesRight(id_ex, Eo.next) /\ id_ex.valid
  BY <1>1, EoLeavesRight
<1>3. id_ex.ctrl.mem_read /\ ex_mem'.write_reg = id_ex.rt
  BY <1>1, <1>2 DEF LeavesRight
<1>4. ~Stall /\ if_id.valid
  BY FrontEnd
<1>5. AdEL # NoCode /\ RI # NoCode
  BY DEF AdEL, RI, NoCode
<1>6. ~if_id.fetch_fault /\ decodes(if_id.instr) /\ id_ex'.decoded = decode(if_id.instr)
  BY <1>5, DecodeFacts
<1>7. id_ex.rt = 0 \/ id_ex.rt \notin source_registers(decode(if_id.instr))
  BY <1>2, <1>3, <1>4, <1>6 DEF Stall, load_use_hazard
<1> QED BY <1>3, <1>6, <1>7

LEMMA StepPipeInv ==
  ASSUME TypeOK, PipeInv, Step
  PROVE  PipeInv'
<1>1. FetchedRight /\ DecodedRight /\ LeftExRight
  BY DEF PipeInv
<1>2. /\ FetchedRight' /\ DecodedRight' /\ FollowsPrediction' /\ LeftExRight' /\ NoLoadUse'
  BY <1>1, StepFetchedRight, StepDecodedRight, StepFollowsPrediction, StepLeftExRight,
     StepNoLoadUse
<1>3. EmptyAfterReset'
  BY StepParts DEF EmptyAfterReset
<1> QED BY <1>2, <1>3 DEF PipeInv

(* An empty pipeline. *)
Empty == ~if_id.valid /\ ~id_ex.valid /\ ~ex_mem.valid /\ ~mem_wb.valid

LEMMA EmptyPipeInv ==
  ASSUME Empty
  PROVE  PipeInv
BY DEF Empty, PipeInv, FetchedRight, DecodedRight, FollowsPrediction, LeftExRight,
       NoLoadUse, EmptyAfterReset

LEMMA InitEmpty ==
  ASSUME Init
  PROVE  Empty
BY DEF Init, Empty, IfIdBubble, IdExBubble, ExMemBubble, MemWbBubble

LEMMA NextPipeInv ==
  ASSUME TypeOK, TrapIsPrecise, PipeInv, [Next]_vars
  PROVE  PipeInv'
<1>1. CASE Step
  BY <1>1, StepPipeInv
<1>2. CASE LoadProgram
  <2>1. Empty'
    BY <1>2 DEF LoadProgram, PipeInv, EmptyAfterReset, Empty
  <2> QED
    BY <2>1
    DEF Empty, PipeInv, FetchedRight, DecodedRight, FollowsPrediction, LeftExRight, NoLoadUse,
        EmptyAfterReset
<1>3. ASSUME NEW clear_memory \in ResetModes, Reset(clear_memory)
      PROVE  PipeInv'
  <2>1. Empty'
    BY <1>3 DEF Reset, Empty, IfIdBubble, IdExBubble, ExMemBubble, MemWbBubble
  <2> QED
    BY <2>1
    DEF Empty, PipeInv, FetchedRight, DecodedRight, FollowsPrediction, LeftExRight, NoLoadUse,
        EmptyAfterReset
<1>4. CASE SetPcToEpc
  <2>1. /\ ~if_id.valid /\ ~id_ex.valid /\ ~ex_mem.valid
        /\ op' = "set_pc" /\ UNCHANGED <<regs, if_id, id_ex, ex_mem, mem_wb>>
    BY <1>4 DEF SetPcToEpc, TrapIsPrecise
  <2>2. LeftExRight'
    BY <2>1 DEF PipeInv, LeftExRight, WritesAsShown
  <2> QED
    BY <2>1, <2>2
    DEF PipeInv, FetchedRight, DecodedRight, FollowsPrediction, NoLoadUse, EmptyAfterReset
<1>5. CASE UNCHANGED vars
  BY <1>5 DEF vars, PipeInv, FetchedRight, DecodedRight, FollowsPrediction, LeftExRight,
              NoLoadUse, EmptyAfterReset, WritesAsShown
<1> QED BY <1>1, <1>2, <1>3, <1>4, <1>5 DEF Next

LEMMA PipeInvHolds == Spec => [](TypeOK /\ PipeInv)
<1>1. Init => PipeInv
  BY InitEmpty, EmptyPipeInv
<1>2. TypeOK /\ TrapIsPrecise /\ PipeInv /\ [Next]_vars => PipeInv'
  BY NextPipeInv
<1> QED BY <1>1, <1>2, TypeCorrect, TrapsArePrecise, PTL DEF Spec

(* Forwarding and the load-use stall are right: whenever EX works on an    *)
(* instruction of any program, the operands that forward_operands selects  *)
(* for the registers it reads are the ones the architecture holds, however *)
(* many older writes to them are still in MEM or WB.                       *)
THEOREM OperandsCorrect == Spec => []OperandsAreArchitectural
<1>1. TypeOK /\ PipeInv => OperandsAreArchitectural
  BY OperandsMatch
<1> QED BY <1>1, PipeInvHolds, PTL

(* The register that destination_register names for the instruction in WB  *)
(* is the register WB writes, for every word of every program, COP0 and    *)
(* the links of JAL and JALR included.                                     *)
THEOREM ShownIsWritten == Spec => []ShownDestinationIsWritten
<1>1. PipeInv => ShownDestinationIsWritten
  BY DEF PipeInv, LeftExRight, WritesAsShown, ShownDestinationIsWritten
<1> QED BY <1>1, PipeInvHolds, PTL

-----------------------------------------------------------------------------
(* What a cycle does to the architectural state *)

LEMMA ArchRecord ==
  ASSUME NEW s \in ArchState
  PROVE  s = [pc |-> s.pc, regs |-> s.regs, mem |-> s.mem, cp0 |-> s.cp0]
BY DEF ArchState

(* The oldest instruction before EX stays the same when nothing flushes. *)
LEMMA FrontKeepsPc ==
  ASSUME TypeOK, Step, ~Flush
  PROVE  (IF id_ex'.valid THEN id_ex'.pc ELSE IF if_id'.valid THEN if_id'.pc ELSE pc') =
         (IF if_id.valid THEN if_id.pc ELSE pc)
<1>1. /\ id_ex' = next_id_ex(Flush, Io, Stall)
      /\ if_id' = next_if_id(Flush, Io, Stall, Mo.mem)
      /\ pc' = next_pc(Tr, Eo, Io, Stall)
  BY StepParts
<1>2. ~IfIdBubble.valid /\ ~IdExBubble.valid /\ ~NoIdOutcome.next.valid
      /\ ~NoIdOutcome.jump.taken
  BY DEF IfIdBubble, IdExBubble, NoIdOutcome, NoRedirect
<1>3. Io = IF Stall \/ Flush \/ ~if_id.valid THEN NoIdOutcome
           ELSE decode_stage(if_id, write_back(regs, mem_wb))
  BY DEF Io, id_outcome
<1>4. CASE Stall
  <2>1. if_id.valid
    BY <1>4 DEF Stall, load_use_hazard
  <2>2. ~id_ex'.valid
    BY <1>1, <1>2, <1>4 DEF next_id_ex
  <2>3. if_id' = if_id
    BY <1>1, <1>2, <1>3, <1>4 DEF next_if_id
  <2> QED BY <2>1, <2>2, <2>3
<1>5. CASE ~Stall /\ if_id.valid
  <2>1. Io = decode_stage(if_id, write_back(regs, mem_wb)) /\ id_ex' = Io.next
    BY <1>1, <1>3, <1>5 DEF next_id_ex
  <2>2. if_id \in IfId /\ write_back(regs, mem_wb) \in RegisterFile
    BY WriteBackType DEF TypeOK
  <2>3. Io.next.valid = TRUE /\ Io.next.pc = if_id.pc
    BY <1>5, <2>1, <2>2, DecodeStageParts
  <2> QED BY <1>5, <2>1, <2>3
<1>6. CASE ~Stall /\ ~if_id.valid
  <2>1. ~id_ex'.valid
    BY <1>1, <1>2, <1>3, <1>6 DEF next_id_ex
  <2>2. if_id' = fetch(Mo.mem, pc)
    BY <1>1, <1>2, <1>3, <1>6 DEF next_if_id
  <2>3. if_id'.valid = TRUE /\ if_id'.pc = pc
    BY <2>2, FetchParts
  <2> QED BY <1>6, <2>1, <2>3
<1> QED BY <1>4, <1>5, <1>6

(* Registers and memory after the cycle: what WB and MEM had still to do,  *)
(* and then the instruction that has left EX.                              *)
LEMMA StepData ==
  ASSUME TypeOK, Step
  PROVE  /\ AbsRegs' = write_back(AbsRegs, memory_access(AbsMem, Eo.next).next)
         /\ AbsMem' = memory_access(AbsMem, Eo.next).mem
         /\ AbsCp0' = IF mem_traps(Eo.next)
                      THEN LET t == mem_trap(Eo.next)
                           IN  cp0_raise(cp0', t.code, t.pc, t.bad_addr)
                      ELSE cp0'
<1>1. /\ regs' = write_back(regs, mem_wb) /\ mem' = Mo.mem
      /\ mem_wb' = Mo.next /\ ex_mem' = Eo.next
  BY StepParts
<1>2. AbsMem = Mo.mem /\ AbsRegs = write_back(write_back(regs, mem_wb), Mo.next)
  BY DEF AbsMem, AbsRegs, Mo
<1>3. AbsMem' = memory_access(mem', ex_mem').mem
      /\ AbsRegs' = write_back(write_back(regs', mem_wb'), memory_access(mem', ex_mem').next)
  BY DEF AbsMem, AbsRegs
<1>4. AbsCp0' = IF mem_traps(ex_mem')
                THEN cp0_raise(cp0', mem_trap(ex_mem').code, mem_trap(ex_mem').pc,
                               mem_trap(ex_mem').bad_addr)
                ELSE cp0'
  BY DEF AbsCp0
<1> QED BY <1>1, <1>2, <1>3, <1>4

(* A trap in MEM: the cycle only carries out what the architecture has     *)
(* done already.                                                           *)
LEMMA MemTrapKeepsArch ==
  ASSUME TypeOK, Step, mem_traps(ex_mem)
  PROVE  /\ AbsArch' = AbsArch /\ ~mem_traps(ex_mem') /\ ~ex_mem'.valid /\ ~mem_wb'.valid
         /\ Eo.next = ExMemBubble
<1>1. /\ ex_mem' = Eo.next /\ mem_wb' = Mo.next /\ cp0' = next_cp0(Tr, Eo)
      /\ id_ex' = next_id_ex(Flush, Io, Stall)
      /\ if_id' = next_if_id(Flush, Io, Stall, Mo.mem)
      /\ pc' = next_pc(Tr, Eo, Io, Stall)
  BY StepParts
<1>2. Eo = NoExOutcome /\ Flush /\ Tr = mem_trap(ex_mem) /\ Tr.raised
  BY CycleParts
<1>3. Eo.next = ExMemBubble
  BY <1>2 DEF NoExOutcome
<1>4. /\ ~mem_traps(ExMemBubble) /\ ~ExMemBubble.valid
      /\ memory_access(AbsMem, ExMemBubble).mem = AbsMem
      /\ memory_access(AbsMem, ExMemBubble).next = MemWbBubble
      /\ write_back(AbsRegs, MemWbBubble) = AbsRegs
  BY BubblePasses
<1>5. AbsRegs' = AbsRegs /\ AbsMem' = AbsMem /\ AbsCp0' = cp0'
  BY <1>3, <1>4, StepData
<1>6. cp0' = AbsCp0
  BY <1>1, <1>2 DEF next_cp0, AbsCp0
<1>7. ~id_ex'.valid /\ ~if_id'.valid /\ pc' = kExceptionVector
  BY <1>1, <1>2 DEF next_id_ex, next_if_id, next_pc, IdExBubble, IfIdBubble
<1>8. ~mem_traps(ex_mem') /\ ~ex_mem'.valid
  BY <1>1, <1>3, <1>4
<1>9. AbsPc' = kExceptionVector /\ AbsPc = kExceptionVector
  BY <1>7, <1>8 DEF AbsPc
<1>10. ~mem_wb'.valid
  BY <1>1, MemBlocks DEF Mo, MemWbBubble
<1> QED BY <1>3, <1>5, <1>6, <1>8, <1>9, <1>10 DEF AbsArch

(* A bubble in EX commits nothing. *)
LEMMA BubbleKeepsArch ==
  ASSUME TypeOK, Step, ~mem_traps(ex_mem), ~id_ex.valid
  PROVE  AbsArch' = AbsArch /\ Eo.next = ExMemBubble
<1>1. ex_mem' = Eo.next /\ cp0' = next_cp0(Tr, Eo)
  BY StepParts
<1>2. Eo = NoExOutcome
  BY CycleParts DEF execute
<1>3. /\ Eo.next = ExMemBubble /\ ~Eo.trap.raised /\ ~Eo.redirect.taken
      /\ ~Eo.mtc0.taken /\ ~Eo.eret
  BY <1>2 DEF NoExOutcome, NoTrap, NoRedirect, NoMtc0
<1>4. ~Flush /\ ~Tr.raised
  BY <1>3, CycleParts
<1>5. /\ ~mem_traps(ExMemBubble)
      /\ memory_access(AbsMem, ExMemBubble).mem = AbsMem
      /\ memory_access(AbsMem, ExMemBubble).next = MemWbBubble
      /\ write_back(AbsRegs, MemWbBubble) = AbsRegs
  BY BubblePasses
<1>6. AbsRegs' = AbsRegs /\ AbsMem' = AbsMem /\ AbsCp0' = cp0'
  BY <1>3, <1>5, StepData
<1>7. cp0' = cp0 /\ AbsCp0 = cp0
  BY <1>1, <1>3, <1>4 DEF next_cp0, AbsCp0
<1>8. ~mem_traps(ex_mem')
  BY <1>1, <1>3, <1>5
<1>9. AbsPc' = IF id_ex'.valid THEN id_ex'.pc ELSE IF if_id'.valid THEN if_id'.pc ELSE pc'
  BY <1>8 DEF AbsPc
<1>10. AbsPc = IF if_id.valid THEN if_id.pc ELSE pc
  BY DEF AbsPc
<1>11. AbsPc' = AbsPc
  BY <1>4, <1>9, <1>10, FrontKeepsPc
<1> QED BY <1>3, <1>6, <1>7, <1>11 DEF AbsArch

(* The parts of the architectural state when EX has worked on an           *)
(* instruction.                                                            *)
LEMMA ExMovesArch ==
  ASSUME TypeOK, PipeInv, Step, ~mem_traps(ex_mem), id_ex.valid
  PROVE  AbsPc' = CommitPc(id_ex, Eo) /\ AbsCp0' = CommitCp0(AbsCp0, Eo)
<1>1. /\ ex_mem' = Eo.next /\ cp0' = next_cp0(Tr, Eo)
      /\ id_ex' = next_id_ex(Flush, Io, Stall)
      /\ if_id' = next_if_id(Flush, Io, Stall, Mo.mem)
      /\ pc' = next_pc(Tr, Eo, Io, Stall)
  BY StepParts
<1>2. /\ Tr = Eo.trap /\ (Eo.trap.raised => Eo.next = ExMemBubble)
      /\ Flush <=> Eo.trap.raised \/ Eo.redirect.taken
  BY CycleParts
<1>3. AbsCp0 = cp0 /\ cp0' = ExCp0(cp0, Eo)
  BY <1>1, <1>2 DEF AbsCp0, next_cp0, ExCp0
<1>4. AbsCp0' = CommitCp0(AbsCp0, Eo)
  BY <1>3, StepData DEF CommitCp0
<1>5. CASE mem_traps(Eo.next)
  BY <1>1, <1>4, <1>5 DEF AbsPc, CommitPc
<1>6. CASE ~mem_traps(Eo.next) /\ Flush
  <2>1. ~id_ex'.valid /\ ~if_id'.valid
    BY <1>1, <1>6 DEF next_id_ex, next_if_id, IdExBubble, IfIdBubble
  <2>2. AbsPc' = pc'
    BY <1>1, <1>6, <2>1 DEF AbsPc
  <2>3. pc' = CommitPc(id_ex, Eo)
    BY <1>1, <1>2, <1>6 DEF next_pc, CommitPc
  <2> QED BY <1>4, <2>2, <2>3
<1>7. CASE ~mem_traps(Eo.next) /\ ~Flush
  <2>1. AbsPc' = IF id_ex'.valid THEN id_ex'.pc ELSE IF if_id'.valid THEN if_id'.pc ELSE pc'
    BY <1>1, <1>7 DEF AbsPc
  <2>2. (IF if_id.valid THEN if_id.pc ELSE pc) = Predicted(id_ex)
    BY DEF PipeInv, FollowsPrediction
  <2>3. CommitPc(id_ex, Eo) = Predicted(id_ex)
    BY <1>2, <1>7 DEF CommitPc
  <2> QED BY <1>4, <1>7, <2>1, <2>2, <2>3, FrontKeepsPc
<1> QED BY <1>5, <1>6, <1>7

(* The instruction in EX is the oracle's next one, and EX does the same. *)
LEMMA ExCommits ==
  ASSUME TypeOK, PipeInv, WordsAreCurrent, ~mem_traps(ex_mem), id_ex.valid
  PROVE  \E o : /\ Commits(AbsArch, id_ex, Eo, o)
                /\ step(AbsArch).arch = o.arch
                /\ step(AbsArch).result \in {"Ok", "Halt"} <=> o.result = "Ok"
<1> DEFINE a   == AbsArch
           ops == forward_operands(id_ex, ex_mem, mem_wb)
<1>1. /\ a \in ArchState /\ a.pc = AbsPc /\ a.regs = AbsRegs /\ a.mem = AbsMem
      /\ a.cp0 = AbsCp0
  BY AbsParts
<1>2. AbsPc = id_ex.pc /\ AbsCp0 = cp0
  BY DEF AbsPc, AbsCp0
<1>3. Eo = execute(id_ex, ex_mem, mem_wb, cp0)
  BY CycleParts
<1>4. id_ex \in IdEx /\ id_ex.early_trap \in {NoCode, AdEL, RI} /\ id_ex.pc \in Word
  BY DEF TypeOK, IdEx
<1>5. /\ id_ex.pc4 = Succ(id_ex.pc)
      /\ id_ex.early_trap = AdEL <=> ~word_ok(id_ex.pc)
      /\ id_ex.early_trap = RI <=> (word_ok(id_ex.pc) /\ ~decodes(id_ex.decoded.raw))
  BY DEF PipeInv, DecodedRight
<1>6. word_ok(id_ex.pc) => id_ex.decoded.raw = read_word(a.mem, a.pc)
  BY <1>1, <1>2 DEF WordsAreCurrent
<1>7. /\ AdEL # NoCode /\ RI # NoCode /\ RI # AdEL
      /\ AdEL \in ExceptionCode /\ RI \in ExceptionCode
  BY DEF AdEL, RI, NoCode, ExceptionCode
<1> HIDE DEF a, ops
<1>8. CASE id_ex.early_trap # NoCode
  <2> DEFINE code == id_ex.early_trap
             bad  == IF code = AdEL THEN id_ex.pc ELSE 0
             o    == raise(a, code, bad)
  <2>1. Eo = ex_early_trap(id_ex)
    BY <1>3, <1>8 DEF execute
  <2>2. Eo.trap = Trap(code, a.pc, bad) /\ Eo.next = ExMemBubble
    BY <1>1, <1>2, <2>1 DEF ex_early_trap, NoExOutcome
  <2>3. step(a) = o
    <3>1. CASE code = AdEL
      BY <1>1, <1>2, <1>5, <3>1, StepOutcome
    <3>2. CASE code = RI
      BY <1>1, <1>2, <1>5, <1>6, <1>7, <3>2, StepOutcome
    <3> QED BY <1>4, <1>8, <3>1, <3>2
  <2>4. code \in ExceptionCode /\ bad \in Word
    BY <1>4, <1>7, <1>8, ZeroIsWord
  <2> HIDE DEF code, bad
  <2>5. Reaches(o, "Exception", kExceptionVector, a.regs, a.mem,
                cp0_raise(a.cp0, code, a.pc, bad))
    BY <1>1, <2>4, RaiseReaches
  <2> HIDE DEF o
  <2>6. Commits(a, id_ex, Eo, o)
    BY <1>1, <2>2, <2>5, TrapCommits
  <2>7. o.result = "Exception"
    BY <2>5 DEF Reaches
  <2>8. step(a).arch = o.arch /\ (step(a).result \in {"Ok", "Halt"} <=> o.result = "Ok")
    BY <2>3, <2>7
  <2> QED BY <2>6, <2>8 DEF a
<1>9. CASE id_ex.early_trap = NoCode
  <2> DEFINE d == id_ex.decoded
             o == exec_instr(a, d)
  <2>1. Shaped(id_ex)
    BY <1>9, DecodedIsShaped DEF PipeInv
  <2>2. ops \in OperandsType
    BY ForwardOperandsType DEF TypeOK, ops
  <2>3. id_ex.rs = d.rs /\ id_ex.rt = d.rt
    BY <1>9 DEF PipeInv, DecodedRight
  <2>4. /\ d.rs \in source_registers(d) => ops.a = reg_read(a.regs, d.rs)
        /\ d.rt \in source_registers(d) => ops.b = reg_read(a.regs, d.rt)
    BY <1>1, <1>9, <2>3, OperandsMatch DEF OperandsAreArchitectural, ops
  <2>5. Ready(a, id_ex, ops)
    BY <1>1, <1>2, <1>5, <2>1, <2>2, <2>4 DEF Ready, Shaped
  <2>6. Eo = ex_instr(id_ex, ops, a.cp0)
    BY <1>1, <1>2, <1>3, <1>9 DEF execute, ops
  <2>7. Commits(a, id_ex, Eo, o)
    BY <2>5, <2>6, InstrCommits
  <2>8. word_ok(a.pc) /\ decodes(d.raw) /\ d = decode(d.raw) /\ d.raw = read_word(a.mem, a.pc)
    BY <1>1, <1>2, <1>5, <1>6, <1>7, <1>9, <2>1 DEF Shaped
  <2> DEFINE w == read_word(a.mem, a.pc)
  <2>9. decodes(w) /\ o = exec_instr(a, decode(w))
    BY <2>8
  <2>10. /\ step(a).arch = o.arch
         /\ step(a).result = IF o.result = "Ok" /\ o.arch.pc = a.pc THEN "Halt" ELSE o.result
         /\ o.result \in {"Ok", "Exception"}
    BY <1>1, <2>8, <2>9, StepOutcome
  <2> HIDE DEF o
  <2>11. step(a).result \in {"Ok", "Halt"} <=> o.result = "Ok"
    BY <2>10
  <2> QED BY <2>7, <2>10, <2>11 DEF a
<1> QED BY <1>8, <1>9

(* One cycle with an instruction in EX is one step of the oracle. *)
LEMMA StepCommits ==
  ASSUME TypeOK, PipeInv, WordsAreCurrent, Step, ~mem_traps(ex_mem), id_ex.valid
  PROVE  /\ AbsArch' = step(AbsArch).arch
         /\ step(AbsArch).result \in {"Ok", "Halt"} <=> (ex_mem'.valid /\ ~mem_traps(ex_mem'))
<1>1. PICK o : /\ Commits(AbsArch, id_ex, Eo, o)
               /\ step(AbsArch).arch = o.arch
               /\ step(AbsArch).result \in {"Ok", "Halt"} <=> o.result = "Ok"
  BY ExCommits
<1>2. AbsPc' = CommitPc(id_ex, Eo) /\ AbsCp0' = CommitCp0(AbsCp0, Eo)
  BY ExMovesArch
<1>3. /\ AbsRegs' = write_back(AbsRegs, memory_access(AbsMem, Eo.next).next)
      /\ AbsMem' = memory_access(AbsMem, Eo.next).mem
  BY StepData
<1>4. AbsArch.regs = AbsRegs /\ AbsArch.mem = AbsMem /\ AbsArch.cp0 = AbsCp0
  BY AbsParts
<1>5. /\ o \in Outcome /\ o.arch.pc = AbsPc' /\ o.arch.regs = AbsRegs'
      /\ o.arch.mem = AbsMem' /\ o.arch.cp0 = AbsCp0'
      /\ o.result = IF Eo.next.valid /\ ~mem_traps(Eo.next) THEN "Ok" ELSE "Exception"
  BY <1>1, <1>2, <1>3, <1>4 DEF Commits
<1>6. o.arch \in ArchState
  <2> HIDE DEF ArchState
  <2> QED BY <1>5 DEF Outcome
<1>7. o.arch = [pc |-> AbsPc', regs |-> AbsRegs', mem |-> AbsMem', cp0 |-> AbsCp0']
  BY <1>5, <1>6, ArchRecord
<1>8. AbsArch' = o.arch
  BY <1>7 DEF AbsArch
<1>9. ex_mem' = Eo.next
  BY StepParts
<1> QED BY <1>1, <1>5, <1>8, <1>9

-----------------------------------------------------------------------------
(* The words in flight are the words in memory *)

(* A store to another word leaves a word alone. *)
LEMMA OtherWordKept ==
  ASSUME NEW m \in Memory, NEW p \in Word, NEW q \in Word, NEW v,
         word_ok(p), word_ok(q), p # q
  PROVE  read_word(write_word(m, q, v), p) = read_word(m, p)
<1> DEFINE n == write_word(m, q, v)
<1>1. /\ p \in Nat /\ q \in Nat /\ p % 4 = 0 /\ q % 4 = 0 /\ p + 4 <= MemBytes
      /\ MemBytes \in Nat
  BY SizeAssumption, WidthFacts DEF Word, word_ok, in_bounds
<1>2. ASSUME NEW k \in 0 .. 3
      PROVE  p + k \notin q .. q + 3
  BY <1>1
<1>3. ASSUME NEW i \in 0 .. MemBytes - 1, i \notin q .. q + 3
      PROVE  n[i] = m[i]
  BY <1>3 DEF write_word, Memory
<1>4. ASSUME NEW k \in 0 .. 3
      PROVE  p + k \in 0 .. MemBytes - 1
  BY <1>1
<1>5. n[p] = m[p] /\ n[p + 1] = m[p + 1] /\ n[p + 2] = m[p + 2] /\ n[p + 3] = m[p + 3]
  <2>1. p + 0 \in 0 .. MemBytes - 1 /\ p + 0 \notin q .. q + 3
    BY <1>2, <1>4
  <2>2. p + 1 \in 0 .. MemBytes - 1 /\ p + 1 \notin q .. q + 3
    BY <1>2, <1>4
  <2>3. p + 2 \in 0 .. MemBytes - 1 /\ p + 2 \notin q .. q + 3
    BY <1>2, <1>4
  <2>4. p + 3 \in 0 .. MemBytes - 1 /\ p + 3 \notin q .. q + 3
    BY <1>2, <1>4
  <2>5. p + 0 = p
    BY <1>1
  <2> HIDE DEF n
  <2> QED BY <1>3, <2>1, <2>2, <2>3, <2>4, <2>5
<1>6. (p + 2) + 1 = p + 3
  BY <1>1
<1> HIDE DEF n
<1>7. read_word(n, p) = read_word(m, p)
  BY <1>5, <1>6 DEF read_word, read_half
<1> QED BY <1>7 DEF n

(* In a disciplined step the word at an address in flight survives the     *)
(* store that has just left EX.                                            *)
LEMMA InFlightWordKept ==
  ASSUME TypeOK, DisciplinedStep, NEW p \in Word, word_ok(p),
         (if_id'.valid /\ if_id'.pc = p) \/ (id_ex'.valid /\ id_ex'.pc = p)
  PROVE  read_word(AbsMem', p) = read_word(AbsMem, p)
<1>1. Step /\ ~RewritesInFlight'
  BY DEF DisciplinedStep
<1>2. ex_mem' = Eo.next /\ AbsMem' = memory_access(AbsMem, Eo.next).mem
  BY <1>1, StepParts, StepData
<1>3. Eo.next \in ExMem /\ AbsMem \in Memory
  BY CycleParts, AbsParts, ArchParts DEF ExOutcome
<1>4. CASE ~(Eo.next.valid /\ Eo.next.ctrl.mem_write /\ ~mem_traps(Eo.next))
  <2>1. memory_access(AbsMem, Eo.next).mem = AbsMem
    BY <1>4 DEF memory_access
  <2> QED BY <1>2, <2>1
<1>5. CASE Eo.next.valid /\ Eo.next.ctrl.mem_write /\ ~mem_traps(Eo.next)
  <2> DEFINE q == Eo.next.value
             v == Eo.next.rt_val
  <2>1. memory_access(AbsMem, Eo.next).mem = write_word(AbsMem, q, v)
    BY <1>5 DEF memory_access
  <2>2. q # p
    BY <1>1, <1>2, <1>5 DEF RewritesInFlight
  <2>3. word_ok(q) /\ q \in Word
    BY <1>3, <1>5 DEF mem_traps, store_ok, ExMem
  <2> HIDE DEF q, v
  <2>4. read_word(write_word(AbsMem, q, v), p) = read_word(AbsMem, p)
    BY <1>3, <2>2, <2>3, OtherWordKept
  <2> QED BY <1>2, <2>1, <2>4
<1> QED BY <1>4, <1>5

LEMMA StepWordsAreCurrent ==
  ASSUME TypeOK, PipeInv, WordsAreCurrent, DisciplinedStep, TypeOK'
  PROVE  WordsAreCurrent'
<1>1. Step /\ FetchedRight
  BY DEF DisciplinedStep, PipeInv
<1>2. mem' = AbsMem
  BY <1>1, StepParts DEF AbsMem, Mo
<1>3. ASSUME if_id'.valid, word_ok(if_id'.pc)
      PROVE  if_id'.instr = read_word(AbsMem', if_id'.pc)
  <2>1. if_id'.instr = read_word(AbsMem, if_id'.pc)
    <3>1. CASE Stall
      <4>1. if_id' = if_id
        BY <1>1, <1>3, <3>1, FrontEnd
      <4> QED BY <1>3, <4>1 DEF WordsAreCurrent
    <3>2. CASE ~Stall
      <4>1. if_id' = fetch(mem', pc)
        BY <1>1, <1>3, <3>2, FrontEnd
      <4>2. /\ fetch(mem', pc).pc = pc
            /\ word_ok(pc) => fetch(mem', pc).instr = read_word(mem', pc)
        BY FetchParts
      <4> QED BY <1>2, <1>3, <4>1, <4>2
    <3> QED BY <3>1, <3>2
  <2>2. if_id'.pc \in Word
    BY DEF TypeOK, IfId
  <2> DEFINE p == if_id'.pc
  <2> HIDE DEF p
  <2>3. p = if_id'.pc /\ p \in Word /\ word_ok(p)
    BY <1>3, <2>2 DEF p
  <2>4. read_word(AbsMem', p) = read_word(AbsMem, p)
    BY <1>3, <2>3, InFlightWordKept
  <2> QED BY <2>1, <2>3, <2>4
<1>4. ASSUME id_ex'.valid, word_ok(id_ex'.pc)
      PROVE  id_ex'.decoded.raw = read_word(AbsMem', id_ex'.pc)
  <2>1. if_id.valid /\ id_ex'.pc = if_id.pc
    BY <1>1, <1>4, DecodeFacts
  <2>2. ~if_id.fetch_fault
    BY <1>1, <1>4, <2>1 DEF FetchedRight
  <2>3. id_ex'.decoded.raw = if_id.instr
    BY <1>1, <1>4, <2>2, DecodeFacts
  <2>4. if_id.instr = read_word(AbsMem, if_id.pc)
    BY <1>4, <2>1 DEF WordsAreCurrent
  <2> DEFINE p == if_id.pc
  <2>5. p \in Word
    BY DEF TypeOK, IfId
  <2> HIDE DEF p
  <2>6. word_ok(p) /\ id_ex'.pc = p
    BY <1>4, <2>1 DEF p
  <2>7. read_word(AbsMem', p) = read_word(AbsMem, p)
    BY <1>4, <2>5, <2>6, InFlightWordKept
  <2> QED BY <2>3, <2>4, <2>6, <2>7 DEF p
<1> QED BY <1>3, <1>4 DEF WordsAreCurrent

-----------------------------------------------------------------------------
(* The oracle at the halt idiom *)

(* The oracle executes a jump to itself: only $ra may change. *)
LEMMA SelfJumpStep ==
  ASSUME NEW a \in ArchState, word_ok(a.pc), SelfJump(read_word(a.mem, a.pc), a.pc)
  PROVE  LET w == read_word(a.mem, a.pc) IN
         /\ step(a) \in Outcome /\ step(a).result = "Halt"
         /\ step(a).arch.pc = a.pc /\ step(a).arch.mem = a.mem /\ step(a).arch.cp0 = a.cp0
         /\ step(a).arch.regs = IF Fields[w].opcode = "JAL"
                                THEN reg_write(a.regs, kRa, Succ(a.pc)) ELSE a.regs
<1> DEFINE w == read_word(a.mem, a.pc)
           d == decode(w)
           o == exec_instr(a, d)
<1>1. w \in Word
  BY ArchParts, ReadWordType
<1> HIDE DEF w
<1>2. Fields[w].opcode \in {"J", "JAL"} /\ jump_target(Succ(a.pc), Fields[w]) = a.pc
  BY DEF SelfJump, w
<1>3. decodes(w) /\ format_of(Fields[w].opcode) = "J"
  <2>1. format_of(Fields[w].opcode) = "J"
    BY <1>2 DEF format_of, IOpcodes
  <2> QED BY <1>2, <2>1 DEF decodes
<1>4. /\ d \in DecodedInstr /\ d.opcode = Fields[w].opcode /\ d.format = "J"
      /\ d.target = Fields[w].target
  BY <1>1, <1>3, DecodedParts
<1> HIDE DEF d
<1>5. jump_target(Succ(a.pc), d) = a.pc
  BY <1>2, <1>4 DEF jump_target
<1>6. o = exec_jtype(a, d)
  BY <1>4 DEF exec_instr
<1>7. Reaches(o, "Ok", jump_target(Succ(a.pc), d),
              IF d.opcode = "JAL" THEN reg_write(a.regs, kRa, Succ(a.pc)) ELSE a.regs,
              a.mem, a.cp0)
  BY <1>4, <1>6, JtypeReaches
<1> HIDE DEF o
<1>8. /\ o.result = "Ok" /\ o.arch.pc = a.pc /\ o.arch.mem = a.mem /\ o.arch.cp0 = a.cp0
      /\ o.arch.regs = IF Fields[w].opcode = "JAL"
                       THEN reg_write(a.regs, kRa, Succ(a.pc)) ELSE a.regs
  BY <1>4, <1>5, <1>7 DEF Reaches
<1>9. step(a) \in Outcome /\ step(a).arch = o.arch /\ step(a).result = "Halt"
  BY <1>3, <1>8, StepOutcome DEF w, d, o
<1> QED BY <1>8, <1>9 DEF w

LEMMA OutcomeExtensional ==
  ASSUME NEW o \in Outcome
  PROVE  o = [arch |-> o.arch, result |-> o.result]
<1> HIDE DEF ArchState
<1> QED BY DEF Outcome

(* Once the machine has stopped the oracle only repeats itself. *)
LEMMA StoppedStep ==
  ASSUME TypeOK, Stopped
  PROVE  step(AbsArch) = [arch |-> AbsArch, result |-> "Halt"]
<1> DEFINE a == AbsArch
           w == read_word(a.mem, a.pc)
           s == step(a).arch
<1>1. a \in ArchState /\ a.pc = AbsPc /\ a.regs = AbsRegs /\ a.mem = AbsMem
  BY AbsParts
<1> HIDE DEF a
<1>2. /\ word_ok(a.pc) /\ SelfJump(w, a.pc)
      /\ Fields[w].opcode = "JAL" => a.regs[kRa] = Succ(a.pc)
  BY <1>1 DEF Stopped
<1>3. /\ step(a) \in Outcome /\ step(a).result = "Halt"
      /\ s.pc = a.pc /\ s.mem = a.mem /\ s.cp0 = a.cp0
      /\ s.regs = IF Fields[w].opcode = "JAL" THEN reg_write(a.regs, kRa, Succ(a.pc))
                  ELSE a.regs
  BY <1>1, <1>2, SelfJumpStep
<1>4. a.regs[kRa] = Succ(a.pc) => reg_write(a.regs, kRa, Succ(a.pc)) = a.regs
  BY <1>1, ArchParts DEF reg_write, RegisterFile, RegIdx, kRa
<1>5. s.regs = a.regs
  BY <1>2, <1>3, <1>4
<1>6. s \in ArchState
  <2> HIDE DEF ArchState
  <2> QED BY <1>3 DEF Outcome
<1> HIDE DEF s
<1>7. s = a
  BY <1>1, <1>3, <1>5, <1>6, ArchExtensional
<1>8. step(a) = [arch |-> a, result |-> "Halt"]
  BY <1>3, <1>7, OutcomeExtensional DEF s
<1> QED BY <1>8 DEF a

LEMMA StoppedPersists ==
  ASSUME TypeOK, PipeInv, WordsAreCurrent, Stopped, Step
  PROVE  /\ Stopped' /\ AbsArch' = AbsArch
         /\ id_ex.valid => ex_mem'.valid
<1>1. step(AbsArch) = [arch |-> AbsArch, result |-> "Halt"]
  BY StoppedStep
<1>2. step(AbsArch).arch = AbsArch /\ step(AbsArch).result = "Halt"
  BY <1>1
<1>3. ~mem_traps(ex_mem)
  BY DEF Stopped
<1>4. /\ AbsArch' = AbsArch /\ ~mem_traps(ex_mem') /\ (id_ex.valid => ex_mem'.valid)
  <2>1. CASE id_ex.valid
    BY <1>2, <1>3, <2>1, StepCommits
  <2>2. CASE ~id_ex.valid
    BY <1>3, <2>2, BubbleKeepsArch, StepParts, BubblePasses
  <2> QED BY <2>1, <2>2
<1>5. AbsPc' = AbsPc /\ AbsMem' = AbsMem /\ AbsRegs' = AbsRegs
  BY <1>4 DEF AbsArch
<1> QED BY <1>4, <1>5 DEF Stopped

-----------------------------------------------------------------------------
(* The abstract specification uses the same units and instructions *)

LEMMA SameWidths ==
  /\ Arch!HalfSize = HalfSize /\ Arch!WordSize = WordSize /\ Arch!Word = Word
  /\ Arch!Memory = Memory /\ Arch!ZeroMemory = ZeroMemory
  /\ Arch!RegisterFile = RegisterFile /\ Arch!ZeroRegs = ZeroRegs
  /\ Arch!ExceptionCode = ExceptionCode /\ Arch!PowerOnCp0 = PowerOnCp0
BY DEF Arch!HalfSize, HalfSize, Arch!WordSize, WordSize, Arch!Word, Word, Arch!Memory, Memory,
       Arch!Byte, Byte, Arch!ZeroMemory, ZeroMemory, Arch!RegisterFile, RegisterFile,
       Arch!RegIdx, RegIdx, Arch!ZeroRegs, ZeroRegs, Arch!ExceptionCode, ExceptionCode,
       Arch!AdEL, Arch!AdES, Arch!Sys, Arch!Bp, Arch!RI, Arch!Ov, AdEL, AdES, Sys, Bp, RI, Ov,
       Arch!PowerOnCp0, PowerOnCp0

LEMMA SameDecoder ==
  ASSUME NEW w
  PROVE  Arch!decode(w) = decode(w) /\ (Arch!decodes(w) <=> decodes(w))
<1>1. Arch!decode(w) = decode(w)
  BY DEF Arch!decode, decode, Arch!decode_fields, decode_fields, Arch!NoInstr, NoInstr,
         Arch!format_of, format_of,
         Arch!IOpcodes, IOpcodes
<1>2. Arch!decodes(w) <=> decodes(w)
  BY DEF Arch!decodes, decodes, Arch!format_of, format_of, Arch!IOpcodes, IOpcodes,
         Arch!SpecialFuncts, SpecialFuncts
<1> QED BY <1>1, <1>2

LEMMA SameControl ==
  ASSUME NEW d
  PROVE  /\ Arch!derive_control(d) = derive_control(d)
         /\ Arch!alu_control(d) = alu_control(d)
         /\ \A a : Arch!shift_amount(d, a) = shift_amount(d, a)
         /\ \A c : Arch!extended_imm(d, c) = extended_imm(d, c)
         /\ \A p : Arch!jump_target(p, d) = jump_target(p, d)
         /\ \A p : Arch!branch_target(p, d) = branch_target(p, d)
BY DEF Arch!derive_control, derive_control, Arch!r_type_control, r_type_control,
       Arch!i_type_control, i_type_control, Arch!NoControl, NoControl, Arch!Loads, Loads,
       Arch!alu_control, alu_control, Arch!r_type_op, r_type_op, Arch!i_type_op, i_type_op,
       Arch!shift_amount, shift_amount, Arch!extended_imm, extended_imm,
       Arch!sign_extend, sign_extend, Arch!jump_target, jump_target,
       Arch!branch_target, branch_target, Arch!Region, Region,
       Arch!HalfSize, HalfSize, Arch!WordSize, WordSize

LEMMA SameAlu ==
  ASSUME NEW o, NEW a, NEW b, NEW s
  PROVE  Arch!alu_execute(o, a, b, s) = alu_execute(o, a, b, s)
BY DEF Arch!alu_execute, alu_execute, Arch!alu_value, alu_value,
       Arch!overflow_add, overflow_add, Arch!overflow_sub, overflow_sub,
       Arch!negative, negative, Arch!signed, signed, Arch!bit_or, bit_or,
       Arch!HalfSize, HalfSize, Arch!WordSize, WordSize

LEMMA SameMemory ==
  ASSUME NEW m, NEW a
  PROVE  /\ Arch!word_ok(a) <=> word_ok(a)
         /\ Arch!read_word(m, a) = read_word(m, a)
         /\ \A v : Arch!write_word(m, a, v) = write_word(m, a, v)
         /\ \A o : Arch!load_ok(o, a) <=> load_ok(o, a)
         /\ \A o : Arch!load_data(m, o, a) = load_data(m, o, a)
         /\ \A o : Arch!store_ok(o, a) <=> store_ok(o, a)
         /\ \A n : Arch!in_bounds(a, n) <=> in_bounds(a, n)
         /\ \A ws : Arch!load_words(m, a, ws) = load_words(m, a, ws)
BY DEF Arch!word_ok, word_ok, Arch!read_word, read_word, Arch!read_half, read_half,
       Arch!write_word, write_word, Arch!byte_of, byte_of, Arch!load_ok, load_ok,
       Arch!load_data, load_data, Arch!store_ok, store_ok, Arch!in_bounds, in_bounds,
       Arch!load_words, load_words, Arch!HalfSize, HalfSize

LEMMA SameRegisters ==
  ASSUME NEW r, NEW i
  PROVE  /\ Arch!reg_read(r, i) = reg_read(r, i)
         /\ \A v : Arch!reg_write(r, i, v) = reg_write(r, i, v)
BY DEF Arch!reg_read, reg_read, Arch!reg_write, reg_write

LEMMA SameCp0 ==
  ASSUME NEW c
  PROVE  /\ \A reg : Arch!cp0_read(c, reg) = cp0_read(c, reg)
         /\ \A reg, v : Arch!cp0_write(c, reg, v) = cp0_write(c, reg, v)
         /\ Arch!cp0_eret(c) = cp0_eret(c)
         /\ Arch!cp0_reset(c) = cp0_reset(c)
         /\ \A code, p, b : Arch!cp0_raise(c, code, p, b) = cp0_raise(c, code, p, b)
BY DEF Arch!cp0_read, cp0_read, Arch!cp0_write, cp0_write, Arch!cp0_eret, cp0_eret,
       Arch!cp0_reset, cp0_reset, Arch!cp0_raise, cp0_raise, Arch!set_exl, set_exl,
       Arch!in_exception, in_exception, Arch!PowerOnCp0, PowerOnCp0, Arch!RI, RI,
       Arch!kRegBadVAddr, kRegBadVAddr, Arch!kRegStatus, kRegStatus,
       Arch!kRegCause, kRegCause, Arch!kRegEpc, kRegEpc

LEMMA SameRaise ==
  ASSUME NEW a
  PROVE  /\ \A code, b : Arch!raise(a, code, b) = raise(a, code, b)
         /\ Arch!Completes(a) = Completes(a)
         /\ Arch!Faults(a) = Faults(a)
         /\ \A p : Arch!Succ(p) = Succ(p)
BY SameCp0 DEF Arch!raise, raise, Arch!Completes, Completes, Arch!Faults, Faults,
               Arch!Succ, Succ, Arch!WordSize, WordSize, Arch!HalfSize, HalfSize

LEMMA SameInstr ==
  ASSUME NEW a, NEW d
  PROVE  Arch!exec_instr(a, d) = exec_instr(a, d)
<1>1. Arch!exec_cop0(a, d) = exec_cop0(a, d)
  BY DEF Arch!exec_cop0, exec_cop0, Arch!Completes, Completes, Arch!Faults, Faults,
         Arch!Succ, Succ, Arch!WordSize, WordSize, Arch!HalfSize, HalfSize,
         Arch!reg_read, reg_read, Arch!reg_write, reg_write, Arch!cp0_read, cp0_read,
         Arch!cp0_write, cp0_write, Arch!cp0_eret, cp0_eret, Arch!in_exception,
         in_exception, Arch!kRegBadVAddr, kRegBadVAddr, Arch!kRegStatus, kRegStatus,
         Arch!kRegCause, kRegCause, Arch!kRegEpc, kRegEpc
<1>2. Arch!exec_alu_rtype(a, d) = exec_alu_rtype(a, d)
  BY DEF Arch!exec_alu_rtype, exec_alu_rtype, Arch!Ov, Ov, Arch!Completes, Completes,
         Arch!Faults, Faults, Arch!Succ, Succ, Arch!WordSize, WordSize, Arch!HalfSize,
         HalfSize, Arch!reg_read, reg_read, Arch!reg_write, reg_write, Arch!raise, raise,
         Arch!cp0_raise, cp0_raise, Arch!set_exl, set_exl, Arch!in_exception,
         in_exception, Arch!alu_execute, alu_execute, Arch!alu_value, alu_value,
         Arch!overflow_add, overflow_add, Arch!overflow_sub, overflow_sub, Arch!negative,
         negative, Arch!signed, signed, Arch!bit_or, bit_or, Arch!alu_control,
         alu_control, Arch!r_type_op, r_type_op, Arch!i_type_op, i_type_op,
         Arch!shift_amount, shift_amount
<1>3. Arch!exec_rtype(a, d) = exec_rtype(a, d)
  BY <1>1, <1>2, SameRaise, SameRegisters
  DEF Arch!exec_rtype, exec_rtype, Arch!Sys, Sys, Arch!Bp, Bp
<1>4. Arch!exec_branch(a, d) = exec_branch(a, d)
  BY SameRaise, SameRegisters, SameControl, SameAlu DEF Arch!exec_branch, exec_branch
<1>5. \A addr : Arch!exec_load(a, d, addr) = exec_load(a, d, addr)
  BY DEF Arch!exec_load, exec_load, Arch!AdEL, AdEL, Arch!Completes, Completes,
         Arch!Faults, Faults, Arch!Succ, Succ, Arch!WordSize, WordSize, Arch!HalfSize,
         HalfSize, Arch!reg_read, reg_read, Arch!reg_write, reg_write, Arch!raise, raise,
         Arch!cp0_raise, cp0_raise, Arch!set_exl, set_exl, Arch!in_exception,
         in_exception, Arch!load_ok, load_ok, Arch!load_data, load_data, Arch!word_ok,
         word_ok, Arch!in_bounds, in_bounds, Arch!read_word, read_word, Arch!read_half,
         read_half
<1>6. \A addr : Arch!exec_store(a, d, addr) = exec_store(a, d, addr)
  BY SameRaise, SameRegisters, SameMemory DEF Arch!exec_store, exec_store, Arch!AdES, AdES
<1>7. Arch!exec_itype(a, d) = exec_itype(a, d)
  <2> DEFINE cA == Arch!derive_control(d)
             cP == derive_control(d)
             vA == Arch!alu_execute(Arch!alu_control(d), Arch!reg_read(a.regs, d.rs),
                                    Arch!extended_imm(d, cA), 0)
             vP == alu_execute(alu_control(d), reg_read(a.regs, d.rs), extended_imm(d, cP), 0)
  <2>1. cA = cP /\ Arch!alu_control(d) = alu_control(d)
    BY SameControl
  <2>2. Arch!extended_imm(d, cA) = extended_imm(d, cP)
    BY <2>1, SameControl
  <2>3. vA = vP
    BY <2>1, <2>2, SameRegisters, SameAlu
  <2> DEFINE fA == Arch!Completes([a EXCEPT !.pc = Arch!Succ(a.pc),
                                            !.regs = Arch!reg_write(a.regs, d.rt, vA.value)])
             fP == Completes([a EXCEPT !.pc = Succ(a.pc),
                                       !.regs = reg_write(a.regs, d.rt, vP.value)])
  <2>4. fA = fP
    <3>1. Arch!Succ(a.pc) = Succ(a.pc) /\ Arch!reg_write(a.regs, d.rt, vA.value)
                                          = reg_write(a.regs, d.rt, vP.value)
      BY <2>3, SameRaise, SameRegisters
    <3> HIDE DEF vA, vP
    <3>2. [a EXCEPT !.pc = Arch!Succ(a.pc), !.regs = Arch!reg_write(a.regs, d.rt, vA.value)]
          = [a EXCEPT !.pc = Succ(a.pc), !.regs = reg_write(a.regs, d.rt, vP.value)]
      BY <3>1, Zenon
    <3> QED BY <3>2, SameRaise, Zenon
  <2>5. Arch!raise(a, Arch!Ov, 0) = raise(a, Ov, 0) /\ Arch!Faults(a) = Faults(a)
    BY SameRaise DEF Arch!Ov, Ov
  <2>6. Arch!exec_itype(a, d) =
          IF d.opcode \in {"BEQ", "BNE"} THEN Arch!exec_branch(a, d) ELSE
          CASE Arch!alu_control(d) = "none"     -> Arch!Faults(a)
            [] vA.overflow /\ d.opcode = "ADDI" -> Arch!raise(a, Arch!Ov, 0)
            [] cA.mem_read                      -> Arch!exec_load(a, d, vA.value)
            [] cA.mem_write                     -> Arch!exec_store(a, d, vA.value)
            [] OTHER                            -> fA
    BY DEF Arch!exec_itype
  <2>7. exec_itype(a, d) =
          IF d.opcode \in {"BEQ", "BNE"} THEN exec_branch(a, d) ELSE
          CASE alu_control(d) = "none"          -> Faults(a)
            [] vP.overflow /\ d.opcode = "ADDI" -> raise(a, Ov, 0)
            [] cP.mem_read                      -> exec_load(a, d, vP.value)
            [] cP.mem_write                     -> exec_store(a, d, vP.value)
            [] OTHER                            -> fP
    BY DEF exec_itype
  <2> HIDE DEF cA, cP, vA, vP, fA, fP
  <2> QED BY <1>4, <1>5, <1>6, <2>1, <2>3, <2>4, <2>5, <2>6, <2>7
<1>8. Arch!exec_jtype(a, d) = exec_jtype(a, d)
  BY DEF Arch!exec_jtype, exec_jtype, Arch!kRa, kRa, Arch!jump_target, jump_target,
         Arch!Region, Region, Arch!Completes, Completes, Arch!Faults, Faults, Arch!Succ,
         Succ, Arch!WordSize, WordSize, Arch!HalfSize, HalfSize, Arch!reg_read, reg_read,
         Arch!reg_write, reg_write
<1> QED BY <1>3, <1>7, <1>8, SameRaise DEF Arch!exec_instr, exec_instr, Arch!RI, RI

LEMMA SameStep ==
  ASSUME NEW a
  PROVE  Arch!step(a) = step(a)
BY SameInstr, SameRaise, SameMemory, SameDecoder
DEF Arch!step, step, Arch!AdEL, AdEL, Arch!RI, RI

-----------------------------------------------------------------------------
(* Halt *)

(* What MEM hands to WB. *)
LEMMA MemWbParts ==
  ASSUME TypeOK, Step
  PROVE  /\ mem_wb'.valid <=> ex_mem.valid /\ ~mem_traps(ex_mem)
         /\ mem_wb'.valid => mem_wb'.is_halt = ex_mem.is_halt
<1>1. mem_wb' = memory_access(mem, ex_mem).next
  BY StepParts DEF Mo
<1>2. CASE ex_mem.valid /\ ~mem_traps(ex_mem)
  <2>1. ex_mem.valid = TRUE
    BY <1>2 DEF TypeOK, ExMem
  <2> DEFINE mo == memory_access(mem, ex_mem)
  <2>2. HandsOn(mem, ex_mem, mo)
    BY <1>2, <2>1, MemPasses
  <2> HIDE DEF mo
  <2>3. mo.next.valid = TRUE /\ mo.next.is_halt = ex_mem.is_halt
    BY <2>2 DEF HandsOn
  <2> QED BY <1>1, <1>2, <2>3 DEF mo
<1>3. CASE ~(ex_mem.valid /\ ~mem_traps(ex_mem))
  <2>1. memory_access(mem, ex_mem).next = MemWbBubble
    BY <1>3 DEF memory_access
  <2> QED BY <1>1, <1>3, <2>1 DEF MemWbBubble
<1> QED BY <1>2, <1>3

(* The cycle in which the halt idiom leaves EX stops the machine. *)
LEMMA HaltStops ==
  ASSUME TypeOK, PipeInv, WordsAreCurrent, Step, ex_mem'.valid, ex_mem'.is_halt
  PROVE  Stopped'
<1> DEFINE a == AbsArch
           w == read_word(a.mem, a.pc)
           s == step(a).arch
<1>1. Eo.next.valid /\ Eo.next.is_halt
  BY StepParts
<1>2. /\ ~mem_traps(ex_mem) /\ id_ex.valid /\ id_ex.early_trap = NoCode
      /\ LeavesRight(id_ex, Eo.next)
  BY <1>1, EoLeavesRight DEF PipeInv
<1>3. id_ex.is_halt
  BY <1>1, <1>2 DEF LeavesRight
<1>4. SelfJump(id_ex.decoded.raw, id_ex.pc) /\ word_ok(id_ex.pc)
  BY <1>2, <1>3 DEF PipeInv, DecodedRight, NoCode, AdEL
<1>5. id_ex.decoded.raw = read_word(AbsMem, id_ex.pc)
  BY <1>2, <1>4 DEF WordsAreCurrent
<1>6. AbsPc = id_ex.pc
  BY <1>2 DEF AbsPc
<1>7. a \in ArchState /\ a.pc = AbsPc /\ a.mem = AbsMem /\ a.regs = AbsRegs
  BY AbsParts
<1>8. AbsArch' = s /\ (step(a).result \in {"Ok", "Halt"} => ~mem_traps(ex_mem'))
  BY <1>2, StepCommits
<1> HIDE DEF a
<1>9. word_ok(a.pc) /\ SelfJump(w, a.pc)
  BY <1>4, <1>5, <1>6, <1>7
<1>10. /\ step(a).result = "Halt" /\ s.pc = a.pc /\ s.mem = a.mem
       /\ s.regs = IF Fields[w].opcode = "JAL" THEN reg_write(a.regs, kRa, Succ(a.pc))
                   ELSE a.regs
  BY <1>7, <1>9, SelfJumpStep
<1>11. reg_write(a.regs, kRa, Succ(a.pc))[kRa] = Succ(a.pc)
  BY <1>7, ArchParts DEF reg_write, RegisterFile, RegIdx, kRa
<1> HIDE DEF s
<1>12. AbsPc' = s.pc /\ AbsMem' = s.mem /\ AbsRegs' = s.regs
  BY <1>8 DEF AbsArch
<1>13. AbsPc' = a.pc /\ AbsMem' = a.mem
  BY <1>10, <1>12
<1>14. Fields[w].opcode = "JAL" => AbsRegs'[kRa] = Succ(a.pc)
  BY <1>10, <1>11, <1>12
<1>15. ~mem_traps(ex_mem')
  BY <1>8, <1>10
<1> HIDE DEF w
<1>16. read_word(AbsMem', AbsPc') = w
  BY <1>13 DEF w
<1>17. /\ word_ok(AbsPc') /\ SelfJump(w, AbsPc')
       /\ Fields[w].opcode = "JAL" => AbsRegs'[kRa] = Succ(AbsPc')
  BY <1>9, <1>13, <1>14
<1> QED BY <1>15, <1>16, <1>17 DEF Stopped

LEMMA StepHaltInv ==
  ASSUME TypeOK, PipeInv, WordsAreCurrent, HaltInv, Step
  PROVE  HaltInv'
<1>1. /\ regs' = write_back(regs, mem_wb) /\ mem' = AbsMem /\ result' = step_result(Tr)
      /\ mem_wb' = Mo.next /\ ex_mem' = Eo.next /\ op' = "step"
  BY StepParts DEF Mo, AbsMem
<1>2. ASSUME mem_wb'.valid, mem_wb'.is_halt
      PROVE  Stopped
  BY <1>2, MemWbParts DEF HaltInv, HaltInFlight
<1>3. ASSUME result' = "Halt"
      PROVE  mem_wb.valid /\ mem_wb.is_halt /\ Stopped
  BY <1>1, <1>3 DEF step_result, HaltInv, HaltInFlight
<1>4. ASSUME HaltInFlight' \/ result' = "Halt"
      PROVE  Stopped'
  <2>1. CASE ex_mem'.valid /\ ex_mem'.is_halt
    BY <2>1, HaltStops
  <2>2. CASE mem_wb'.valid /\ mem_wb'.is_halt
    BY <1>2, <2>2, StoppedPersists
  <2>3. CASE result' = "Halt"
    BY <1>3, <2>3, StoppedPersists
  <2> QED BY <1>4, <2>1, <2>2, <2>3 DEF HaltInFlight
<1>5. ASSUME mem_wb'.valid, mem_wb'.is_halt
      PROVE  write_back(regs', mem_wb') = AbsRegs'
  <2>1. AbsArch' = AbsArch
    BY <1>2, <1>5, StoppedPersists
  <2>2. AbsRegs' = AbsRegs
    BY <2>1 DEF AbsArch
  <2> QED BY <1>1, <2>2 DEF AbsRegs, Mo
<1>6. ASSUME result' = "Halt"
      PROVE  regs' = AbsRegs' /\ mem' = AbsMem' /\ cp0' = AbsCp0'
  <2>1. AbsArch' = AbsArch /\ Stopped'
    BY <1>3, <1>6, StoppedPersists
  <2>2. AbsRegs' = AbsRegs /\ AbsMem' = AbsMem
    BY <2>1 DEF AbsArch
  <2>3. write_back(regs, mem_wb) = AbsRegs
    BY <1>3, <1>6 DEF HaltInv
  <2>4. AbsCp0' = cp0'
    BY <2>1 DEF AbsCp0, Stopped
  <2> QED BY <1>1, <2>2, <2>3, <2>4
<1>7. ASSUME result' = "Exception", mem_wb'.valid, mem_wb'.is_halt
      PROVE  FALSE
  <2>1. Stopped /\ ~mem_traps(ex_mem)
    BY <1>2, <1>7 DEF Stopped
  <2>2. Tr.raised
    BY <1>1, <1>7 DEF step_result
  <2>3. Eo.trap.raised /\ Eo.next = ExMemBubble /\ Eo = execute(id_ex, ex_mem, mem_wb, cp0)
    BY <2>1, <2>2, CycleParts
  <2>4. ~ex_mem'.valid
    BY <1>1, <2>3 DEF ExMemBubble
  <2>5. ~id_ex.valid
    BY <2>1, <2>4, StoppedPersists
  <2>6. ~Eo.trap.raised
    BY <2>3, <2>5 DEF execute, NoExOutcome, NoTrap
  <2> QED BY <2>3, <2>6
<1> QED BY <1>4, <1>5, <1>6, <1>7 DEF HaltInv

LEMMA NextCommitInv ==
  ASSUME TypeOK, TrapIsPrecise, CommitInv, TypeOK', [DisciplinedNext]_vars
  PROVE  CommitInv'
<1>1. [Next]_vars
  BY DEF DisciplinedNext, DisciplinedStep, Next
<1>2. PipeInv'
  BY <1>1, NextPipeInv DEF CommitInv
<1>3. CASE DisciplinedStep
  BY <1>2, <1>3, StepWordsAreCurrent, StepHaltInv DEF CommitInv, DisciplinedStep
<1>4. ASSUME Empty', op' # "step"
      PROVE  CommitInv'
  BY <1>2, <1>4 DEF CommitInv, Empty, WordsAreCurrent, HaltInv, HaltInFlight
<1>5. CASE LoadProgram
  BY <1>4, <1>5 DEF LoadProgram, CommitInv, PipeInv, EmptyAfterReset, Empty
<1>6. ASSUME NEW clear_memory \in ResetModes, Reset(clear_memory)
      PROVE  CommitInv'
  <2>1. Empty' /\ op' # "step"
    BY <1>6 DEF Reset, Empty, IfIdBubble, IdExBubble, ExMemBubble, MemWbBubble
  <2> QED BY <1>4, <2>1
<1>7. CASE SetPcToEpc
  <2>1. /\ ~if_id.valid /\ ~id_ex.valid /\ ~ex_mem.valid /\ ~(mem_wb.valid /\ mem_wb.is_halt)
        /\ op' = "set_pc" /\ UNCHANGED <<if_id, id_ex, ex_mem, mem_wb>>
    BY <1>7 DEF SetPcToEpc, TrapIsPrecise, CommitInv, HaltInv
  <2> QED BY <1>2, <2>1 DEF CommitInv, WordsAreCurrent, HaltInv, HaltInFlight
<1>8. CASE UNCHANGED vars
  <2>1. AbsPc' = AbsPc /\ AbsMem' = AbsMem /\ AbsRegs' = AbsRegs /\ AbsCp0' = AbsCp0
    BY <1>8 DEF vars, AbsPc, AbsMem, AbsRegs, AbsCp0
  <2> QED
    BY <1>2, <1>8, <2>1
    DEF vars, CommitInv, WordsAreCurrent, HaltInv, HaltInFlight, Stopped
<1> QED BY <1>3, <1>5, <1>6, <1>7, <1>8 DEF DisciplinedNext

LEMMA CommitInvHolds == DisciplinedSpec => [](TypeOK /\ CommitInv)
<1>1. Init => CommitInv
  <2>1. Init => Empty /\ op # "step"
    BY InitEmpty DEF Init
  <2> QED
    BY <2>1, EmptyPipeInv DEF CommitInv, Empty, WordsAreCurrent, HaltInv, HaltInFlight
<1>2. TypeOK /\ TrapIsPrecise /\ CommitInv /\ TypeOK' /\ [DisciplinedNext]_vars => CommitInv'
  BY NextCommitInv
<1>3. [DisciplinedNext]_vars => [Next]_vars
  BY DEF DisciplinedNext, DisciplinedStep, Next
<1>4. DisciplinedSpec => Spec
  BY <1>3, PTL DEF DisciplinedSpec, Spec
<1> QED BY <1>1, <1>2, <1>4, TypeCorrect, TrapsArePrecise, PTL DEF DisciplinedSpec

(* Halt is final: when step() returns Halt, registers, memory and CP0 are  *)
(* architectural and the single-cycle oracle's next step changes nothing,  *)
(* whatever was in flight when the jump to itself was fetched, in every    *)
(* program that does not rewrite instructions in flight.                   *)
THEOREM HaltFinal == DisciplinedSpec => []HaltIsFinal
<1>1. TypeOK /\ CommitInv => HaltIsFinal
  BY StoppedStep, SameStep DEF CommitInv, HaltInv, HaltIsFinal
<1> QED BY <1>1, CommitInvHolds, PTL

-----------------------------------------------------------------------------
(* Retirement *)

LEMMA StepRetires ==
  ASSUME TypeOK, CommitInv, Step
  PROVE  InFlight' = InFlight + (IF CompletesOne THEN 1 ELSE 0)
                     - (IF ps'.retired THEN 1 ELSE 0)
<1>1. PipeInv /\ WordsAreCurrent
  BY DEF CommitInv
<1>2. ps'.retired <=> mem_wb.valid
  BY StepParts DEF next_ps
<1>3. mem_wb'.valid <=> ex_mem.valid /\ ~mem_traps(ex_mem)
  BY MemWbParts
<1>4. CompletesOne <=> ex_mem'.valid /\ ~mem_traps(ex_mem')
  <2>1. CASE id_ex.valid /\ ~mem_traps(ex_mem)
    BY <1>1, <2>1, StepCommits, SameStep DEF CompletesOne
  <2>2. CASE ~id_ex.valid /\ ~mem_traps(ex_mem)
    <3>1. ex_mem' = ExMemBubble
      BY <2>2, BubbleKeepsArch, StepParts
    <3> QED BY <2>2, <3>1 DEF CompletesOne, ExMemBubble
  <2>3. CASE mem_traps(ex_mem)
    BY <2>3, MemTrapKeepsArch DEF CompletesOne
  <2> QED BY <2>1, <2>2, <2>3
<1>5. InFlight' = (IF ex_mem'.valid /\ ~mem_traps(ex_mem') THEN 1 ELSE 0)
                  + (IF mem_wb'.valid THEN 1 ELSE 0)
  BY DEF InFlight
<1> HIDE DEF CompletesOne
<1> QED BY <1>2, <1>3, <1>4, <1>5 DEF InFlight

(* pipeline_state().retired counts every completed instruction exactly     *)
(* once, and no instruction that trapped or was flushed: no stall, flush   *)
(* or trap loses or repeats one between EX and WB, in every program that   *)
(* does not rewrite instructions in flight.                                *)
THEOREM EachRetiresOnce == DisciplinedSpec => RetiresEachOnce
<1>1. TypeOK /\ CommitInv /\ [DisciplinedNext]_vars =>
        [op' = "step" => InFlight' = InFlight + (IF CompletesOne THEN 1 ELSE 0)
                                     - (IF ps'.retired THEN 1 ELSE 0)]_vars
  <2> SUFFICES ASSUME TypeOK, CommitInv, DisciplinedNext, op' = "step"
               PROVE  InFlight' = InFlight + (IF CompletesOne THEN 1 ELSE 0)
                                  - (IF ps'.retired THEN 1 ELSE 0)
    OBVIOUS
  <2>1. Step
    BY DEF DisciplinedNext, DisciplinedStep, LoadProgram, Reset, SetPcToEpc
  <2> QED BY <2>1, StepRetires
<1> QED BY <1>1, CommitInvHolds, PTL DEF DisciplinedSpec, RetiresEachOnce

-----------------------------------------------------------------------------
(* The refinement *)

(* An empty back end has nothing left to do. *)
LEMMA NothingPending ==
  ASSUME NEW m, NEW r, NEW em, NEW mw, ~em.valid, ~mw.valid
  PROVE  /\ ~mem_traps(em) /\ memory_access(m, em).mem = m
         /\ write_back(write_back(r, mw), memory_access(m, em).next) = r
<1>1. ~mem_traps(em)
  BY DEF mem_traps
<1>2. memory_access(m, em).mem = m /\ memory_access(m, em).next = MemWbBubble
  BY DEF memory_access
<1>3. write_back(r, mw) = r /\ write_back(r, MemWbBubble) = r
  BY DEF write_back, MemWbBubble
<1> QED BY <1>1, <1>2, <1>3

LEMMA EmptyArch ==
  ASSUME Empty
  PROVE  AbsArch = [pc |-> pc, regs |-> regs, mem |-> mem, cp0 |-> cp0]
<1>1. /\ ~mem_traps(ex_mem) /\ AbsMem = mem /\ AbsRegs = regs
  BY NothingPending DEF Empty, AbsMem, AbsRegs
<1>2. AbsPc = pc /\ AbsCp0 = cp0
  BY <1>1 DEF Empty, AbsPc, AbsCp0
<1> QED BY <1>1, <1>2 DEF AbsArch

LEMMA EmptyArchNext ==
  ASSUME Empty'
  PROVE  AbsArch' = [pc |-> pc', regs |-> regs', mem |-> mem', cp0 |-> cp0']
<1>1. /\ ~mem_traps(ex_mem') /\ AbsMem' = mem' /\ AbsRegs' = regs'
  <2>1. ~ex_mem'.valid /\ ~mem_wb'.valid
    BY DEF Empty
  <2> QED BY <2>1, NothingPending DEF AbsMem, AbsRegs
<1>2. AbsPc' = pc' /\ AbsCp0' = cp0'
  BY <1>1 DEF Empty, AbsPc, AbsCp0
<1> QED BY <1>1, <1>2 DEF AbsArch

(* The two record updates that the abstract operations make. *)
Loaded(a, m, p)      == [a EXCEPT !.mem = m, !.pc = p]
WithLastExc(a, code) == [a EXCEPT !.cp0.last_exc = code]
KeepLastExc(c, code) == [c EXCEPT !.last_exc = code]

LEMMA LoadedRecord ==
  ASSUME NEW p, NEW r, NEW m, NEW c, NEW q, NEW n, NEW a,
         a = [pc |-> p, regs |-> r, mem |-> m, cp0 |-> c]
  PROVE  Loaded(a, n, q) = [pc |-> q, regs |-> r, mem |-> n, cp0 |-> c]
<1> DEFINE b == Loaded(a, n, q)
<1>1. b \in [pc : {q}, regs : {r}, mem : {n}, cp0 : {c}]
  BY DEF Loaded
<1>2. b.pc = q /\ b.regs = r /\ b.mem = n /\ b.cp0 = c
  BY DEF Loaded
<1> HIDE DEF b
<1>3. b = [pc |-> b.pc, regs |-> b.regs, mem |-> b.mem, cp0 |-> b.cp0]
  BY <1>1
<1> QED BY <1>2, <1>3 DEF b

LEMMA InitRefines ==
  ASSUME Init
  PROVE  Arch!Init
<1>1. pc \in Word /\ mem \in Memory
  BY InitType DEF TypeOK
<1>2. AbsArch = [pc |-> pc, regs |-> ZeroRegs, mem |-> mem, cp0 |-> PowerOnCp0]
  BY InitEmpty, EmptyArch DEF Init
<1> QED BY <1>1, <1>2, SameWidths DEF Arch!Init, Init

LEMMA StepRefines ==
  ASSUME TypeOK, CommitInv, Step
  PROVE  Arch!Step
<1>1. op' = "step"
  BY StepParts
<1>2. AbsArch' = step(AbsArch).arch \/ AbsArch' = AbsArch
  <2>1. CASE id_ex.valid /\ ~mem_traps(ex_mem)
    BY <2>1, StepCommits DEF CommitInv
  <2>2. CASE ~id_ex.valid /\ ~mem_traps(ex_mem)
    BY <2>2, BubbleKeepsArch
  <2>3. CASE mem_traps(ex_mem)
    BY <2>3, MemTrapKeepsArch
  <2> QED BY <2>1, <2>2, <2>3
<1> QED BY <1>1, <1>2, SameStep DEF Arch!Step

LEMMA LoadRefines ==
  ASSUME PipeInv, LoadProgram
  PROVE  Arch!LoadProgram
<1>1. Empty /\ Empty' /\ regs' = regs /\ cp0' = cp0
  BY DEF LoadProgram, PipeInv, EmptyAfterReset, Empty
<1>2. AbsArch = [pc |-> pc, regs |-> regs, mem |-> mem, cp0 |-> cp0]
  BY <1>1, EmptyArch
<1>3. AbsArch' = [pc |-> pc', regs |-> regs, mem |-> mem', cp0 |-> cp0]
  BY <1>1, EmptyArchNext
<1>4. PICK words \in Programs, addr \in LoadAddrs :
        IF in_bounds(addr, 4 * Len(words))
        THEN mem' = load_words(mem, addr, words) /\ pc' = addr
        ELSE UNCHANGED <<mem, pc>>
  BY DEF LoadProgram
<1>5. AbsArch' = Arch!load_program(AbsArch, words, addr)
  <2>1. CASE in_bounds(addr, 4 * Len(words))
    <3>1. Arch!load_program(AbsArch, words, addr) =
            Loaded(AbsArch, load_words(mem, addr, words), addr)
      BY <1>2, <2>1, SameMemory DEF Arch!load_program, Loaded
    <3>2. mem' = load_words(mem, addr, words) /\ pc' = addr
      BY <1>4, <2>1
    <3> DEFINE m == load_words(mem, addr, words)
    <3> HIDE DEF m
    <3>3. Loaded(AbsArch, m, addr)
            = [pc |-> addr, regs |-> regs, mem |-> m, cp0 |-> cp0]
      BY <1>2, LoadedRecord
    <3> QED BY <1>3, <3>1, <3>2, <3>3 DEF m
  <2>2. CASE ~in_bounds(addr, 4 * Len(words))
    BY <1>2, <1>3, <1>4, <2>2, SameMemory DEF Arch!load_program
  <2> QED BY <2>1, <2>2
<1> QED BY <1>5 DEF Arch!LoadProgram, LoadProgram

(* The code that last_exc_ keeps is the one cp0_ holds, not the one of an  *)
(* instruction whose trap the pipeline abandons.                           *)
LEMMA ResetRefines ==
  ASSUME TypeOK, Reset(TRUE)
  PROVE  Arch!Reset
<1>1. Empty'
  BY DEF Reset, Empty, IfIdBubble, IdExBubble, ExMemBubble, MemWbBubble
<1>2. AbsArch' = [pc |-> 0, regs |-> ZeroRegs, mem |-> ZeroMemory, cp0 |-> cp0_reset(cp0)]
  BY <1>1, EmptyArchNext DEF Reset
<1> DEFINE code == cp0.last_exc
           c    == Arch!cp0_reset(AbsArch.cp0)
           a    == Arch!reset(AbsArch, TRUE)
<1>3. code \in ExceptionCode
  BY DEF TypeOK, Cp0
<1>4. a = [pc |-> 0, regs |-> ZeroRegs, cp0 |-> c, mem |-> ZeroMemory]
  BY SameWidths DEF Arch!reset
<1>5. KeepLastExc(c, code) = cp0_reset(cp0)
  BY SameCp0 DEF cp0_reset, PowerOnCp0, KeepLastExc
<1> HIDE DEF a, c, code
<1>6. WithLastExc(a, code)
        = [pc |-> 0, regs |-> ZeroRegs, mem |-> ZeroMemory, cp0 |-> KeepLastExc(c, code)]
  BY <1>4 DEF WithLastExc, KeepLastExc
<1>7. AbsArch' = [Arch!reset(AbsArch, TRUE) EXCEPT !.cp0.last_exc = code]
  BY <1>2, <1>5, <1>6 DEF WithLastExc, a
<1> QED BY <1>3, <1>7, SameWidths DEF Arch!Reset, Reset

LEMMA SetPcRefines ==
  ASSUME TypeOK, TrapIsPrecise, SetPcToEpc
  PROVE  Arch!SetPc
<1>1. /\ ~if_id.valid /\ ~id_ex.valid /\ ~ex_mem.valid /\ op' = "set_pc" /\ pc' = cp0.epc
      /\ UNCHANGED <<regs, mem, cp0, if_id, id_ex, ex_mem, mem_wb>>
  BY DEF SetPcToEpc, TrapIsPrecise
<1>2. AbsRegs' = AbsRegs /\ AbsMem' = AbsMem /\ AbsCp0' = AbsCp0
  BY <1>1 DEF AbsRegs, AbsMem, AbsCp0
<1>3. AbsPc' = cp0.epc
  BY <1>1 DEF AbsPc, mem_traps
<1>4. cp0.epc \in Word
  BY DEF TypeOK, Cp0
<1>5. AbsArch' = [AbsArch EXCEPT !.pc = cp0.epc]
  BY <1>2, <1>3 DEF AbsArch
<1> QED BY <1>1, <1>4, <1>5, SameWidths DEF Arch!SetPc

(* The pipeline implements the architecture: for every program that does   *)
(* not rewrite instructions in flight, every call of step() executes       *)
(* exactly one instruction of the single-cycle oracle on the state that    *)
(* the pipeline stands for, or none, and load_program(), reset(true) and   *)
(* the debugger's set_pc() do what they do there.                          *)
THEOREM PipelineImplementsArch ==
  ASSUME ResetModes \subseteq {TRUE}
  PROVE  DisciplinedSpec => ImplementsArch
<1>1. Init => Arch!Init
  BY InitRefines
<1>2. TypeOK /\ TrapIsPrecise /\ CommitInv /\ [DisciplinedNext]_vars =>
        [Arch!Next]_<<AbsArch, op>>
  <2> SUFFICES ASSUME TypeOK, TrapIsPrecise, CommitInv, [DisciplinedNext]_vars
               PROVE  [Arch!Next]_<<AbsArch, op>>
    OBVIOUS
  <2>1. CASE DisciplinedStep
    BY <2>1, StepRefines DEF DisciplinedStep, Arch!Next
  <2>2. CASE LoadProgram
    BY <2>2, LoadRefines DEF CommitInv, Arch!Next
  <2>3. ASSUME NEW clear_memory \in ResetModes, Reset(clear_memory)
        PROVE  Arch!Next
    <3>1. clear_memory = TRUE
      OBVIOUS
    <3> QED BY <2>3, <3>1, ResetRefines DEF Arch!Next
  <2>4. CASE SetPcToEpc
    BY <2>4, SetPcRefines DEF Arch!Next
  <2>5. CASE UNCHANGED vars
    BY <2>5 DEF vars, AbsArch, AbsPc, AbsMem, AbsRegs, AbsCp0
  <2> QED BY <2>1, <2>2, <2>3, <2>4, <2>5 DEF DisciplinedNext
<1>3. DisciplinedSpec => Spec
  <2>1. [DisciplinedNext]_vars => [Next]_vars
    BY DEF DisciplinedNext, DisciplinedStep, Next
  <2> QED BY <2>1, PTL DEF DisciplinedSpec, Spec
<1> QED
  BY <1>1, <1>2, <1>3, CommitInvHolds, TrapsArePrecise, PTL
  DEF DisciplinedSpec, ImplementsArch, Arch!Spec

-----------------------------------------------------------------------------
(* The views: what the front ends make of the pipeline's cycles *)

(* The CPU keeps its invariants when the front ends drive it: they clear   *)
(* its memory on every reset.                                              *)
LEMMA ViewsKeepCpu ==
  ASSUME TypeOK, PipeInv, [ViewsNext]_allVars
  PROVE  TypeOK' /\ PipeInv'
<1>1. CASE Cycle
  BY <1>1, StepType, StepPipeInv DEF Cycle
<1>2. CASE OnReset
  <2>1. Reset(TRUE)
    BY <1>2 DEF OnReset
  <2>2. mem' \in Memory /\ regs' \in RegisterFile /\ pc' \in Word
    BY <2>1, ZeroMemoryType, ZeroIsWord DEF Reset, ZeroRegs, RegisterFile
  <2>3. cp0' \in Cp0
    BY <2>1, Cp0ResetType DEF Reset, TypeOK
  <2>4. ps' \in SnapshotType
    BY <2>1, NoPsType DEF Reset
  <2>5. TypeOK'
    BY <2>1, <2>2, <2>3, <2>4, ControlBubbleType, BubblesType
    DEF Reset, TypeOK, SnapshotType, PathsType, Arch!Operation
  <2>6. Empty'
    BY <2>1 DEF Reset, Empty, IfIdBubble, IdExBubble, ExMemBubble, MemWbBubble
  <2> QED
    BY <2>5, <2>6
    DEF Empty, PipeInv, FetchedRight, DecodedRight, FollowsPrediction, LeftExRight, NoLoadUse,
        EmptyAfterReset
<1>3. CASE OnLoad
  <2>1. LoadProgram /\ op = "reset"
    BY <1>3 DEF OnLoad, LoadProgram
  <2>2. TrapIsPrecise
    BY <2>1 DEF TrapIsPrecise
  <2>3. [Next]_vars
    BY <2>1 DEF Next
  <2> QED BY <2>2, <2>3, NextType, NextPipeInv
<1>4. CASE ClearEvents \/ UNCHANGED allVars
  <2>1. UNCHANGED vars
    BY <1>4 DEF ClearEvents, allVars, vars
  <2> QED
    BY <2>1
    DEF vars, TypeOK, PipeInv, FetchedRight, DecodedRight, FollowsPrediction, LeftExRight,
        NoLoadUse, EmptyAfterReset, WritesAsShown
<1> QED BY <1>1, <1>2, <1>3, <1>4 DEF ViewsNext

LEMMA ViewsInitCpu ==
  ASSUME ViewsInit
  PROVE  TypeOK /\ PipeInv /\ Empty
BY InitType, InitEmpty, EmptyPipeInv DEF ViewsInit

(* Which registers hold an instruction, and its address. *)
Held(k) == <<if_id.valid, id_ex.valid, ex_mem.valid, mem_wb.valid>>[k]
Address(k) == <<if_id.pc, id_ex.pc, ex_mem.pc, mem_wb.pc>>[k]

(* An instruction that a register holds after a cycle was in the one       *)
(* before, or it has been fetched, or it is stalled in IF/ID.              *)
LEMMA Moves ==
  ASSUME TypeOK, PipeInv, Step
  PROVE  /\ if_id'.valid /\ Stall => if_id' = if_id /\ id_ex.valid /\ ~id_ex'.valid
         /\ id_ex'.valid => if_id.valid /\ ~Stall /\ id_ex'.pc = if_id.pc
         /\ ex_mem'.valid => id_ex.valid /\ ex_mem'.pc = id_ex.pc
                             /\ id_ex.early_trap # AdEL
         /\ mem_wb'.valid => ex_mem.valid /\ mem_wb'.pc = ex_mem.pc
         /\ if_id'.valid \/ id_ex'.valid => ~Flush
         /\ if_id'.valid => ~Io.jump.taken
         /\ id_ex'.valid => (id_ex'.early_trap = AdEL <=> if_id.fetch_fault)
<1>1. if_id'.valid /\ Stall => if_id' = if_id /\ id_ex.valid /\ ~id_ex'.valid
  BY FrontEnd DEF Stall, load_use_hazard
<1>2. id_ex'.valid => if_id.valid /\ ~Stall /\ id_ex'.pc = if_id.pc
  BY FrontEnd, DecodeFacts
<1>3. ASSUME ex_mem'.valid
      PROVE  id_ex.valid /\ ex_mem'.pc = id_ex.pc /\ id_ex.early_trap # AdEL
  <2>1. ex_mem' = Eo.next /\ DecodedRight
    BY StepParts DEF PipeInv
  <2>2. /\ id_ex.valid /\ id_ex.early_trap = NoCode
        /\ LeavesRight(id_ex, Eo.next)
    BY <1>3, <2>1, EoLeavesRight
  <2> QED BY <2>1, <2>2 DEF NoCode, AdEL, LeavesRight
<1>4. ASSUME mem_wb'.valid
      PROVE  ex_mem.valid /\ mem_wb'.pc = ex_mem.pc
  <2>1. mem_wb' = Mo.next
    BY StepParts
  <2>2. ex_mem.valid /\ ~mem_traps(ex_mem)
    BY <1>4, <2>1 DEF Mo, memory_access, MemWbBubble
  <2>3. ex_mem.valid \in BOOLEAN
    BY DEF TypeOK, ExMem
  <2>4. HandsOn(mem, ex_mem, Mo)
    BY <2>2, <2>3, MemPasses DEF Mo
  <2> QED BY <2>1, <2>2, <2>4 DEF HandsOn
<1>5. /\ if_id'.valid \/ id_ex'.valid => ~Flush
      /\ if_id'.valid => ~Io.jump.taken
  BY FrontEnd
<1>6. id_ex'.valid => (id_ex'.early_trap = AdEL <=> if_id.fetch_fault)
  BY DecodeFacts DEF NoCode, AdEL, RI
<1> QED BY <1>1, <1>2, <1>3, <1>4, <1>5, <1>6

(* What a shown cycle shows. *)
LEMMA ViewsOfStep ==
  ASSUME TypeOK, PipeInv, Step
  PROVE  /\ Len(Views) = 5
         /\ \A s \in Stages : Views[s] \in [valid : BOOLEAN, stalled : BOOLEAN, flushed : BOOLEAN,
                                           pc : Word, raw : Word, who : {Views[s].who}]
         /\ Views[1].who = in_flight'[1]
         /\ \A s \in 2 .. 5 : Views[s].who = in_flight[s - 1]
         /\ Views[1].valid => if_id'.valid
         /\ Views[1].pc = if_id'.pc
         /\ \A s \in 2 .. 5 : Views[s].valid => Held(s - 1)
         /\ \A s \in 2 .. 5 : Views[s].pc = Address(s - 1)
         /\ present(Views[1]) <=> if_id'.valid /\ ~if_id'.fetch_fault /\ ~Stall
         /\ present(Views[2]) <=> if_id.valid /\ ~if_id.fetch_fault /\ ~Stall /\ ~Flush
         /\ present(Views[3]) <=> id_ex.valid /\ id_ex.early_trap # AdEL
         /\ present(Views[4]) <=> ex_mem.valid
         /\ present(Views[5]) <=> mem_wb.valid
         /\ ps'.load_stall = Stall
<1> DEFINE n == next_if_id(Flush, Io, Stall, Mo.mem)
<1>1. if_id' = n /\ ps' = next_ps(Flush, Eo, Io, Stall, n)
  BY StepParts
<1> HIDE DEF n
<1>2. TypeOK'
  BY StepType
<1>3. if_id'.instr \in Word /\ if_id.instr \in Word /\ id_ex.decoded.raw \in Word
      /\ ex_mem.raw \in Word /\ mem_wb.raw \in Word
  BY <1>2 DEF TypeOK, IfId, IdEx, DecodedInstr, ExMem, MemWb
<1>4. ps'.stages \in [1 .. 5 -> StageSnapshot]
  BY <1>2 DEF TypeOK
<1>5. /\ ps'.stages[1] = Stage(if_id'.valid /\ ~if_id'.fetch_fault, Stall,
                              Flush \/ Io.jump.taken, if_id'.pc)
      /\ ps'.stages[2] = Stage(if_id.valid /\ ~if_id.fetch_fault, Stall, Flush, if_id.pc)
      /\ ps'.stages[3] = Stage(id_ex.valid /\ id_ex.early_trap # AdEL, FALSE, FALSE, id_ex.pc)
      /\ ps'.stages[4] = Stage(ex_mem.valid, FALSE, FALSE, ex_mem.pc)
      /\ ps'.stages[5] = Stage(mem_wb.valid, FALSE, FALSE, mem_wb.pc)
      /\ ps'.load_stall = Stall
  BY <1>1 DEF next_ps
<1> DEFINE V(s, raw, who) ==
             [valid |-> ps'.stages[s].valid, stalled |-> ps'.stages[s].stalled,
              flushed |-> ps'.stages[s].flushed, pc |-> ps'.stages[s].pc, raw |-> raw,
              who |-> who]
<1>6. Views = <<V(1, if_id'.instr, in_flight'[1]), V(2, if_id.instr, in_flight[1]),
                V(3, id_ex.decoded.raw, in_flight[2]), V(4, ex_mem.raw, in_flight[3]),
                V(5, mem_wb.raw, in_flight[4])>>
  BY DEF Views, View
<1>7. \A s \in Stages, raw \in Word : \A who :
        V(s, raw, who) \in [valid : BOOLEAN, stalled : BOOLEAN, flushed : BOOLEAN,
                           pc : Word, raw : Word, who : {who}]
  BY <1>4 DEF Stages, StageSnapshot
<1>8. \A s \in Stages : \A raw, who :
        /\ V(s, raw, who).valid = ps'.stages[s].valid
        /\ V(s, raw, who).pc = ps'.stages[s].pc
        /\ V(s, raw, who).who = who /\ V(s, raw, who).raw = raw
        /\ present(V(s, raw, who)) <=>
             ps'.stages[s].valid /\ ~ps'.stages[s].stalled /\ ~ps'.stages[s].flushed
  BY DEF present
<1> HIDE DEF V
<1>9. /\ Views[1] = V(1, if_id'.instr, in_flight'[1])
      /\ Views[2] = V(2, if_id.instr, in_flight[1])
      /\ Views[3] = V(3, id_ex.decoded.raw, in_flight[2])
      /\ Views[4] = V(4, ex_mem.raw, in_flight[3])
      /\ Views[5] = V(5, mem_wb.raw, in_flight[4])
      /\ Len(Views) = 5
  BY <1>6
<1> HIDE DEF Views
<1>10. \A s \in Stages : Views[s].who = IF s = 1 THEN in_flight'[1] ELSE in_flight[s - 1]
  BY <1>8, <1>9 DEF Stages
<1>11. \A s \in Stages : Views[s] \in [valid : BOOLEAN, stalled : BOOLEAN, flushed : BOOLEAN,
                                      pc : Word, raw : Word, who : {Views[s].who}]
  BY <1>3, <1>7, <1>8, <1>9 DEF Stages
<1>13. /\ \A s \in Stages : Views[s].valid = ps'.stages[s].valid
       /\ \A s \in Stages : Views[s].pc = ps'.stages[s].pc
       /\ \A s \in Stages : present(Views[s]) <=>
            ps'.stages[s].valid /\ ~ps'.stages[s].stalled /\ ~ps'.stages[s].flushed
  BY <1>8, <1>9 DEF Stages
<1>21. /\ (if_id'.valid /\ ~if_id'.fetch_fault) \in BOOLEAN
       /\ (if_id.valid /\ ~if_id.fetch_fault) \in BOOLEAN
       /\ (id_ex.valid /\ id_ex.early_trap # AdEL) \in BOOLEAN
       /\ ex_mem.valid \in BOOLEAN /\ mem_wb.valid \in BOOLEAN
       /\ (Flush \/ Io.jump.taken) \in BOOLEAN /\ FALSE \in BOOLEAN
  BY DEF TypeOK, ExMem, MemWb
<1>22. Stall \in BOOLEAN /\ Flush \in BOOLEAN
  BY DEF Stall, load_use_hazard, Flush, ex_flushes
<1>14. /\ Views[1].valid <=> if_id'.valid /\ ~if_id'.fetch_fault
       /\ Views[1].pc = if_id'.pc
       /\ present(Views[1]) <=> if_id'.valid /\ ~if_id'.fetch_fault /\ ~Stall
                                 /\ ~(Flush \/ Io.jump.taken)
  <2> DEFINE v == if_id'.valid /\ ~if_id'.fetch_fault
             f == Flush \/ Io.jump.taken
  <2>1. 1 \in Stages /\ v \in BOOLEAN /\ f \in BOOLEAN
    BY <1>21, <1>22 DEF Stages
  <2>2. ps'.stages[1] = Stage(v, Stall, f, if_id'.pc)
    BY <1>5
  <2> HIDE DEF v, f
  <2>3. (Views[1].valid <=> v) /\ Views[1].pc = if_id'.pc /\ (present(Views[1]) <=> v /\ ~Stall /\ ~f)
    BY <1>13, <1>22, <2>1, <2>2 DEF Stage
  <2> QED BY <2>3 DEF v, f
<1>17. /\ Views[2].valid <=> if_id.valid /\ ~if_id.fetch_fault
       /\ Views[2].pc = if_id.pc
       /\ present(Views[2]) <=> if_id.valid /\ ~if_id.fetch_fault /\ ~Stall /\ ~Flush
  <2> DEFINE v == if_id.valid /\ ~if_id.fetch_fault
             f == Flush
  <2>1. 2 \in Stages /\ v \in BOOLEAN /\ f \in BOOLEAN
    BY <1>21, <1>22 DEF Stages
  <2>2. ps'.stages[2] = Stage(v, Stall, f, if_id.pc)
    BY <1>5
  <2> HIDE DEF v, f
  <2>3. (Views[2].valid <=> v) /\ Views[2].pc = if_id.pc /\ (present(Views[2]) <=> v /\ ~Stall /\ ~f)
    BY <1>13, <1>22, <2>1, <2>2 DEF Stage
  <2> QED BY <2>3 DEF v, f
<1>18. /\ Views[3].valid <=> id_ex.valid /\ id_ex.early_trap # AdEL
       /\ Views[3].pc = id_ex.pc
       /\ present(Views[3]) <=> id_ex.valid /\ id_ex.early_trap # AdEL
  <2> DEFINE v == id_ex.valid /\ id_ex.early_trap # AdEL
             f == FALSE
  <2>1. 3 \in Stages /\ v \in BOOLEAN /\ f \in BOOLEAN
    BY <1>21, <1>22 DEF Stages
  <2>2. ps'.stages[3] = Stage(v, FALSE, f, id_ex.pc)
    BY <1>5
  <2> HIDE DEF v, f
  <2>3. (Views[3].valid <=> v) /\ Views[3].pc = id_ex.pc /\ (present(Views[3]) <=> v /\ ~f)
    BY <1>13, <1>22, <2>1, <2>2 DEF Stage
  <2> QED BY <2>3 DEF v, f
<1>19. /\ Views[4].valid <=> ex_mem.valid
       /\ Views[4].pc = ex_mem.pc
       /\ present(Views[4]) <=> ex_mem.valid
  <2>1. 4 \in Stages
    BY DEF Stages
  <2>2. ps'.stages[4] = Stage(ex_mem.valid, FALSE, FALSE, ex_mem.pc)
    BY <1>5
  <2> QED BY <1>13, <1>21, <1>22, <2>1, <2>2 DEF Stage
<1>20. /\ Views[5].valid <=> mem_wb.valid
       /\ Views[5].pc = mem_wb.pc
       /\ present(Views[5]) <=> mem_wb.valid
  <2>1. 5 \in Stages
    BY DEF Stages
  <2>2. ps'.stages[5] = Stage(mem_wb.valid, FALSE, FALSE, mem_wb.pc)
    BY <1>5
  <2> QED BY <1>13, <1>21, <1>22, <2>1, <2>2 DEF Stage
<1>15. if_id'.valid => ~Flush /\ ~Io.jump.taken
  BY Moves
<1>16. \A s \in 2 .. 5 : (Views[s].valid => Held(s - 1)) /\ Views[s].pc = Address(s - 1)
  BY <1>17, <1>18, <1>19, <1>20 DEF Held, Address
<1> QED BY <1>5, <1>9, <1>10, <1>11, <1>14, <1>15, <1>16, <1>17, <1>18, <1>19, <1>20 DEF Stages

-----------------------------------------------------------------------------
(* The numbers *)

(* The numbers given so far name the registers and the columns; an older   *)
(* instruction has a smaller one; and the columns last shown are the       *)
(* registers, unless a cycle has been throttled since.                     *)
NumbersInv ==
  /\ serial \in Nat /\ cycle \in Nat
  /\ in_flight \in [1 .. 4 -> 0 .. serial]
  /\ \A j, k \in 1 .. 4 : j < k /\ Held(j) /\ Held(k) => in_flight[k] < in_flight[j]
  /\ \A k \in 1 .. 4 : Held(k) => in_flight[k] \in 1 .. serial
  /\ shown.cycle \in 0 .. cycle
  /\ \A s \in Stages : shown.stages[s].who \in 0 .. serial
  /\ shown.cycle = cycle => \A k \in 1 .. 4 : Held(k) => in_flight[k] = shown.stages[k].who

LEMMA NumbersOfStep ==
  ASSUME TypeOK, PipeInv, NumbersInv, Step, Number
  PROVE  /\ serial' \in {serial, serial + 1}
         /\ in_flight' \in [1 .. 4 -> 0 .. serial']
         /\ if_id'.valid /\ ~Stall => serial' = serial + 1 /\ in_flight'[1] = serial'
         /\ if_id'.valid /\ Stall => in_flight'[1] = in_flight[1]
         /\ \A k \in 2 .. 4 : Held(k)' =>
              Held(k - 1) /\ Address(k)' = Address(k - 1) /\ in_flight'[k] = in_flight[k - 1]
         /\ \A j, k \in 1 .. 4 : j < k /\ Held(j)' /\ Held(k)' => in_flight'[k] < in_flight'[j]
         /\ \A k \in 1 .. 4 : Held(k)' => in_flight'[k] \in 1 .. serial'
<1>1. ps'.load_stall = Stall
  BY ViewsOfStep
<1>2. /\ serial' = IF if_id'.valid /\ ~Stall THEN serial + 1 ELSE serial
      /\ in_flight' = <<IF ~if_id'.valid THEN NoWho
                        ELSE IF if_id'.valid /\ ~Stall THEN serial' ELSE in_flight[1],
                        IF id_ex'.valid THEN in_flight[1] ELSE NoWho,
                        IF ex_mem'.valid THEN in_flight[2] ELSE NoWho,
                        IF mem_wb'.valid THEN in_flight[3] ELSE NoWho>>
  BY <1>1, Zenon DEF Number
<1>3. serial \in Nat /\ \A k \in 1 .. 4 : in_flight[k] \in 0 .. serial
  BY DEF NumbersInv
<1>4. /\ in_flight'[1] = IF ~if_id'.valid THEN NoWho
                         ELSE IF if_id'.valid /\ ~Stall THEN serial' ELSE in_flight[1]
      /\ in_flight'[2] = IF id_ex'.valid THEN in_flight[1] ELSE NoWho
      /\ in_flight'[3] = IF ex_mem'.valid THEN in_flight[2] ELSE NoWho
      /\ in_flight'[4] = IF mem_wb'.valid THEN in_flight[3] ELSE NoWho
      /\ DOMAIN in_flight' = 1 .. 4
  BY <1>2
<1>5. serial' \in {serial, serial + 1} /\ serial' \in Nat
  BY <1>2, <1>3
<1>6. in_flight' \in [1 .. 4 -> 0 .. serial']
  <2>1. \A k \in 1 .. 4 : in_flight'[k] \in 0 .. serial'
    BY <1>2, <1>3, <1>4, <1>5 DEF NoWho
  <2>2. in_flight' = [k \in 1 .. 4 |-> in_flight'[k]]
    BY <1>2
  <2> QED BY <2>1, <2>2
<1>7. \A k \in 2 .. 4 : Held(k)' =>
        Held(k - 1) /\ Address(k)' = Address(k - 1) /\ in_flight'[k] = in_flight[k - 1]
  BY <1>4, Moves DEF Held, Address
<1>8. \A k \in 1 .. 4 : Held(k)' => in_flight'[k] \in 1 .. serial'
  <2>1. ASSUME NEW k \in 2 .. 4, Held(k)'
        PROVE  in_flight'[k] \in 1 .. serial'
    <3>1. k - 1 \in 1 .. 4 /\ Held(k - 1) /\ in_flight'[k] = in_flight[k - 1]
      BY <1>7, <2>1
    <3>2. in_flight[k - 1] \in 1 .. serial
      BY <3>1 DEF NumbersInv
    <3> QED BY <1>3, <1>5, <3>1, <3>2
  <2>2. ASSUME if_id'.valid
        PROVE  in_flight'[1] \in 1 .. serial'
    <3>1. CASE ~Stall
      BY <1>2, <1>3, <1>4, <2>2, <3>1
    <3>2. CASE Stall
      <4>1. if_id.valid
        BY <3>2 DEF Stall, load_use_hazard
      <4>2. in_flight[1] \in 1 .. serial
        BY <4>1 DEF NumbersInv, Held
      <4> QED BY <1>4, <1>5, <1>3, <2>2, <3>2, <4>2
    <3> QED BY <3>1, <3>2
  <2>3. \A k \in 1 .. 4 : k = 1 \/ k \in 2 .. 4
    OBVIOUS
  <2>4. Held(1)' = if_id'.valid
    BY DEF Held
  <2> QED BY <2>1, <2>2, <2>3, <2>4
<1>9. ASSUME NEW j \in 1 .. 4, NEW k \in 1 .. 4, j < k, Held(j)', Held(k)'
      PROVE  in_flight'[k] < in_flight'[j]
  <2>1. k \in 2 .. 4 /\ k - 1 \in 1 .. 4
    BY <1>9
  <2>2. Held(k - 1) /\ in_flight'[k] = in_flight[k - 1]
    BY <1>7, <1>9, <2>1
  <2>3. CASE j # 1
    <3>1. j \in 2 .. 4 /\ j - 1 \in 1 .. 4 /\ j - 1 < k - 1
      BY <1>9, <2>3
    <3>2. Held(j - 1) /\ in_flight'[j] = in_flight[j - 1]
      BY <1>7, <1>9, <3>1
    <3> QED BY <2>1, <2>2, <3>1, <3>2 DEF NumbersInv
  <2>4. CASE j = 1
    <3>1. if_id'.valid
      BY <1>9, <2>4 DEF Held
    <3>2. CASE ~Stall
      <4>1. in_flight'[1] = serial + 1
        BY <1>2, <1>4, <3>1, <3>2
      <4> QED BY <1>3, <2>1, <2>2, <2>4, <4>1
    <3>3. CASE Stall
      <4>1. if_id.valid /\ ~id_ex'.valid /\ in_flight'[1] = in_flight[1]
        BY <1>4, <3>1, <3>3, Moves DEF Stall, load_use_hazard
      <4>2. k # 2
        BY <1>9, <4>1 DEF Held
      <4>3. Held(1) /\ 1 < k - 1 /\ 1 \in 1 .. 4
        BY <2>1, <4>1, <4>2 DEF Held
      <4>4. in_flight[k - 1] < in_flight[1]
        BY <2>1, <2>2, <4>3 DEF NumbersInv
      <4> QED BY <2>2, <2>4, <4>1, <4>4
    <3> QED BY <3>2, <3>3
  <2> QED BY <2>3, <2>4
<1> QED BY <1>2, <1>4, <1>5, <1>6, <1>7, <1>8, <1>9

LEMMA ViewsInitNumbers ==
  ASSUME ViewsInit
  PROVE  NumbersInv
<1>1. /\ serial = 0 /\ cycle = 0 /\ in_flight = [k \in 1 .. 4 |-> 0] /\ shown = NothingShown
  BY DEF ViewsInit, NoWho
<1>2. Empty
  BY ViewsInitCpu
<1>3. \A k \in 1 .. 4 : ~Held(k)
  BY <1>2 DEF Held, Empty
<1>4. shown.cycle = 0 /\ \A s \in Stages : shown.stages[s].who = 0
  BY <1>1 DEF NothingShown, NoView, NoWho
<1> QED BY <1>1, <1>3, <1>4 DEF NumbersInv

LEMMA ViewsKeepNumbers ==
  ASSUME TypeOK, PipeInv, NumbersInv, [ViewsNext]_allVars
  PROVE  NumbersInv'
<1>1. CASE Cycle
  <2>1. Step /\ Number /\ cycle' = cycle + 1
    BY <1>1 DEF Cycle
  <2>2. serial' \in {serial, serial + 1} /\ serial \in Nat /\ cycle \in Nat
    BY <2>1, NumbersOfStep DEF NumbersInv
  <2>3. /\ in_flight' \in [1 .. 4 -> 0 .. serial']
        /\ \A k \in 2 .. 4 : Held(k)' => in_flight'[k] = in_flight[k - 1]
        /\ \A j, k \in 1 .. 4 : j < k /\ Held(j)' /\ Held(k)' => in_flight'[k] < in_flight'[j]
        /\ \A k \in 1 .. 4 : Held(k)' => in_flight'[k] \in 1 .. serial'
    BY <2>1, NumbersOfStep
  <2>4. CASE Show
    <3>1. shown' = [cycle |-> cycle', stages |-> Views]
      BY <2>4 DEF Show
    <3>2. shown'.cycle = cycle' /\ shown'.stages = Views
      BY <3>1
    <3>3. /\ Views[1].who = in_flight'[1]
          /\ \A s \in 2 .. 5 : Views[s].who = in_flight[s - 1]
      BY <2>1, ViewsOfStep
    <3>4. \A s \in Stages : shown'.stages[s].who \in 0 .. serial'
      <4>1. \A k \in 1 .. 4 : in_flight[k] \in 0 .. serial /\ in_flight'[k] \in 0 .. serial'
        BY <2>3 DEF NumbersInv
      <4>2. \A s \in Stages : s = 1 \/ (s \in 2 .. 5 /\ s - 1 \in 1 .. 4)
        BY DEF Stages
      <4> QED BY <2>2, <3>2, <3>3, <4>1, <4>2
    <3>5. \A k \in 1 .. 4 : Held(k)' => in_flight'[k] = shown'.stages[k].who
      <4>1. \A k \in 1 .. 4 : k = 1 \/ (k \in 2 .. 4 /\ k \in 2 .. 5)
        OBVIOUS
      <4> QED BY <2>3, <3>2, <3>3, <4>1
    <3>6. shown'.cycle \in 0 .. cycle'
      BY <2>1, <2>2, <3>2
    <3> QED BY <2>1, <2>2, <2>3, <3>4, <3>5, <3>6 DEF NumbersInv
  <2>5. CASE Throttle
    <3>1. shown' = shown
      BY <2>5 DEF Throttle, viewVars
    <3>2. shown'.cycle \in 0 .. cycle' /\ shown'.cycle # cycle'
      BY <2>1, <2>2, <3>1 DEF NumbersInv
    <3>3. \A s \in Stages : shown'.stages[s].who \in 0 .. serial'
      BY <2>2, <3>1 DEF NumbersInv
    <3> QED BY <2>1, <2>2, <2>3, <3>2, <3>3 DEF NumbersInv
  <2> QED BY <1>1, <2>4, <2>5 DEF Cycle
<1>2. CASE OnReset
  <2>1. /\ cycle' = 0 /\ in_flight' = [k \in 1 .. 4 |-> 0] /\ shown' = NothingShown
        /\ serial' = serial
    BY <1>2 DEF OnReset, NoWho
  <2>2. \A k \in 1 .. 4 : ~Held(k)'
    <3>1. ~if_id'.valid /\ ~id_ex'.valid /\ ~ex_mem'.valid /\ ~mem_wb'.valid
      BY <1>2 DEF OnReset, Reset, IfIdBubble, IdExBubble, ExMemBubble, MemWbBubble
    <3> QED BY <3>1 DEF Held
  <2>3. shown'.cycle = 0 /\ \A s \in Stages : shown'.stages[s].who = 0
    BY <2>1 DEF NothingShown, NoView, NoWho
  <2> QED BY <2>1, <2>2, <2>3 DEF NumbersInv
<1>3. CASE OnLoad \/ ClearEvents \/ UNCHANGED allVars
  <2>1. /\ UNCHANGED <<cycle, serial, in_flight, shown>>
        /\ UNCHANGED <<if_id, id_ex, ex_mem, mem_wb>>
    BY <1>3 DEF OnLoad, LoadProgram, ClearEvents, vars, allVars
  <2>2. \A k \in 1 .. 4 : Held(k)' = Held(k)
    BY <2>1 DEF Held
  <2> QED BY <2>1, <2>2 DEF NumbersInv
<1> QED BY <1>1, <1>2, <1>3 DEF ViewsNext

ViewsBase == TypeOK /\ PipeInv /\ NumbersInv

LEMMA ViewsBaseHolds == ViewsSpec => []ViewsBase
<1>1. ViewsInit => ViewsBase
  BY ViewsInitCpu, ViewsInitNumbers DEF ViewsBase
<1>2. ViewsBase /\ [ViewsNext]_allVars => ViewsBase'
  BY ViewsKeepCpu, ViewsKeepNumbers DEF ViewsBase
<1> QED BY <1>1, <1>2, PTL DEF ViewsSpec

-----------------------------------------------------------------------------
(* Tokens *)

LEMMA StepTokens ==
  ASSUME ViewsBase, [ViewsNext]_allVars, shown' # shown, NEW s \in tokens'
  PROVE  IF s = 1 THEN \A t \in Stages : shown.stages[t].who # shown'.stages[1].who
         ELSE shown'.stages[s].who = shown.stages[s - 1].who
<1>1. CASE OnReset
  BY <1>1 DEF OnReset
<1>2. CASE OnLoad \/ ClearEvents \/ UNCHANGED allVars
  BY <1>2 DEF OnLoad, ClearEvents, allVars
<1>3. CASE Cycle
  <2>1. Step /\ Number /\ cycle' = cycle + 1
    BY <1>3 DEF Cycle
  <2>2. Show
    BY <1>3 DEF Cycle, Throttle, viewVars
  <2>3. shown'.stages = Views /\ tokens' = tokensFor(Views, cycle')
    BY <2>2 DEF Show
  <2>4. cycle' = shown.cycle + 1 /\ s \in Stages /\ present(Views[s])
    BY <2>3 DEF tokensFor, slides
  <2>5. shown.cycle = cycle
    BY <2>1, <2>4 DEF ViewsBase, NumbersInv
  <2>6. CASE s = 1
    <3>1. if_id'.valid /\ ~Stall /\ Views[1].who = in_flight'[1]
      BY <2>1, <2>4, <2>6, ViewsOfStep DEF ViewsBase
    <3>2. in_flight'[1] = serial + 1
      BY <2>1, <3>1, NumbersOfStep DEF ViewsBase
    <3>3. \A t \in Stages : shown.stages[t].who \in 0 .. serial /\ serial \in Nat
      BY DEF ViewsBase, NumbersInv
    <3> QED BY <2>3, <2>6, <3>1, <3>2, <3>3
  <2>7. CASE s # 1
    <3>1. s \in 2 .. 5 /\ s - 1 \in 1 .. 4
      BY <2>4, <2>7 DEF Stages
    <3>2. Held(s - 1) /\ Views[s].who = in_flight[s - 1]
      BY <2>1, <2>4, <3>1, ViewsOfStep DEF ViewsBase, present
    <3>3. in_flight[s - 1] = shown.stages[s - 1].who
      BY <2>5, <3>1, <3>2 DEF ViewsBase, NumbersInv
    <3> QED BY <2>3, <2>7, <3>2, <3>3
  <2> QED BY <2>6, <2>7
<1> QED BY <1>1, <1>2, <1>3 DEF ViewsNext

(* A token of the Widgets' datapath never slides between two instructions  *)
(* that only share an address: whatever the program, the cycles that were  *)
(* throttled and the resets between two shown cycles.                      *)
THEOREM TokensAreInstructions == ViewsSpec => TokensFollowInstructions
<1>1. ViewsBase /\ [ViewsNext]_allVars =>
        [shown' # shown =>
           \A s \in tokens' :
             IF s = 1 THEN \A t \in Stages : shown.stages[t].who # shown'.stages[1].who
             ELSE shown'.stages[s].who = shown.stages[s - 1].who]_allVars
  BY StepTokens
<1> QED BY <1>1, ViewsBaseHolds, PTL DEF ViewsSpec, TokensFollowInstructions

-----------------------------------------------------------------------------
(* Collecting loops *)

LEMMA Climb ==
  ASSUME NEW n \in Nat, NEW P, 0 \in P, \A i \in 0 .. n : i < n /\ i \in P => i + 1 \in P
  PROVE  0 .. n \subseteq P
<1> DEFINE B == {i \in 0 .. n : i \notin P}
<1> SUFFICES ASSUME B # {} PROVE FALSE
  OBVIOUS
<1>1. B \in SUBSET Nat
  OBVIOUS
<1>2. PICK m \in B : \A y \in B : ~(<<y, m>> \in OpToRel(<, Nat))
  BY <1>1, NatLessThanWellFounded, WFMin
<1>3. \A y \in Nat : y < m => <<y, m>> \in OpToRel(<, Nat)
  BY <1>1, Zenon DEF OpToRel
<1>4. m \in 0 .. n /\ m \notin P /\ m # 0
  OBVIOUS
<1>5. m - 1 \in 0 .. n /\ m - 1 < n /\ m - 1 < m /\ (m - 1) + 1 = m
  BY <1>4
<1>6. m - 1 \notin B
  <2>1. m - 1 \in Nat
    BY <1>5
  <2>2. <<m - 1, m>> \in OpToRel(<, Nat)
    BY <1>3, <1>5, <2>1
  <2> HIDE DEF B
  <2> QED BY <1>2, <2>2, Zenon
<1> QED BY <1>4, <1>5, <1>6

(* f[e] collects the entries 1 to e that T names, in order. *)
Gathers(f, n, T, entry) ==
  f = [e \in 0 .. n |->
         IF e = 0 THEN <<>> ELSE IF e \in T THEN Append(f[e - 1], entry[e]) ELSE f[e - 1]]

LEMMA GatheringExists ==
  ASSUME NEW n \in Nat, NEW T, NEW entry
  PROVE  \E f : Gathers(f, n, T, entry)
<1> DEFINE grow(e, x) == IF e = 0 THEN <<>> ELSE IF e \in T THEN Append(x, entry[e]) ELSE x
           is(f, k) == f = [e \in 0 .. k |-> grow(e, f[e - 1])]
           P == {k \in Nat : \E f : is(f, k)}
<1>1. \A x, y : grow(0, x) = grow(0, y)
  OBVIOUS
<1>2. \A f : is(f, n) => Gathers(f, n, T, entry)
  BY DEF Gathers
<1> HIDE DEF grow
<1>3. 0 \in P
  <2> DEFINE w == [e \in 0 .. 0 |-> grow(0, 0)]
  <2>1. ASSUME NEW e \in 0 .. 0 PROVE w[e] = grow(e, w[e - 1])
    <3>1. e = 0 /\ \A x : grow(e, x) = grow(0, 0)
      BY <1>1
    <3> QED BY <3>1
  <2>2. w = [e \in 0 .. 0 |-> w[e]]
    OBVIOUS
  <2> HIDE DEF w
  <2>3. is(w, 0)
    BY <2>1, <2>2
  <2> QED BY <2>3
<1>4. ASSUME NEW k \in 0 .. n, k < n, k \in P PROVE k + 1 \in P
  <2>1. PICK w : is(w, k)
    BY <1>4, Zenon
  <2> DEFINE v == [e \in 0 .. k + 1 |-> IF e = k + 1 THEN grow(k + 1, w[k]) ELSE w[e]]
  <2>2. \A e \in 0 .. k : v[e] = w[e] /\ w[e] = grow(e, w[e - 1])
    BY <2>1
  <2>3. v[k + 1] = grow(k + 1, v[k])
    OBVIOUS
  <2>4. v[0] = grow(0, v[-1])
    <3>1. v[0] = grow(0, w[-1])
      BY <2>2
    <3> QED BY <1>1, <3>1
  <2>5. ASSUME NEW e \in 0 .. k + 1 PROVE v[e] = grow(e, v[e - 1])
    <3>1. CASE e = 0
      BY <2>4, <3>1
    <3>2. CASE e = k + 1
      BY <2>3, <3>2
    <3>3. CASE e # 0 /\ e # k + 1
      <4>1. e \in 0 .. k /\ e - 1 \in 0 .. k
        BY <3>3
      <4> QED BY <2>2, <4>1
    <3> QED BY <3>1, <3>2, <3>3
  <2>6. v = [e \in 0 .. k + 1 |-> v[e]]
    OBVIOUS
  <2> HIDE DEF v
  <2>7. is(v, k + 1)
    BY <2>5, <2>6
  <2>8. k + 1 \in Nat
    OBVIOUS
  <2> QED BY <2>7, <2>8
<1> HIDE DEF P
<1>5. n \in P
  <2>1. 0 .. n \subseteq P
    BY <1>3, <1>4, Climb
  <2> QED BY <2>1
<1> QED BY <1>2, <1>5 DEF P

(* What a loop has collected: from is the index each entry came from. *)
Collected(s, e, T, entry, from) ==
  /\ from \in [1 .. Len(s) -> 1 .. e]
  /\ \A i \in 1 .. Len(s) : from[i] \in T /\ s[i] = entry[from[i]]
  /\ \A i, j \in 1 .. Len(s) : i < j => from[i] < from[j]
  /\ \A d \in 1 .. e : d \in T => \E i \in 1 .. Len(s) : from[i] = d

LEMMA GatheringHolds ==
  ASSUME NEW n \in Nat, NEW A, NEW T, NEW entry, \A e \in 1 .. n : e \in T => entry[e] \in A,
         NEW f, Gathers(f, n, T, entry)
  PROVE  f[n] \in Seq(A) /\ \E from : Collected(f[n], n, T, entry, from)
<1> DEFINE P == {e \in Nat : e <= n => f[e] \in Seq(A) /\ \E from : Collected(f[e], e, T, entry, from)}
<1>1. /\ f[0] = <<>>
      /\ \A e \in 1 .. n : f[e] = IF e \in T THEN Append(f[e - 1], entry[e]) ELSE f[e - 1]
  <2>1. \A e \in 0 .. n : f[e] = IF e = 0 THEN <<>>
                                 ELSE IF e \in T THEN Append(f[e - 1], entry[e]) ELSE f[e - 1]
    BY Zenon DEF Gathers
  <2>2. 0 \in 0 .. n /\ \A e \in 1 .. n : e \in 0 .. n /\ e # 0
    OBVIOUS
  <2> QED BY <2>1, <2>2, Zenon
<1>2. 0 \in P
  <2> DEFINE g == [i \in 1 .. 0 |-> 0]
  <2>1. Collected(<<>>, 0, T, entry, g)
    BY DEF Collected
  <2>2. f[0] \in Seq(A) /\ Collected(f[0], 0, T, entry, g)
    BY <1>1, <2>1
  <2> HIDE DEF g
  <2> QED BY <2>2
<1>3. ASSUME NEW k \in 0 .. n, k < n, k \in P PROVE k + 1 \in P
  <2>1. k \in Nat /\ k + 1 \in 1 .. n /\ k + 1 - 1 = k /\ k <= n
    BY <1>3
  <2>2. f[k] \in Seq(A) /\ \E from : Collected(f[k], k, T, entry, from)
    BY <1>3, <2>1
  <2>3. PICK from : Collected(f[k], k, T, entry, from)
    BY <2>2
  <2> DEFINE s == f[k]
  <2>4. f[k + 1] = IF k + 1 \in T THEN Append(f[k], entry[k + 1]) ELSE f[k]
    <3>1. PICK e \in 1 .. n : e = k + 1 /\ e - 1 = k
      BY <2>1
    <3>2. f[e] = IF e \in T THEN Append(f[e - 1], entry[e]) ELSE f[e - 1]
      BY <1>1, Zenon
    <3> QED BY <3>1, <3>2, Zenon
  <2>5. CASE k + 1 \notin T
    <3>1. f[k + 1] = s
      BY <2>4, <2>5
    <3>2. Collected(s, k + 1, T, entry, from)
      <4>1. \A d \in 1 .. k + 1 : d \in T => d \in 1 .. k
        BY <2>1, <2>5
      <4>2. 1 .. k \subseteq 1 .. k + 1
        BY <2>1
      <4> QED BY <2>3, <4>1, <4>2 DEF Collected
    <3> QED BY <2>1, <2>2, <3>1, <3>2
  <2>6. CASE k + 1 \in T
    <3> DEFINE x == entry[k + 1]
               t == Append(s, x)
               m == Len(s)
               g == [i \in 1 .. m + 1 |-> IF i = m + 1 THEN k + 1 ELSE from[i]]
    <3>1. f[k + 1] = t
      BY <2>4, <2>6
    <3>2. x \in A /\ s \in Seq(A) /\ m \in Nat
      BY <2>1, <2>2, <2>6
    <3>3. /\ t \in Seq(A) /\ Len(t) = m + 1
          /\ \A i \in 1 .. m : t[i] = s[i]
          /\ t[m + 1] = x
      BY <3>2, AppendProperties
    <3>4. /\ from \in [1 .. m -> 1 .. k]
          /\ \A i \in 1 .. m : from[i] \in T /\ s[i] = entry[from[i]]
          /\ \A i, j \in 1 .. m : i < j => from[i] < from[j]
          /\ \A d \in 1 .. k : d \in T => \E i \in 1 .. m : from[i] = d
      BY <2>3 DEF Collected
    <3> HIDE DEF s, t, m
    <3>5. g \in [1 .. m + 1 -> 1 .. k + 1] /\ g[m + 1] = k + 1
          /\ \A i \in 1 .. m : g[i] = from[i] /\ g[i] \in 1 .. k
      BY <2>1, <3>2, <3>4
    <3>6. \A i \in 1 .. m + 1 : i = m + 1 \/ i \in 1 .. m
      BY <3>2
    <3> HIDE DEF g
    <3>7. \A i \in 1 .. m + 1 : g[i] \in T /\ t[i] = entry[g[i]]
      BY <2>6, <3>3, <3>4, <3>5, <3>6 DEF x
    <3>8. \A i, j \in 1 .. m + 1 : i < j => g[i] < g[j]
      <4>1. TAKE i, j \in 1 .. m + 1
      <4>2. HAVE i < j
      <4>3. i \in 1 .. m
        BY <3>2, <4>2
      <4>4. CASE j = m + 1
        BY <2>1, <3>5, <4>3, <4>4
      <4>5. CASE j \in 1 .. m
        BY <3>4, <3>5, <4>2, <4>3, <4>5
      <4> QED BY <3>6, <4>4, <4>5
    <3>9. \A d \in 1 .. k + 1 : d \in T => \E i \in 1 .. m + 1 : g[i] = d
      <4>1. ASSUME NEW d \in 1 .. k, d \in T PROVE \E i \in 1 .. m + 1 : g[i] = d
        <5>1. PICK i \in 1 .. m : from[i] = d
          BY <3>4, <4>1
        <5>2. i \in 1 .. m + 1 /\ g[i] = d
          BY <3>2, <3>5, <5>1
        <5> QED BY <5>2
      <4>2. m + 1 \in 1 .. m + 1
        BY <3>2
      <4>3. \A d \in 1 .. k + 1 : d = k + 1 \/ d \in 1 .. k
        BY <2>1
      <4> QED BY <3>5, <4>1, <4>2, <4>3
    <3>10. Collected(t, k + 1, T, entry, g)
      BY <3>3, <3>5, <3>7, <3>8, <3>9 DEF Collected
    <3> QED BY <2>1, <3>1, <3>3, <3>10
  <2> QED BY <2>5, <2>6
<1> HIDE DEF P
<1>4. 0 .. n \subseteq P
  BY <1>2, <1>3, Climb
<1>5. n \in 0 .. n /\ n <= n
  OBVIOUS
<1>6. n \in P
  BY <1>4, <1>5
<1> QED BY <1>5, <1>6 DEF P

-----------------------------------------------------------------------------
(* The event log *)

Moments == [event : 1 .. 6, raw : Word, who : Nat]
Entries == [event : 0 .. 6, raw : Word, who : Nat, cycle : Nat]

InOrder(s) == \A i, j \in 1 .. Len(s) : i < j => Order(s[i]) < Order(s[j])

LEMMA OrderOfEntry ==
  ASSUME NEW n \in Entries
  PROVE  Order(n) \in Nat /\ 7 * n.cycle + 1 <= Order(n) /\ Order(n) <= 7 * n.cycle + 7
<1>1. n.cycle \in Nat /\ n.event \in 0 .. 6
  BY DEF Entries
<1> QED BY <1>1 DEF Order

LEMMA MomentFacts ==
  ASSUME NEW x \in Moments, NEW c \in Nat
  PROVE  /\ entryOf(x, c) \in Entries
         /\ entryOf(x, c).event = x.event /\ x.event \in 1 .. 6 /\ x.event # 0
         /\ entryOf(x, c).cycle = c
         /\ Order(entryOf(x, c)) = 7 * c + x.event
<1>1. x.event \in 1 .. 6 /\ x.raw \in Word /\ x.who \in Nat
  BY DEF Moments
<1>2. /\ entryOf(x, c) \in Entries
      /\ entryOf(x, c).event = x.event /\ entryOf(x, c).cycle = c
  BY <1>1 DEF entryOf, Entries
<1>3. x.event # 0
  BY <1>1
<1> QED BY <1>1, <1>2, <1>3 DEF Order

(* What logEvent() does to the list: it stays in order and within its      *)
(* limit, and what it loses is older than all that it keeps.               *)
LEMMA EntriesLogged ==
  ASSUME log \in Seq(Entries), InOrder(log), NEW news \in Seq(Entries), InOrder(news),
         \A i \in 1 .. Len(log), j \in 1 .. Len(news) : Order(log[i]) < Order(news[j]),
         logEvents(news)
  PROVE  /\ log' \in Seq(Entries) /\ Len(log') <= kMaxEntries /\ InOrder(log')
         /\ \A i \in 1 .. Len(log') : \/ \E j \in 1 .. Len(log) : log'[i] = log[j]
                                     \/ \E j \in 1 .. Len(news) : log'[i] = news[j]
         /\ \A j \in 1 .. Len(log) :
              \/ \E i \in 1 .. Len(log') : log'[i] = log[j]
              \/ Len(log') = kMaxEntries /\ Order(log[j]) < Order(log'[1])
         /\ \A j \in 1 .. Len(news) :
              \/ \E i \in 1 .. Len(log') : log'[i] = news[j]
              \/ Len(log') = kMaxEntries /\ Order(news[j]) < Order(log'[1])
         /\ Len(log) = kMaxEntries =>
              Len(log') = kMaxEntries /\ Order(log[1]) <= Order(log'[1])
<1> DEFINE l == log \o news
           a == Len(log)
           b == Len(news)
<1>1. kMaxEntries \in Nat /\ kMaxEntries >= 1 /\ a \in Nat /\ b \in Nat
  BY ViewsAssumption
<1>2. /\ l \in Seq(Entries) /\ Len(l) = a + b
      /\ \A i \in 1 .. a + b : l[i] = IF i <= a THEN log[i] ELSE news[i - a]
  BY ConcatProperties
<1>3. log' = SubSeq(l, IF Len(l) > kMaxEntries THEN Len(l) - kMaxEntries + 1 ELSE 1, Len(l))
  BY Zenon DEF logEvents
<1> HIDE DEF l, a, b
<1>4. PICK from \in Int, n \in Int :
        /\ n = a + b /\ from = (IF n > kMaxEntries THEN n - kMaxEntries + 1 ELSE 1)
        /\ log' = SubSeq(l, from, n)
  <2> DEFINE n == Len(l)
             from == IF n > kMaxEntries THEN n - kMaxEntries + 1 ELSE 1
  <2>1. n \in Int /\ from \in Int
    BY <1>1, <1>2
  <2>2. log' = SubSeq(l, from, n)
    BY <1>3
  <2> QED BY <1>2, <2>1, <2>2
<1>5. from \in 1 .. n + 1 /\ \A i \in from .. n : i \in 1 .. n /\ l[i] \in Entries
  <2>1. from \in 1 .. n + 1
    BY <1>1, <1>4
  <2> QED BY <1>1, <1>2, <1>4, <2>1
<1>6. /\ log' \in Seq(Entries)
      /\ Len(log') = IF from <= n THEN n - from + 1 ELSE 0
      /\ \A i \in 1 .. n - from + 1 : log'[i] = l[from + i - 1]
  <2> DEFINE t == SubSeq(l, from, n)
  <2>1. \A i \in from .. n : l[i] \in Entries
    BY <1>5
  <2>2. /\ t \in Seq(Entries)
        /\ Len(t) = IF from <= n THEN n - from + 1 ELSE 0
        /\ \A i \in 1 .. n - from + 1 : t[i] = l[from + i - 1]
    BY <2>1, SubSeqProperties
  <2> HIDE DEF t
  <2>3. log' = t
    BY <1>4 DEF t
  <2> QED BY <2>2, <2>3
<1>7. /\ Len(log') = n - from + 1 /\ Len(log') <= kMaxEntries
      /\ from # 1 => Len(log') = kMaxEntries
      /\ a = kMaxEntries => Len(log') = kMaxEntries
  <2>1. CASE n > kMaxEntries
    <3>1. from = n - kMaxEntries + 1 /\ from <= n
      BY <1>1, <1>4, <2>1
    <3>2. Len(log') = n - from + 1
      BY <1>6, <3>1
    <3>3. n - from + 1 = kMaxEntries
      BY <1>1, <1>4, <3>1
    <3> QED BY <1>1, <3>2, <3>3
  <2>2. CASE ~(n > kMaxEntries)
    <3>1. from = 1 /\ n \in Nat /\ n <= kMaxEntries
      BY <1>1, <1>4, <2>2
    <3>2. Len(log') = n
      BY <1>6, <3>1
    <3>3. a = kMaxEntries => n = kMaxEntries
      BY <1>1, <1>4, <3>1
    <3> QED BY <3>1, <3>2, <3>3
  <2> QED BY <2>1, <2>2
<1>8. \A i \in 1 .. Len(log') : from + i - 1 \in 1 .. n /\ log'[i] = l[from + i - 1]
  BY <1>1, <1>4, <1>5, <1>6, <1>7
<1>9. /\ \A i \in 1 .. a : i \in 1 .. n /\ l[i] = log[i]
      /\ \A j \in 1 .. b : a + j \in 1 .. n /\ l[a + j] = news[j]
  <2>1. ASSUME NEW j \in 1 .. b PROVE a + j \in 1 .. n /\ l[a + j] = news[j]
    <3> DEFINE i == a + j
    <3>1. i \in 1 .. n /\ ~(i <= a) /\ i - a = j
      BY <1>1, <1>4
    <3> HIDE DEF i
    <3>2. l[i] = news[i - a]
      BY <1>2, <1>4, <3>1
    <3> QED BY <3>1, <3>2 DEF i
  <2>2. ASSUME NEW i \in 1 .. a PROVE i \in 1 .. n /\ l[i] = log[i]
    <3>1. i \in 1 .. n /\ i \in 1 .. a + b /\ i <= a
      BY <1>1, <1>4
    <3> QED BY <1>2, <3>1
  <2> QED BY <2>1, <2>2
<1>10. \A i \in 1 .. n : i \in 1 .. a \/ \E j \in 1 .. b : i = a + j
  <2>1. TAKE i \in 1 .. n
  <2>2. CASE ~(i <= a)
    <3>1. i - a \in 1 .. b /\ i = a + (i - a)
      BY <1>1, <1>4, <2>2
    <3> QED BY <3>1
  <2> QED BY <1>1, <2>2
<1>11. \A i, j \in 1 .. n : i < j => Order(l[i]) < Order(l[j])
  <2>1. TAKE i, j \in 1 .. n
  <2>2. HAVE i < j
  <2>3. CASE i \in 1 .. a /\ j \in 1 .. a
    BY <1>9, <2>2, <2>3 DEF InOrder, a
  <2>4. CASE i \in 1 .. a /\ j \notin 1 .. a
    <3>1. PICK k \in 1 .. b : j = a + k
      BY <1>10, <2>4
    <3>2. l[i] = log[i] /\ l[j] = news[k]
      BY <1>9, <2>4, <3>1
    <3> QED BY <2>4, <3>1, <3>2 DEF a, b
  <2>5. CASE i \notin 1 .. a
    <3>1. PICK h \in 1 .. b : i = a + h
      BY <1>10, <2>5
    <3>2. j \notin 1 .. a
      BY <1>1, <1>4, <2>2, <3>1
    <3>3. PICK k \in 1 .. b : j = a + k
      BY <1>10, <3>2
    <3>4. h < k
      BY <1>1, <2>2, <3>1, <3>3
    <3>5. l[i] = news[h] /\ l[j] = news[k]
      BY <1>9, <3>1, <3>3
    <3> QED BY <3>4, <3>5 DEF InOrder, b
  <2> QED BY <2>3, <2>4, <2>5
<1>12. InOrder(log')
  <2> SUFFICES ASSUME NEW i \in 1 .. Len(log'), NEW j \in 1 .. Len(log'), i < j
               PROVE  Order(log'[i]) < Order(log'[j])
    BY DEF InOrder
  <2> DEFINE x == from + i - 1
             y == from + j - 1
  <2>1. x \in 1 .. n /\ y \in 1 .. n /\ log'[i] = l[x] /\ log'[j] = l[y]
    BY <1>8
  <2>2. x < y
    OBVIOUS
  <2> HIDE DEF x, y
  <2> QED BY <1>11, <2>1, <2>2
<1>13. ASSUME NEW i \in 1 .. n
       PROVE  \/ \E k \in 1 .. Len(log') : log'[k] = l[i]
              \/ Len(log') = kMaxEntries /\ Order(l[i]) < Order(log'[1])
  <2>1. CASE from <= i
    <3> DEFINE k == i - from + 1
    <3>1. k \in 1 .. Len(log') /\ from + k - 1 = i
      BY <1>7, <2>1
    <3> HIDE DEF k
    <3> QED BY <1>8, <3>1
  <2>2. CASE ~(from <= i)
    <3>1. Len(log') = kMaxEntries /\ 1 \in 1 .. Len(log')
      BY <1>1, <1>5, <1>7, <2>2
    <3>2. log'[1] = l[from] /\ from \in 1 .. n /\ i < from
      BY <1>8, <2>2, <3>1
    <3> QED BY <1>11, <3>1, <3>2
  <2> QED BY <2>1, <2>2
<1>14. ASSUME a = kMaxEntries
       PROVE  Len(log') = kMaxEntries /\ Order(log[1]) <= Order(log'[1])
  <2>1. Len(log') = kMaxEntries /\ 1 \in 1 .. Len(log') /\ 1 \in 1 .. a
    BY <1>1, <1>7, <1>14
  <2>2. log'[1] = l[from] /\ from \in 1 .. n /\ log[1] = l[1] /\ 1 \in 1 .. n
    BY <1>8, <1>9, <2>1
  <2>3. l[from] \in Entries
    BY <1>2, <1>4, <2>2
  <2>4. Order(l[from]) \in Nat
    BY <2>3, OrderOfEntry
  <2>5. CASE from = 1
    BY <2>1, <2>2, <2>4, <2>5
  <2>6. CASE from # 1
    <3>1. 1 < from
      BY <1>5, <2>6
    <3>2. Order(l[1]) < Order(l[from])
      BY <1>11, <2>2, <3>1
    <3>3. Order(l[1]) \in Nat
      <4>1. l[1] \in Entries
        BY <1>2, <1>4, <2>2
      <4> QED BY <4>1, OrderOfEntry
    <3> QED BY <2>1, <2>2, <2>4, <3>2, <3>3
  <2> QED BY <2>5, <2>6
<1>15. \A i \in 1 .. Len(log') : \/ \E j \in 1 .. a : log'[i] = log[j]
                                \/ \E j \in 1 .. b : log'[i] = news[j]
  <2>1. TAKE i \in 1 .. Len(log')
  <2> DEFINE x == from + i - 1
  <2>2. x \in 1 .. n /\ log'[i] = l[x]
    BY <1>8
  <2> HIDE DEF x
  <2>3. CASE x \in 1 .. a
    BY <1>9, <2>2, <2>3
  <2>4. CASE \E j \in 1 .. b : x = a + j
    BY <1>9, <2>2, <2>4
  <2> QED BY <1>10, <2>2, <2>3, <2>4
<1> QED BY <1>6, <1>7, <1>9, <1>12, <1>13, <1>14, <1>15 DEF a, b

(* What updateCycle() logs for a cycle c with the stages vs. *)
Seen(vs, p) == {moment(e, vs) : e \in {d \in 1 .. 6 : fired(p)[d]}}
KeysOf(K) == {key(x) : x \in K}

LogsEvents(vs, c, p) ==
  /\ Seen(vs, p) \subseteq Moments
  /\ \E news \in Seq(Entries) :
       /\ logEvents(news)
       /\ InOrder(news)
       /\ \A i \in 1 .. Len(news) :
            /\ news[i].cycle = c
            /\ \/ news[i].event = 0
               \/ \E x \in Seen(vs, p) : ~continued(key(x), c) /\ news[i] = entryOf(x, c)
       /\ \A x \in Seen(vs, p) :
            ~continued(key(x), c) => \E i \in 1 .. Len(news) : news[i] = entryOf(x, c)
  /\ recent' = [k \in DOMAIN recent \cup KeysOf(Seen(vs, p)) |->
                 IF k \in KeysOf(Seen(vs, p)) THEN c ELSE recent[k]]
  /\ history' = [d \in DOMAIN history \cup {c} |->
                 IF d = c THEN Seen(vs, p) ELSE history[d]]

LEMMA EventsCollected ==
  ASSUME NEW vs, \A s \in Stages : vs[s].raw \in Word /\ vs[s].who \in Nat, NEW c \in Nat,
         NEW p, NEW r, eventsUpdate(vs, c, p, r)
  PROVE  LogsEvents(vs, c, p)
<1> DEFINE new(e) == fired(p)[e] /\ ~continued(key(moment(e, vs)), c)
           item(e) == entryOf(moment(e, vs), c)
           body(w) == w = [e \in 0 .. 6 |->
                             IF e = 0 THEN <<>>
                             ELSE IF new(e) THEN Append(w[e - 1], item(e)) ELSE w[e - 1]]
           N == CHOOSE w : body(w)
           T == {e \in 1 .. 6 : new(e)}
           entry == [e \in 1 .. 6 |-> item(e)]
           more == IF r = "Ok" THEN <<>> ELSE <<Milestone(c)>>
<1>1. /\ logEvents(N[6] \o more)
      /\ recent' = [k \in DOMAIN recent \cup KeysOf(Seen(vs, p)) |->
                     IF k \in KeysOf(Seen(vs, p)) THEN c ELSE recent[k]]
      /\ history' = [d \in DOMAIN history \cup {c} |->
                     IF d = c THEN Seen(vs, p) ELSE history[d]]
  BY Zenon DEF eventsUpdate, Seen, KeysOf
<1>2. ASSUME NEW e \in 1 .. 6
      PROVE  /\ moment(e, vs) \in Moments /\ item(e) \in Entries
             /\ item(e).cycle = c /\ Order(item(e)) = 7 * c + e
  <2>1. eventStage(e) \in Stages
    BY DEF eventStage, Stages
  <2> DEFINE x == IF vs[eventStage(e)].valid THEN vs[eventStage(e)].raw ELSE 0
             w == vs[eventStage(e)].who
  <2>2. x \in Word /\ w \in Nat
    BY <2>1, ZeroIsWord
  <2>3. moment(e, vs) = [event |-> e, raw |-> x, who |-> w]
    BY DEF moment
  <2> HIDE DEF x, w
  <2>4. moment(e, vs) \in Moments /\ moment(e, vs).event = e
    BY <2>2, <2>3 DEF Moments
  <2> QED BY <2>4, MomentFacts
<1>3. Seen(vs, p) \subseteq Moments
  BY <1>2 DEF Seen
<1> HIDE DEF new, item
<1>4. \A w : body(w) <=> Gathers(w, 6, T, entry)
  <2>1. ASSUME NEW w, NEW e \in 0 .. 6
        PROVE  (IF e = 0 THEN <<>> ELSE IF new(e) THEN Append(w[e - 1], item(e)) ELSE w[e - 1])
               = (IF e = 0 THEN <<>> ELSE IF e \in T THEN Append(w[e - 1], entry[e]) ELSE w[e - 1])
    <3>1. e # 0 => e \in 1 .. 6
      OBVIOUS
    <3>2. e # 0 => (e \in T <=> new(e)) /\ entry[e] = item(e)
      BY <3>1
    <3> QED BY <3>2, Zenon
  <2> DEFINE f(w) == [e \in 0 .. 6 |->
                        IF e = 0 THEN <<>>
                        ELSE IF new(e) THEN Append(w[e - 1], item(e)) ELSE w[e - 1]]
             g(w) == [e \in 0 .. 6 |->
                        IF e = 0 THEN <<>>
                        ELSE IF e \in T THEN Append(w[e - 1], entry[e]) ELSE w[e - 1]]
  <2>2. \A w : f(w) = g(w)
    BY <2>1
  <2>3. \A w : (body(w) <=> w = f(w)) /\ (Gathers(w, 6, T, entry) <=> w = g(w))
    BY Zenon DEF Gathers
  <2> HIDE DEF f, g, body
  <2> QED BY <2>2, <2>3
<1>5. Gathers(N, 6, T, entry)
  <2>1. PICK w : Gathers(w, 6, T, entry)
    BY GatheringExists
  <2>2. body(w)
    BY <1>4, <2>1, Zenon
  <2> HIDE DEF body
  <2>3. body(N)
    BY <2>2, Zenon
  <2> QED BY <1>4, <2>3, Zenon
<1>6. \A e \in 1 .. 6 : e \in T => entry[e] \in Entries
  BY <1>2
<1> DEFINE t == N[6]
<1> HIDE DEF N, T, entry
<1>7. t \in Seq(Entries) /\ \E from : Collected(t, 6, T, entry, from)
  BY <1>5, <1>6, GatheringHolds
<1>8. PICK from : Collected(t, 6, T, entry, from)
  BY <1>7
<1> HIDE DEF t
<1>9. \A e \in 1 .. 6 : (e \in T <=> new(e)) /\ entry[e] = item(e)
  BY DEF T, entry
<1>10. ASSUME NEW i \in 1 .. Len(t)
       PROVE  /\ from[i] \in 1 .. 6 /\ t[i].cycle = c /\ Order(t[i]) = 7 * c + from[i]
              /\ \E x \in Seen(vs, p) : ~continued(key(x), c) /\ t[i] = entryOf(x, c)
  <2>1. from[i] \in 1 .. 6 /\ from[i] \in T /\ t[i] = entry[from[i]]
    BY <1>8 DEF Collected
  <2>2. new(from[i]) /\ t[i] = item(from[i])
    BY <1>9, <2>1
  <2>3. t[i].cycle = c /\ Order(t[i]) = 7 * c + from[i]
    BY <1>2, <2>1, <2>2
  <2>4. moment(from[i], vs) \in Seen(vs, p)
    BY <2>1, <2>2 DEF Seen, new
  <2> QED BY <2>1, <2>2, <2>3, <2>4 DEF new, item
<1>11. ASSUME NEW x \in Seen(vs, p), ~continued(key(x), c)
       PROVE  \E i \in 1 .. Len(t) : t[i] = entryOf(x, c)
  <2>1. PICK e \in 1 .. 6 : fired(p)[e] /\ x = moment(e, vs)
    BY DEF Seen
  <2>2. e \in T
    BY <1>9, <1>11, <2>1 DEF new
  <2>3. PICK i \in 1 .. Len(t) : from[i] = e
    BY <1>8, <2>2 DEF Collected
  <2>4. t[i] = entry[e]
    BY <1>8, <2>3 DEF Collected
  <2> QED BY <1>9, <2>1, <2>3, <2>4 DEF item
<1>12. /\ more \in Seq(Entries) /\ Len(more) \in {0, 1}
       /\ \A i \in 1 .. Len(more) :
            more[i].event = 0 /\ more[i].cycle = c /\ Order(more[i]) = 7 * c + 7
  <2>1. /\ Milestone(c) \in Entries /\ Milestone(c).event = 0 /\ Milestone(c).cycle = c
        /\ Order(Milestone(c)) = 7 * c + 7
    BY ZeroIsWord DEF Milestone, Entries, NoWho, Order
  <2>2. CASE r = "Ok"
    BY <2>2
  <2>3. CASE r # "Ok"
    <3>1. more = <<Milestone(c)>> /\ more \in Seq(Entries) /\ Len(more) = 1
      BY <2>1, <2>3
    <3>2. \A i \in 1 .. Len(more) : more[i] = Milestone(c)
      BY <3>1
    <3> QED BY <2>1, <3>1, <3>2
  <2> QED BY <2>2, <2>3
<1> HIDE DEF more
<1> DEFINE news == t \o more
<1>13. /\ news \in Seq(Entries) /\ Len(news) = Len(t) + Len(more)
       /\ \A i \in 1 .. Len(t) + Len(more) :
            news[i] = IF i <= Len(t) THEN t[i] ELSE more[i - Len(t)]
  BY <1>7, <1>12, ConcatProperties DEF t
<1>14. logEvents(news)
  BY <1>1 DEF t
<1>15. Len(t) \in Nat
  BY <1>7 DEF t
<1> HIDE DEF news
<1>16. \A i \in 1 .. Len(news) :
         \/ i \in 1 .. Len(t) /\ news[i] = t[i]
         \/ i = Len(t) + 1 /\ Len(more) = 1 /\ news[i] = more[1]
  BY <1>12, <1>13, <1>15
<1>17. \A i \in 1 .. Len(news) :
         /\ news[i].cycle = c
         /\ \/ news[i].event = 0
            \/ \E x \in Seen(vs, p) : ~continued(key(x), c) /\ news[i] = entryOf(x, c)
  <2>1. TAKE i \in 1 .. Len(news)
  <2>2. CASE i \in 1 .. Len(t) /\ news[i] = t[i]
    BY <1>10, <2>2
  <2>3. CASE Len(more) = 1 /\ news[i] = more[1]
    BY <1>12, <2>3
  <2> QED BY <1>16, <2>2, <2>3
<1>18. \A x \in Seen(vs, p) :
         ~continued(key(x), c) => \E i \in 1 .. Len(news) : news[i] = entryOf(x, c)
  <2>1. \A i \in 1 .. Len(t) : i \in 1 .. Len(news) /\ news[i] = t[i]
    BY <1>12, <1>13, <1>15
  <2> QED BY <1>11, <2>1
<1>19. InOrder(news)
  <2> SUFFICES ASSUME NEW i \in 1 .. Len(news), NEW j \in 1 .. Len(news), i < j
               PROVE  Order(news[i]) < Order(news[j])
    BY DEF InOrder
  <2>1. i \in 1 .. Len(t) /\ news[i] = t[i]
    BY <1>15, <1>16, <1>13, <1>12
  <2> DEFINE m == 7 * c
             o == Order(news[i])
             q == Order(news[j])
             d == from[i]
             e == from[j]
  <2>2. m \in Nat
    OBVIOUS
  <2>5. d \in 1 .. 6 /\ o = m + d
    BY <1>10, <2>1
  <2>3. CASE j \in 1 .. Len(t) /\ news[j] = t[j]
    <3>1. e \in 1 .. 6 /\ q = m + e
      BY <1>10, <2>3
    <3>2. d < e
      BY <1>8, <2>1, <2>3 DEF Collected
    <3> HIDE DEF m, o, q, d, e
    <3>3. o < q
      BY <2>2, <2>5, <3>1, <3>2
    <3> QED BY <3>3 DEF o, q
  <2>4. CASE Len(more) = 1 /\ news[j] = more[1]
    <3>1. q = m + 7
      BY <1>12, <2>4
    <3> HIDE DEF m, o, q, d, e
    <3>2. o < q
      BY <2>2, <2>5, <3>1
    <3> QED BY <3>2 DEF o, q
  <2> QED BY <1>16, <2>3, <2>4
<1> QED BY <1>1, <1>3, <1>13, <1>14, <1>17, <1>18, <1>19 DEF LogsEvents

(* recent_ holds, of every event that has been seen, the last cycle it was *)
(* seen in.                                                                *)
LogInv ==
  /\ log \in Seq(Entries)
  /\ \A i \in 1 .. Len(log) : log[i].cycle <= cycle
  /\ \A d \in DOMAIN history : d \in 0 .. cycle /\ history[d] \subseteq Moments
  /\ \A k \in DOMAIN recent :
       recent[k] \in DOMAIN history /\ \E x \in history[recent[k]] : key(x) = k
  /\ \A d \in DOMAIN history : \A x \in history[d] :
       key(x) \in DOMAIN recent /\ d <= recent[key(x)]
  /\ op = "reset" => log = <<>> /\ history = <<>>
  /\ LogLosesOnlyRepeats

LEMMA EmptyLogInv ==
  ASSUME log = <<>>, recent = <<>>, history = <<>>
  PROVE  LogInv
<1>1. log \in Seq(Entries) /\ Len(log) = 0 /\ Len(log) <= kMaxEntries
  BY ViewsAssumption
<1>2. DOMAIN history = {} /\ DOMAIN recent = {}
  OBVIOUS
<1> QED BY <1>1, <1>2 DEF LogInv, LogLosesOnlyRepeats

LEMMA ClearedLogInv ==
  ASSUME log' = <<>>, recent' = <<>>, history' = <<>>
  PROVE  LogInv'
<1>1. log' \in Seq(Entries) /\ Len(log') = 0 /\ Len(log') <= kMaxEntries
  BY ViewsAssumption
<1>2. DOMAIN history' = {} /\ DOMAIN recent' = {}
  OBVIOUS
<1> QED BY <1>1, <1>2 DEF LogInv, LogLosesOnlyRepeats

LEMMA ShowKeepsLog ==
  ASSUME ViewsBase, NumbersInv', LogInv, Step, cycle' = cycle + 1, Show
  PROVE  LogInv'
<1> DEFINE vs == Views
           c  == cycle'
           p  == ps'
           r  == result'
           K  == Seen(vs, p)
           Q  == KeysOf(K)
<1>1. cycle \in Nat /\ c = cycle + 1 /\ c \in Nat
  BY DEF ViewsBase, NumbersInv
<1>2. eventsUpdate(vs, c, p, r)
  BY DEF Show
<1>3. \A s \in Stages : vs[s].raw \in Word /\ vs[s].who \in Nat
  <2>1. \A s \in Stages : vs[s].raw \in Word
    BY ViewsOfStep DEF ViewsBase
  <2>2. shown'.stages = vs
    BY DEF Show
  <2>3. serial' \in Nat /\ \A s \in Stages : shown'.stages[s].who \in 0 .. serial'
    BY DEF NumbersInv
  <2>4. \A s \in Stages : shown'.stages[s].who \in Nat
    BY <2>3
  <2> HIDE DEF vs
  <2> QED BY <2>1, <2>2, <2>4
<1> HIDE DEF vs, c, p, r
<1>4. /\ K \subseteq Moments
      /\ \E news \in Seq(Entries) :
           /\ logEvents(news)
           /\ InOrder(news)
           /\ \A i \in 1 .. Len(news) :
                /\ news[i].cycle = c
                /\ \/ news[i].event = 0
                   \/ \E x \in K : ~continued(key(x), c) /\ news[i] = entryOf(x, c)
           /\ \A x \in K :
                ~continued(key(x), c) => \E i \in 1 .. Len(news) : news[i] = entryOf(x, c)
      /\ recent' = [k \in DOMAIN recent \cup Q |-> IF k \in Q THEN c ELSE recent[k]]
      /\ history' = [d \in DOMAIN history \cup {c} |-> IF d = c THEN K ELSE history[d]]
  <2>1. LogsEvents(vs, c, p)
    BY <1>1, <1>2, <1>3, EventsCollected
  <2> QED BY <2>1, Zenon DEF LogsEvents
<1>5. PICK news \in Seq(Entries) :
        /\ logEvents(news)
        /\ InOrder(news)
        /\ \A i \in 1 .. Len(news) :
             /\ news[i].cycle = c
             /\ \/ news[i].event = 0
                \/ \E x \in K : ~continued(key(x), c) /\ news[i] = entryOf(x, c)
        /\ \A x \in K :
             ~continued(key(x), c) => \E i \in 1 .. Len(news) : news[i] = entryOf(x, c)
  BY <1>4
<1>6. \A k : k \in Q <=> \E x \in K : key(x) = k
  BY Zenon DEF KeysOf
<1> HIDE DEF K, Q
<1>7. /\ \A i \in 1 .. Len(log) : log[i] \in Entries /\ log[i].cycle <= cycle
      /\ \A d \in DOMAIN history : d \in 0 .. cycle /\ d # c /\ d - 1 # c
                                   /\ history[d] \subseteq Moments
      /\ \A k \in DOMAIN recent :
           recent[k] \in DOMAIN history /\ \E x \in history[recent[k]] : key(x) = k
      /\ \A d \in DOMAIN history : \A x \in history[d] :
           key(x) \in DOMAIN recent /\ d <= recent[key(x)]
  BY <1>1 DEF LogInv
<1>8. \A i \in 1 .. Len(log), j \in 1 .. Len(news) : Order(log[i]) < Order(news[j])
  <2>1. TAKE i \in 1 .. Len(log), j \in 1 .. Len(news)
  <2>2. log[i] \in Entries /\ log[i].cycle <= cycle /\ news[j] \in Entries /\ news[j].cycle = c
    BY <1>5, <1>7
  <2>3. log[i].cycle \in Nat
    BY <2>2 DEF Entries
  <2>4. /\ Order(log[i]) \in Nat /\ Order(log[i]) <= 7 * log[i].cycle + 7
        /\ Order(news[j]) \in Nat /\ 7 * c + 1 <= Order(news[j])
    BY <2>2, OrderOfEntry
  <2> DEFINE o == Order(log[i])
             q == Order(news[j])
             e == log[i].cycle
  <2>5. /\ o \in Nat /\ q \in Nat /\ e \in Nat /\ e <= cycle
        /\ o <= 7 * e + 7 /\ 7 * c + 1 <= q
    BY <2>2, <2>3, <2>4
  <2> HIDE DEF o, q, e
  <2>6. o < q
    BY <1>1, <2>5
  <2> QED BY <2>6 DEF o, q
<1>9. /\ log' \in Seq(Entries) /\ Len(log') <= kMaxEntries /\ InOrder(log')
      /\ \A i \in 1 .. Len(log') : \/ \E j \in 1 .. Len(log) : log'[i] = log[j]
                                  \/ \E j \in 1 .. Len(news) : log'[i] = news[j]
      /\ \A j \in 1 .. Len(log) :
           \/ \E i \in 1 .. Len(log') : log'[i] = log[j]
           \/ Len(log') = kMaxEntries /\ Order(log[j]) < Order(log'[1])
      /\ \A j \in 1 .. Len(news) :
           \/ \E i \in 1 .. Len(log') : log'[i] = news[j]
           \/ Len(log') = kMaxEntries /\ Order(news[j]) < Order(log'[1])
      /\ Len(log) = kMaxEntries =>
           Len(log') = kMaxEntries /\ Order(log[1]) <= Order(log'[1])
  <2>1. log \in Seq(Entries) /\ InOrder(log)
    BY DEF LogInv, LogLosesOnlyRepeats, InOrder
  <2> QED BY <1>5, <1>8, <2>1, EntriesLogged
<1>10. /\ DOMAIN history' = DOMAIN history \cup {c} /\ history'[c] = K
       /\ \A d \in DOMAIN history : history'[d] = history[d]
       /\ DOMAIN recent' = DOMAIN recent \cup Q
       /\ \A k \in Q : recent'[k] = c
       /\ \A k \in DOMAIN recent : k \notin Q => recent'[k] = recent[k]
  BY <1>4, <1>7
<1>11. \A d \in DOMAIN history' : d \in 0 .. cycle' /\ history'[d] \subseteq Moments
  <2>1. \A d \in 0 .. cycle : d \in 0 .. cycle'
    BY <1>1 DEF c
  <2>2. c \in 0 .. cycle'
    BY <1>1 DEF c
  <2> QED BY <1>4, <1>7, <1>10, <2>1, <2>2
<1>12. \A k \in DOMAIN recent' :
         recent'[k] \in DOMAIN history' /\ \E x \in history'[recent'[k]] : key(x) = k
  <2>1. TAKE k \in DOMAIN recent'
  <2>2. CASE k \in Q
    BY <1>6, <1>10, <2>2
  <2>3. CASE k \notin Q
    <3>1. k \in DOMAIN recent /\ recent'[k] = recent[k]
      BY <1>10, <2>3
    <3> QED BY <1>7, <1>10, <3>1
  <2> QED BY <2>2, <2>3
<1>13. \A d \in DOMAIN history' : \A x \in history'[d] :
         key(x) \in DOMAIN recent' /\ d <= recent'[key(x)]
  <2>1. TAKE d \in DOMAIN history'
  <2>2. TAKE x \in history'[d]
  <2>3. CASE d = c
    <3>1. key(x) \in Q
      BY <1>6, <1>10, <2>3
    <3> QED BY <1>1, <1>10, <2>3, <3>1
  <2>4. CASE d # c
    <3>1. d \in DOMAIN history /\ x \in history[d]
      BY <1>10, <2>4
    <3>2. key(x) \in DOMAIN recent /\ d <= recent[key(x)] /\ d \in 0 .. cycle
      BY <1>7, <3>1
    <3>3. CASE key(x) \in Q
      BY <1>1, <1>10, <3>2, <3>3
    <3>4. CASE key(x) \notin Q
      BY <1>10, <3>2, <3>4
    <3> QED BY <3>3, <3>4
  <2> QED BY <2>3, <2>4
<1>14. \A i \in 1 .. Len(log') : log'[i].cycle <= cycle'
  <2>1. TAKE i \in 1 .. Len(log')
  <2>2. ASSUME NEW j \in 1 .. Len(log), log'[i] = log[j] PROVE log'[i].cycle <= cycle'
    <3>1. log[j].cycle \in Nat /\ log[j].cycle <= cycle
      BY <1>7 DEF Entries
    <3> QED BY <1>1, <2>2, <3>1 DEF c
  <2>3. ASSUME NEW j \in 1 .. Len(news), log'[i] = news[j] PROVE log'[i].cycle <= cycle'
    BY <1>1, <1>5, <2>3 DEF c
  <2> QED BY <1>9, <2>2, <2>3
<1>15. \A x \in K : continued(key(x), c) <=>
         c - 1 \in DOMAIN history' /\ \E y \in history'[c - 1] : key(y) = key(x)
  <2>1. TAKE x \in K
  <2>2. ASSUME continued(key(x), c)
        PROVE  c - 1 \in DOMAIN history' /\ \E y \in history'[c - 1] : key(y) = key(x)
    <3>1. key(x) \in DOMAIN recent /\ recent[key(x)] \in {c - 1, c}
      BY <2>2 DEF continued
    <3>2. recent[key(x)] \in DOMAIN history /\ recent[key(x)] # c
      BY <1>7, <3>1
    <3>3. c - 1 \in DOMAIN history /\ \E y \in history[c - 1] : key(y) = key(x)
      BY <1>7, <3>1, <3>2
    <3> QED BY <1>10, <3>3
  <2>3. ASSUME c - 1 \in DOMAIN history', NEW y \in history'[c - 1], key(y) = key(x)
        PROVE  continued(key(x), c)
    <3>1. c - 1 \in DOMAIN history /\ y \in history[c - 1]
      BY <1>1, <1>10, <2>3
    <3>2. key(x) \in DOMAIN recent /\ c - 1 <= recent[key(x)]
      BY <1>7, <2>3, <3>1
    <3>3. recent[key(x)] \in 0 .. cycle
      BY <1>7, <3>2
    <3>4. recent[key(x)] = c - 1
      BY <1>1, <3>2, <3>3
    <3> QED BY <3>2, <3>4 DEF continued
  <2> QED BY <2>2, <2>3
<1> DEFINE Again(x, d) == d - 1 \in DOMAIN history' /\ \E y \in history'[d - 1] : key(y) = key(x)
<1>16. ASSUME NEW d \in DOMAIN history, NEW x
       PROVE  Again(x, d) <=> Repeats(x, d)
  <2>1. d \in 0 .. cycle /\ d - 1 # c
    BY <1>7
  <2> QED BY <1>10, <2>1 DEF Repeats
<1>17. \A x \in K : continued(key(x), c) <=> Again(x, c)
  BY <1>15
<1> HIDE DEF Again
<1>18. ASSUME NEW i \in 1 .. Len(log'), log'[i].event # 0
       PROVE  /\ log'[i].cycle \in DOMAIN history'
              /\ \E x \in history'[log'[i].cycle] :
                   log'[i] = entryOf(x, log'[i].cycle) /\ ~Again(x, log'[i].cycle)
  <2>1. ASSUME NEW j \in 1 .. Len(log), log'[i] = log[j]
        PROVE  /\ log'[i].cycle \in DOMAIN history'
               /\ \E x \in history'[log'[i].cycle] :
                    log'[i] = entryOf(x, log'[i].cycle) /\ ~Again(x, log'[i].cycle)
    <3>1. PICK d : d = log[j].cycle
      OBVIOUS
    <3>2. /\ d \in DOMAIN history
          /\ \E x \in history[d] : log[j] = entryOf(x, d) /\ ~Repeats(x, d)
      BY <1>18, <2>1, <3>1 DEF LogInv, LogLosesOnlyRepeats
    <3> QED BY <1>10, <1>16, <2>1, <3>1, <3>2
  <2>2. ASSUME NEW j \in 1 .. Len(news), log'[i] = news[j]
        PROVE  /\ log'[i].cycle \in DOMAIN history'
               /\ \E x \in history'[log'[i].cycle] :
                    log'[i] = entryOf(x, log'[i].cycle) /\ ~Again(x, log'[i].cycle)
    <3>1. PICK x \in K : ~continued(key(x), c) /\ news[j] = entryOf(x, c)
      BY <1>5, <1>18, <2>2
    <3>2. log'[i].cycle = c /\ ~Again(x, c)
      BY <1>5, <1>17, <2>2, <3>1
    <3> QED BY <1>10, <2>2, <3>1, <3>2
  <2> QED BY <1>9, <2>1, <2>2
<1>19. ASSUME NEW d \in DOMAIN history', NEW x \in history'[d]
       PROVE  \/ \E i \in 1 .. Len(log') : log'[i] = entryOf(x, d)
              \/ Len(log') = kMaxEntries /\ Order(entryOf(x, d)) < Order(log'[1])
              \/ Again(x, d)
  <2>1. CASE d = c
    <3>1. x \in K
      BY <1>10, <2>1
    <3>2. CASE continued(key(x), c)
      BY <1>17, <2>1, <3>1, <3>2
    <3>3. CASE ~continued(key(x), c)
      <4>1. PICK j \in 1 .. Len(news) : news[j] = entryOf(x, c)
        BY <1>5, <3>1, <3>3
      <4> QED BY <1>9, <2>1, <4>1
    <3> QED BY <3>2, <3>3
  <2>2. CASE d # c
    <3>1. d \in DOMAIN history /\ x \in history[d]
      BY <1>10, <2>2
    <3>2. Told(x, d) \/ Dropped(x, d) \/ Repeats(x, d)
      BY <3>1 DEF LogInv, LogLosesOnlyRepeats
    <3>3. CASE Told(x, d)
      <4>1. PICK j \in 1 .. Len(log) : log[j] = entryOf(x, d)
        BY <3>3 DEF Told
      <4> QED BY <1>9, <4>1
    <3>4. CASE Dropped(x, d)
      <4>1. Len(log) = kMaxEntries /\ Order(entryOf(x, d)) < Order(log[1])
        BY <3>4 DEF Dropped
      <4>2. Len(log') = kMaxEntries /\ Order(log[1]) <= Order(log'[1])
        BY <1>9, <4>1
      <4>3. d \in Nat /\ x \in Moments
        BY <1>1, <1>7, <3>1
      <4>4. Order(entryOf(x, d)) \in Nat
        BY <4>3, MomentFacts, OrderOfEntry
      <4>5. 1 \in 1 .. Len(log) /\ 1 \in 1 .. Len(log')
        BY <4>1, <4>2, ViewsAssumption
      <4>6. log[1] \in Entries /\ log'[1] \in Entries
        BY <1>7, <1>9, <4>5
      <4>7. Order(log[1]) \in Nat /\ Order(log'[1]) \in Nat
        BY <4>6, OrderOfEntry
      <4>8. Order(entryOf(x, d)) < Order(log'[1])
        BY <4>1, <4>2, <4>4, <4>7
      <4> QED BY <4>2, <4>8
    <3>5. CASE Repeats(x, d)
      BY <1>16, <3>1, <3>5
    <3> QED BY <3>2, <3>3, <3>4, <3>5
  <2> QED BY <2>1, <2>2
<1>20. LogLosesOnlyRepeats'
  BY <1>9, <1>18, <1>19 DEF LogLosesOnlyRepeats, InOrder, Told, Dropped, Repeats, Again
<1>21. op' # "reset"
  BY DEF Step
<1> QED BY <1>9, <1>11, <1>12, <1>13, <1>14, <1>20, <1>21 DEF LogInv

LEMMA ViewsKeepLog ==
  ASSUME ViewsBase, ViewsBase', LogInv, [ViewsNext]_allVars
  PROVE  LogInv'
<1>1. CASE Cycle /\ Show
  BY <1>1, ShowKeepsLog DEF Cycle, ViewsBase
<1>2. CASE Cycle /\ Throttle
  <2>1. UNCHANGED <<log, recent, history>> /\ cycle' = cycle + 1 /\ cycle \in Nat
    BY <1>2 DEF Cycle, Throttle, viewVars, ViewsBase, NumbersInv
  <2>2. \A d \in 0 .. cycle : d \in 0 .. cycle'
    BY <2>1
  <2>3. \A i \in 1 .. Len(log) : log[i].cycle <= cycle'
    <3>1. \A i \in 1 .. Len(log) : log[i] \in Entries /\ log[i].cycle <= cycle
      BY DEF LogInv
    <3>2. \A i \in 1 .. Len(log) : log[i].cycle \in Nat
      BY <3>1 DEF Entries
    <3> QED BY <2>1, <3>1, <3>2
  <2>4. LogLosesOnlyRepeats' = LogLosesOnlyRepeats
    BY <2>1 DEF LogLosesOnlyRepeats, Told, Dropped, Repeats
  <2>5. op' # "reset"
    BY <1>2 DEF Cycle, Step
  <2> QED BY <2>1, <2>2, <2>3, <2>4, <2>5 DEF LogInv
<1>3. CASE OnReset \/ ClearEvents
  BY <1>3, ClearedLogInv DEF OnReset, ClearEvents, eventsClear
<1>4. CASE OnLoad
  <2>1. logEvents(<<Milestone(0)>>) /\ UNCHANGED <<cycle, recent, history>>
    BY <1>4 DEF OnLoad
  <2>2. log = <<>> /\ history = <<>>
    BY <1>4 DEF OnLoad, LoadProgram, LogInv
  <2>3. /\ Milestone(0) \in Entries /\ Milestone(0).event = 0 /\ Milestone(0).cycle = 0
    BY ZeroIsWord DEF Milestone, Entries, NoWho
  <2> DEFINE news == <<Milestone(0)>>
  <2>4. news \in Seq(Entries) /\ Len(news) = 1 /\ \A j \in 1 .. Len(news) : news[j] = Milestone(0)
    BY <2>3
  <2>5. logEvents(news) /\ log \in Seq(Entries) /\ Len(log) = 0
    BY <2>1, <2>2
  <2> HIDE DEF news
  <2>6. InOrder(log) /\ InOrder(news)
    BY <2>4, <2>5 DEF InOrder
  <2>7. /\ log' \in Seq(Entries) /\ Len(log') <= kMaxEntries /\ InOrder(log')
        /\ \A i \in 1 .. Len(log') : \E j \in 1 .. Len(news) : log'[i] = news[j]
    BY <2>4, <2>5, <2>6, EntriesLogged
  <2>8. \A i \in 1 .. Len(log') : log'[i].event = 0 /\ log'[i].cycle = 0
    BY <2>3, <2>4, <2>7
  <2>9. DOMAIN history' = {}
    BY <2>1, <2>2
  <2>10. LogLosesOnlyRepeats'
    BY <2>7, <2>8, <2>9 DEF LogLosesOnlyRepeats, InOrder
  <2>11. cycle' \in Nat /\ op' # "reset"
    BY <1>4 DEF OnLoad, LoadProgram, ViewsBase, NumbersInv
  <2>12. \A i \in 1 .. Len(log') : log'[i].cycle <= cycle'
    BY <2>8, <2>11
  <2>13. /\ recent' = recent /\ history' = history /\ cycle' = cycle
    BY <2>1
  <2> QED BY <2>7, <2>10, <2>11, <2>12, <2>13 DEF LogInv
<1>5. CASE UNCHANGED allVars
  <2>1. UNCHANGED <<log, recent, history, cycle, op>>
    BY <1>5 DEF allVars
  <2>2. LogLosesOnlyRepeats' = LogLosesOnlyRepeats
    BY <2>1 DEF LogLosesOnlyRepeats, Told, Dropped, Repeats
  <2> QED BY <2>1, <2>2 DEF LogInv
<1> QED BY <1>1, <1>2, <1>3, <1>4, <1>5 DEF ViewsNext, Cycle

(* Whatever the limit of the event log and however long it runs: a forward,*)
(* stall or flush of a shown cycle has its own entry, in the order they    *)
(* happened, unless it repeats the same event of the same word from the    *)
(* cycle before or is older than all a full log holds; and no entry is of  *)
(* anything else.                                                          *)
THEOREM LogKeepsTheRest == ViewsSpec => []LogLosesOnlyRepeats
<1>1. ViewsInit => LogInv
  BY EmptyLogInv DEF ViewsInit
<1>2. ViewsBase /\ ViewsBase' /\ LogInv /\ [ViewsNext]_allVars => LogInv'
  BY ViewsKeepLog
<1>3. LogInv => LogLosesOnlyRepeats
  BY DEF LogInv
<1> QED BY <1>1, <1>2, <1>3, ViewsBaseHolds, PTL DEF ViewsSpec

-----------------------------------------------------------------------------
(* The trace grid *)

GridRows == [pc : Word, start : Nat, cells : Seq(0 .. 5), who : Nat]

LEMMA FirstStage ==
  ASSUME NEW S \in SUBSET Stages, S # {}
  PROVE  \E s \in S : \A t \in S : s <= t
<1>1. \A t \in S : t \in 1 .. 5
  BY DEF Stages
<1>2. CASE 1 \in S
  BY <1>1, <1>2
<1>3. CASE 1 \notin S /\ 2 \in S
  BY <1>1, <1>3
<1>4. CASE 1 \notin S /\ 2 \notin S /\ 3 \in S
  BY <1>1, <1>4
<1>5. CASE 1 \notin S /\ 2 \notin S /\ 3 \notin S /\ 4 \in S
  BY <1>1, <1>5
<1>6. CASE 1 \notin S /\ 2 \notin S /\ 3 \notin S /\ 4 \notin S
  BY <1>1, <1>6
<1> QED BY <1>2, <1>3, <1>4, <1>5, <1>6

LEMMA CellType ==
  ASSUME NEW row, NEW vs, NEW c
  PROVE  cell(row, vs, c) \in 0 .. 5
<1> DEFINE at == {s \in Stages : vs[s].valid /\ vs[s].pc = row.pc /\ c - row.start < 16}
           x  == CHOOSE s \in at : \A t \in at : s <= t
<1>1. cell(row, vs, c) = IF at = {} THEN 0
                         ELSE IF c - row.start + 1 \in at THEN c - row.start + 1 ELSE x
  BY Zenon DEF cell
<1>2. at \in SUBSET Stages /\ Stages \subseteq 0 .. 5
  BY DEF Stages
<1> HIDE DEF at
<1>3. at # {} => x \in at
  BY <1>2, FirstStage
<1> DEFINE y == c - row.start + 1
<1>4. cell(row, vs, c) = IF at = {} THEN 0 ELSE IF y \in at THEN y ELSE x
  BY <1>1
<1> HIDE DEF x, y
<1>5. 0 \in 0 .. 5
  OBVIOUS
<1> QED BY <1>2, <1>3, <1>4, <1>5

(* The cell of a row whose address is in one stage alone. *)
LEMMA CellOfOnlyStage ==
  ASSUME NEW row, NEW vs, NEW c, NEW s \in Stages, vs[s].valid, vs[s].pc = row.pc,
         c - row.start < 16, \A t \in Stages \ {s} : ~(vs[t].valid /\ vs[t].pc = row.pc)
  PROVE  cell(row, vs, c) = s
<1> DEFINE at == {t \in Stages : vs[t].valid /\ vs[t].pc = row.pc /\ c - row.start < 16}
           x  == CHOOSE t \in at : \A u \in at : t <= u
<1>1. cell(row, vs, c) = IF at = {} THEN 0
                         ELSE IF c - row.start + 1 \in at THEN c - row.start + 1 ELSE x
  BY Zenon DEF cell
<1>2. at = {s}
  OBVIOUS
<1>3. \E t \in at : \A u \in at : t <= u
  BY <1>2 DEF Stages
<1> HIDE DEF at
<1>4. x \in at
  BY <1>3
<1> QED BY <1>1, <1>2, <1>4

SameRow(a, b) == a.pc = b.pc /\ a.start = b.start /\ a.who = b.who
NewRow(row, v, c) == v.valid /\ row.pc = v.pc /\ row.start = c /\ row.who = v.who

LEMMA TraceAppended ==
  ASSUME trace \in Seq(GridRows), NEW vs, vs[1].pc \in Word, vs[1].who \in Nat, NEW c \in Nat,
         appendTrace(vs, c)
  PROVE  /\ trace' \in Seq(GridRows)
         /\ \A i \in 1 .. Len(trace') : \/ \E j \in 1 .. Len(trace) : SameRow(trace'[i], trace[j])
                                       \/ NewRow(trace'[i], vs[1], c)
         /\ c <= kTraceMaxCycles =>
              \A i \in 1 .. Len(trace') :
                trace'[i].cells[Len(trace'[i].cells)] = cell(trace'[i], vs, c)
<1>1. kTraceMaxCycles \in Nat /\ kTraceMaxRows \in Nat /\ kTraceMaxRows >= 1
  BY ViewsAssumption
<1>2. CASE c > kTraceMaxCycles
  <2>1. trace' = trace
    BY <1>2 DEF appendTrace
  <2>2. ~(c <= kTraceMaxCycles)
    BY <1>1, <1>2
  <2> QED BY <2>1, <2>2 DEF SameRow
<1>3. CASE ~(c > kTraceMaxCycles)
  <2> DEFINE new  == fetchedRow(vs, c)
             all  == trace \o new
             kept == IF Len(all) > kTraceMaxRows THEN Tail(all) ELSE all
             row(i) == [kept[i] EXCEPT !.cells = Append(@, cell(kept[i], vs, c))]
  <2>1. trace' = [i \in 1 .. Len(kept) |-> row(i)]
    BY <1>3, Zenon DEF appendTrace
  <2>2. new \in Seq(GridRows) /\ \A i \in 1 .. Len(new) : NewRow(new[i], vs[1], c)
    <3> DEFINE r == [pc |-> vs[1].pc, start |-> c, cells |-> <<>>, who |-> vs[1].who]
    <3>1. CASE ~vs[1].valid
      BY <3>1 DEF fetchedRow
    <3>2. CASE vs[1].valid
      <4>1. r \in GridRows /\ NewRow(r, vs[1], c)
        BY <3>2 DEF GridRows, NewRow
      <4>2. new = <<r>>
        BY <3>2 DEF fetchedRow
      <4> HIDE DEF r, new
      <4> QED BY <4>1, <4>2
    <3> QED BY <3>1, <3>2
  <2> HIDE DEF new
  <2> DEFINE Known(r) == \/ \E j \in 1 .. Len(trace) : SameRow(r, trace[j])
                         \/ NewRow(r, vs[1], c)
  <2>3. all \in Seq(GridRows) /\ \A i \in 1 .. Len(all) : Known(all[i])
    <3>1. /\ all \in Seq(GridRows) /\ Len(all) = Len(trace) + Len(new)
          /\ \A i \in 1 .. Len(trace) + Len(new) :
               all[i] = IF i <= Len(trace) THEN trace[i] ELSE new[i - Len(trace)]
      BY <2>2, ConcatProperties
    <3>2. Len(trace) \in Nat /\ Len(new) \in Nat
      BY <2>2
    <3> HIDE DEF all
    <3>3. ASSUME NEW i \in 1 .. Len(all) PROVE Known(all[i])
      <4>1. CASE i <= Len(trace)
        <5>1. i \in 1 .. Len(trace) /\ all[i] = trace[i]
          BY <3>1, <3>2, <4>1
        <5> QED BY <5>1 DEF SameRow
      <4>2. CASE ~(i <= Len(trace))
        <5>1. i - Len(trace) \in 1 .. Len(new) /\ all[i] = new[i - Len(trace)]
          BY <3>1, <3>2, <4>2
        <5> QED BY <2>2, <5>1
      <4> QED BY <4>1, <4>2
    <3> QED BY <3>1, <3>3
  <2> HIDE DEF all
  <2>4. kept \in Seq(GridRows) /\ \A i \in 1 .. Len(kept) : Known(kept[i])
    <3>1. CASE ~(Len(all) > kTraceMaxRows)
      BY <2>3, <3>1
    <3>2. CASE Len(all) > kTraceMaxRows
      <4>1. all # <<>> /\ Len(all) \in Nat
        BY <1>1, <2>3, <3>2
      <4>2. /\ Tail(all) \in Seq(GridRows) /\ Len(Tail(all)) = Len(all) - 1
            /\ \A i \in 1 .. Len(Tail(all)) : Tail(all)[i] = all[i + 1]
        BY <2>3, <4>1, HeadTailProperties
      <4>3. \A i \in 1 .. Len(Tail(all)) : i + 1 \in 1 .. Len(all)
        BY <4>1, <4>2
      <4> HIDE DEF Known
      <4> QED BY <2>3, <3>2, <4>2, <4>3
    <3> QED BY <3>1, <3>2
  <2> HIDE DEF kept
  <2>5. ASSUME NEW i \in 1 .. Len(kept)
        PROVE  /\ row(i) \in GridRows /\ SameRow(row(i), kept[i])
               /\ row(i).cells[Len(row(i).cells)] = cell(kept[i], vs, c)
    <3> DEFINE k == kept[i]
               x == cell(k, vs, c)
               l == Append(k.cells, x)
    <3>1. k \in GridRows /\ x \in 0 .. 5
      BY <2>4, CellType
    <3>2. k.cells \in Seq(0 .. 5)
      BY <3>1 DEF GridRows
    <3> HIDE DEF x, k
    <3>3. l \in Seq(0 .. 5) /\ Len(l) = Len(k.cells) + 1 /\ l[Len(k.cells) + 1] = x
      BY <3>1, <3>2, AppendProperties
    <3> HIDE DEF l
    <3>4. row(i) = [k EXCEPT !.cells = l]
      BY DEF k, x, l
    <3> HIDE DEF row
    <3>5. /\ row(i) \in GridRows /\ row(i).cells = l
          /\ row(i).pc = k.pc /\ row(i).start = k.start /\ row(i).who = k.who
      BY <3>1, <3>3, <3>4 DEF GridRows
    <3>6. x = cell(kept[i], vs, c) /\ k = kept[i]
      BY DEF x, k
    <3> QED BY <3>3, <3>5, <3>6 DEF SameRow
  <2> HIDE DEF row
  <2>6. Len(kept) \in Nat
    BY <2>4
  <2>7. trace' \in Seq(GridRows) /\ Len(trace') = Len(kept)
    BY <2>1, <2>5, <2>6
  <2>8. \A i \in 1 .. Len(trace') : trace'[i] = row(i)
    BY <2>1, <2>7
  <2>9. \A a, b : SameRow(a, b) /\ Known(b) => Known(a)
    BY DEF SameRow, NewRow
  <2>10. \A a, b : SameRow(a, b) => cell(a, vs, c) = cell(b, vs, c)
    BY DEF SameRow, cell
  <2> HIDE DEF Known
  <2>11. \A i \in 1 .. Len(trace') : Known(trace'[i])
    BY <2>4, <2>5, <2>7, <2>8, <2>9
  <2>12. \A i \in 1 .. Len(trace') :
           trace'[i].cells[Len(trace'[i].cells)] = cell(trace'[i], vs, c)
    BY <2>5, <2>7, <2>8, <2>10
  <2> QED BY <2>7, <2>11, <2>12 DEF Known
<1> QED BY <1>2, <1>3

(* A row and the registers: the instruction of a row is at the row's       *)
(* address, and as many cycles old as it has moved, a stall in IF/ID       *)
(* included: the load it waits for leaves EX at once.                      *)
FollowsRegisters(row) ==
  \A k \in 1 .. 4 :
    Held(k) /\ in_flight[k] = row.who =>
      /\ Address(k) = row.pc /\ cycle - row.start \in 0 .. k
      /\ k = 1 /\ cycle - row.start = 1 => ~id_ex.valid

(* A row and columns that were shown in cycle c. *)
FollowsColumns(row, vs, c) ==
  \A s \in Stages :
    vs[s].valid /\ vs[s].who = row.who => vs[s].pc = row.pc /\ c - row.start \in 0 .. 5

LEMMA StepFollows ==
  ASSUME ViewsBase, Step, Number, cycle' = cycle + 1,
         NEW row, row.who \in 0 .. serial, row.start \in Nat, FollowsRegisters(row)
  PROVE  FollowsRegisters(row)' /\ FollowsColumns(row, Views, cycle')
<1>1. cycle \in Nat /\ serial \in Nat
  BY DEF ViewsBase, NumbersInv
<1>2. /\ \A k \in 2 .. 4 : Held(k)' =>
           Held(k - 1) /\ Address(k)' = Address(k - 1) /\ in_flight'[k] = in_flight[k - 1]
      /\ if_id'.valid /\ ~Stall => in_flight'[1] = serial + 1
      /\ if_id'.valid /\ Stall => in_flight'[1] = in_flight[1]
  BY NumbersOfStep DEF ViewsBase
<1>3. \A k \in 1 .. 4 :
        Held(k) /\ in_flight[k] = row.who =>
          /\ Address(k) = row.pc /\ cycle - row.start \in 0 .. k
          /\ k = 1 /\ cycle - row.start = 1 => ~id_ex.valid
  BY DEF FollowsRegisters
<1>4. ASSUME if_id'.valid, in_flight'[1] = row.who
      PROVE  /\ Stall /\ if_id'.pc = row.pc /\ cycle' - row.start = 1 /\ ~id_ex'.valid
  <2>1. Stall
    BY <1>1, <1>2, <1>4
  <2>2. if_id.valid /\ if_id' = if_id /\ id_ex.valid /\ ~id_ex'.valid /\ in_flight[1] = row.who
    BY <1>2, <1>4, <2>1, Moves DEF ViewsBase, Stall, load_use_hazard
  <2>3. Held(1) /\ Address(1) = if_id.pc
    BY <2>2 DEF Held, Address
  <2>4. if_id.pc = row.pc /\ cycle - row.start \in 0 .. 1 /\ cycle - row.start # 1
    BY <1>3, <2>2, <2>3
  <2> QED BY <1>1, <2>1, <2>2, <2>4
<1>5. ASSUME NEW k \in 1 .. 4, Held(k), in_flight[k] = row.who
      PROVE  cycle' - row.start \in 0 .. k + 1
  <2>1. cycle - row.start \in 0 .. k
    BY <1>3, <1>5
  <2> QED BY <1>1, <2>1
<1>6. ASSUME NEW k \in 1 .. 4, Held(k)', in_flight'[k] = row.who
      PROVE  /\ Address(k)' = row.pc /\ cycle' - row.start \in 0 .. k
             /\ k = 1 /\ cycle' - row.start = 1 => ~id_ex'.valid
  <2>1. CASE k = 1
    <3>1. if_id'.valid /\ Address(1)' = if_id'.pc
      BY <1>6, <2>1 DEF Held, Address
    <3> QED BY <1>4, <1>6, <2>1, <3>1
  <2>2. CASE k # 1
    <3>1. k \in 2 .. 4 /\ k - 1 \in 1 .. 4 /\ k - 1 + 1 = k
      BY <2>2
    <3>2. Held(k - 1) /\ Address(k)' = Address(k - 1) /\ in_flight[k - 1] = row.who
      BY <1>2, <1>6, <3>1
    <3>3. Address(k - 1) = row.pc
      BY <1>3, <3>1, <3>2
    <3>4. cycle' - row.start \in 0 .. k
      BY <1>5, <3>1, <3>2
    <3> QED BY <2>2, <3>2, <3>3, <3>4
  <2> QED BY <2>1, <2>2
<1>7. FollowsRegisters(row)'
  BY <1>6 DEF FollowsRegisters
<1>8. ASSUME NEW s \in Stages, Views[s].valid, Views[s].who = row.who
      PROVE  Views[s].pc = row.pc /\ cycle' - row.start \in 0 .. 5
  <2>1. CASE s = 1
    <3>1. if_id'.valid /\ Views[1].who = in_flight'[1] /\ Views[1].pc = if_id'.pc
      BY <1>8, <2>1, ViewsOfStep DEF ViewsBase
    <3>2. if_id'.pc = row.pc /\ cycle' - row.start = 1
      BY <1>4, <1>8, <2>1, <3>1
    <3> QED BY <2>1, <3>1, <3>2
  <2>2. CASE s # 1
    <3>1. s \in 2 .. 5 /\ s - 1 \in 1 .. 4 /\ s - 1 + 1 = s
      BY <2>2 DEF Stages
    <3>2. Held(s - 1) /\ Views[s].pc = Address(s - 1) /\ in_flight[s - 1] = row.who
      BY <1>8, <3>1, ViewsOfStep DEF ViewsBase
    <3>3. Address(s - 1) = row.pc
      BY <1>3, <3>1, <3>2
    <3>4. cycle' - row.start \in 0 .. s
      BY <1>5, <3>1, <3>2
    <3> QED BY <1>1, <3>1, <3>2, <3>3, <3>4
  <2> QED BY <2>1, <2>2
<1> QED BY <1>7, <1>8 DEF FollowsColumns

LEMMA FetchFollows ==
  ASSUME ViewsBase, Step, Number, cycle' = cycle + 1, NEW row, NewRow(row, Views[1], cycle')
  PROVE  FollowsRegisters(row)' /\ FollowsColumns(row, Views, cycle')
<1>1. cycle' \in Nat /\ serial \in Nat
  BY DEF ViewsBase, NumbersInv
<1>2. if_id'.valid /\ row.pc = if_id'.pc /\ row.start = cycle' /\ row.who = in_flight'[1]
  BY ViewsOfStep DEF ViewsBase, NewRow
<1>3. /\ \A j, k \in 1 .. 4 : j < k /\ Held(j)' /\ Held(k)' => in_flight'[k] < in_flight'[j]
      /\ in_flight' \in [1 .. 4 -> 0 .. serial']
      /\ ~Stall => in_flight'[1] = serial + 1
      /\ Stall => in_flight'[1] = in_flight[1] /\ if_id.valid /\ if_id' = if_id
      /\ serial' \in {serial, serial + 1}
  BY <1>2, NumbersOfStep, Moves DEF ViewsBase, Stall, load_use_hazard
<1>4. cycle' - row.start = 0 /\ Held(1)' /\ Address(1)' = if_id'.pc
  BY <1>1, <1>2 DEF Held, Address
<1>5. ASSUME NEW k \in 1 .. 4, Held(k)', in_flight'[k] = row.who
      PROVE  k = 1
  <2>1. in_flight'[k] \in Nat
    BY <1>1, <1>3
  <2>2. 1 < k => in_flight'[k] < in_flight'[1]
    BY <1>3, <1>4, <1>5
  <2> QED BY <1>2, <1>5, <2>1, <2>2
<1>6. FollowsRegisters(row)'
  BY <1>2, <1>4, <1>5 DEF FollowsRegisters
<1>7. ASSUME NEW s \in Stages, Views[s].valid, Views[s].who = row.who
      PROVE  Views[s].pc = row.pc /\ cycle' - row.start \in 0 .. 5
  <2>1. CASE s = 1
    <3>1. Views[1].pc = if_id'.pc
      BY ViewsOfStep DEF ViewsBase
    <3> QED BY <1>2, <1>4, <2>1, <3>1
  <2>2. CASE s # 1
    <3>1. s \in 2 .. 5 /\ s - 1 \in 1 .. 4
      BY <2>2 DEF Stages
    <3>2. Held(s - 1) /\ Views[s].pc = Address(s - 1) /\ in_flight[s - 1] = in_flight'[1]
      BY <1>2, <1>7, <3>1, ViewsOfStep DEF ViewsBase
    <3>3. in_flight[s - 1] \in 0 .. serial
      BY <3>1 DEF ViewsBase, NumbersInv
    <3>4. Stall
      BY <1>1, <1>3, <3>2, <3>3
    <3>5. Held(1) /\ Address(1) = if_id.pc
      BY <1>3, <3>4 DEF Held, Address
    <3>6. 1 < s - 1 => in_flight[s - 1] < in_flight[1]
      BY <3>1, <3>2, <3>5 DEF ViewsBase, NumbersInv
    <3>7. s - 1 = 1
      BY <1>1, <1>3, <3>1, <3>2, <3>3, <3>4, <3>6
    <3> QED BY <1>2, <1>3, <1>4, <3>2, <3>4, <3>5, <3>7
  <2> QED BY <2>1, <2>2
<1> QED BY <1>6, <1>7 DEF FollowsColumns

GridInv ==
  /\ trace \in Seq(GridRows)
  /\ \A i \in 1 .. Len(trace) :
       /\ trace[i].who \in 0 .. serial
       /\ FollowsRegisters(trace[i])
       /\ FollowsColumns(trace[i], shown.stages, shown.cycle)
  /\ shown.cycle <= kTraceMaxCycles =>
       \A i \in 1 .. Len(trace) :
         trace[i].cells[Len(trace[i].cells)] = cell(trace[i], shown.stages, shown.cycle)

LEMMA ShowKeepsGrid ==
  ASSUME ViewsBase, GridInv, Step, Number, cycle' = cycle + 1, Show
  PROVE  GridInv'
<1> DEFINE vs == Views
           c  == cycle'
<1>1. cycle \in Nat /\ c \in Nat /\ serial \in Nat
  BY DEF ViewsBase, NumbersInv
<1>2. serial' \in {serial, serial + 1} /\ in_flight' \in [1 .. 4 -> 0 .. serial']
  BY NumbersOfStep DEF ViewsBase
<1>3. appendTrace(vs, c) /\ shown'.stages = vs /\ shown'.cycle = c
  BY DEF Show
<1>4. vs[1].who = in_flight'[1] /\ vs[1].pc \in Word
  <2>1. Views[1] \in [valid : BOOLEAN, stalled : BOOLEAN, flushed : BOOLEAN,
                      pc : Word, raw : Word, who : {Views[1].who}]
    BY ViewsOfStep DEF ViewsBase, Stages
  <2> QED BY <2>1, ViewsOfStep DEF ViewsBase
<1>5. in_flight'[1] \in 0 .. serial' /\ in_flight'[1] \in Nat
  BY <1>1, <1>2
<1> HIDE DEF vs, c
<1>6. /\ trace' \in Seq(GridRows)
      /\ \A i \in 1 .. Len(trace') : \/ \E j \in 1 .. Len(trace) : SameRow(trace'[i], trace[j])
                                    \/ NewRow(trace'[i], vs[1], c)
      /\ c <= kTraceMaxCycles =>
           \A i \in 1 .. Len(trace') :
             trace'[i].cells[Len(trace'[i].cells)] = cell(trace'[i], vs, c)
  <2>1. trace \in Seq(GridRows) /\ vs[1].who \in Nat
    BY <1>4, <1>5 DEF GridInv
  <2> QED BY <1>1, <1>3, <1>4, <2>1, TraceAppended
<1>7. ASSUME NEW i \in 1 .. Len(trace')
      PROVE  /\ trace'[i].who \in 0 .. serial'
             /\ FollowsRegisters(trace[i])'
             /\ FollowsColumns(trace'[i], vs, c)
  <2> DEFINE row == trace'[i]
  <2>1. CASE \E j \in 1 .. Len(trace) : SameRow(row, trace[j])
    <3>1. PICK j \in 1 .. Len(trace) : SameRow(row, trace[j])
      BY <2>1
    <3> DEFINE old == trace[j]
    <3>2. old.who \in 0 .. serial /\ FollowsRegisters(old) /\ old \in GridRows
      BY DEF GridInv
    <3>3. /\ row.who = old.who /\ row.pc = old.pc /\ row.start = old.start
          /\ old.start \in Nat
      BY <3>1, <3>2 DEF SameRow, GridRows
    <3> HIDE DEF row, old
    <3>4. FollowsRegisters(row)
      BY <3>2, <3>3 DEF FollowsRegisters
    <3>5. row.who \in 0 .. serial /\ row.start \in Nat
      BY <3>2, <3>3
    <3> DEFINE F == FollowsRegisters(row)
    <3>6. PICK r : r = row
      OBVIOUS
    <3>7. FollowsRegisters(r) /\ r.who \in 0 .. serial /\ r.start \in Nat
      BY <3>4, <3>5, <3>6
    <3>8. FollowsRegisters(r)' /\ FollowsColumns(r, Views, cycle')
      BY <3>7, StepFollows
    <3>9. (\A k \in 1 .. 4 :
            Held(k)' /\ in_flight'[k] = r.who =>
              /\ Address(k)' = r.pc /\ cycle' - r.start \in 0 .. k
              /\ k = 1 /\ cycle' - r.start = 1 => ~id_ex'.valid)
      BY <3>8 DEF FollowsRegisters
    <3>10. FollowsRegisters(trace[i])'
      BY <3>6, <3>9 DEF FollowsRegisters, row
    <3>11. FollowsColumns(row, vs, c)
      BY <3>6, <3>8 DEF vs, c
    <3>12. row.who \in 0 .. serial'
      BY <1>1, <1>2, <3>5
    <3> QED BY <3>10, <3>11, <3>12 DEF row
  <2>2. CASE NewRow(row, vs[1], c)
    <3>1. PICK r : r = row
      OBVIOUS
    <3> HIDE DEF row
    <3>2. NewRow(r, Views[1], cycle')
      BY <2>2, <3>1 DEF vs, c
    <3>3. FollowsRegisters(r)' /\ FollowsColumns(r, Views, cycle')
      BY <3>2, FetchFollows
    <3>4. (\A k \in 1 .. 4 :
            Held(k)' /\ in_flight'[k] = r.who =>
              /\ Address(k)' = r.pc /\ cycle' - r.start \in 0 .. k
              /\ k = 1 /\ cycle' - r.start = 1 => ~id_ex'.valid)
      BY <3>3 DEF FollowsRegisters
    <3>5. FollowsRegisters(trace[i])'
      BY <3>1, <3>4 DEF FollowsRegisters, row
    <3>6. FollowsColumns(row, vs, c)
      BY <3>1, <3>3 DEF vs, c
    <3>7. row.who \in 0 .. serial'
      BY <1>4, <1>5, <2>2 DEF NewRow
    <3> QED BY <3>5, <3>6, <3>7 DEF row
  <2> QED BY <1>6, <2>1, <2>2
<1> QED BY <1>3, <1>6, <1>7 DEF GridInv

LEMMA ViewsKeepGrid ==
  ASSUME ViewsBase, GridInv, [ViewsNext]_allVars
  PROVE  GridInv'
<1>1. CASE Cycle /\ Show
  BY <1>1, ShowKeepsGrid DEF Cycle
<1>2. CASE Cycle /\ Throttle
  <2>1. /\ UNCHANGED <<trace, shown>> /\ Step /\ Number /\ cycle' = cycle + 1
        /\ serial \in Nat /\ serial' \in {serial, serial + 1}
    BY <1>2, NumbersOfStep DEF Cycle, Throttle, viewVars, ViewsBase, NumbersInv
  <2>2. ASSUME NEW i \in 1 .. Len(trace)
        PROVE  FollowsRegisters(trace[i])' /\ trace[i].who \in 0 .. serial'
    <3>1. PICK r : r = trace[i]
      OBVIOUS
    <3>2. trace[i] \in GridRows /\ trace[i].who \in 0 .. serial /\ FollowsRegisters(trace[i])
      BY DEF GridInv
    <3>3. r.start \in Nat /\ r.who \in 0 .. serial
      BY <3>1, <3>2 DEF GridRows
    <3>4. FollowsRegisters(r)
      BY <3>1, <3>2 DEF FollowsRegisters
    <3>5. FollowsRegisters(r)'
      BY <2>1, <3>3, <3>4, StepFollows
    <3>6. (\A k \in 1 .. 4 :
            Held(k)' /\ in_flight'[k] = r.who =>
              /\ Address(k)' = r.pc /\ cycle' - r.start \in 0 .. k
              /\ k = 1 /\ cycle' - r.start = 1 => ~id_ex'.valid)
      BY <3>5 DEF FollowsRegisters
    <3>7. FollowsRegisters(trace[i])'
      BY <2>1, <3>1, <3>6 DEF FollowsRegisters
    <3> QED BY <2>1, <3>2, <3>7
  <2> QED BY <2>1, <2>2 DEF GridInv
<1>3. CASE OnReset
  BY <1>3 DEF OnReset, GridInv
<1>4. CASE OnLoad \/ ClearEvents \/ UNCHANGED allVars
  <2>1. /\ UNCHANGED <<cycle, serial, in_flight, shown, trace>>
        /\ UNCHANGED <<if_id, id_ex, ex_mem, mem_wb>>
    BY <1>4 DEF OnLoad, LoadProgram, ClearEvents, vars, allVars
  <2>2. \A k \in 1 .. 4 : Held(k)' = Held(k) /\ Address(k)' = Address(k)
    BY <2>1 DEF Held, Address
  <2>3. ASSUME NEW i \in 1 .. Len(trace)
        PROVE  FollowsRegisters(trace[i])'
    <3>1. FollowsRegisters(trace[i])
      BY DEF GridInv
    <3> QED BY <2>1, <2>2, <3>1 DEF FollowsRegisters
  <2> QED BY <2>1, <2>3 DEF GridInv
<1> QED BY <1>1, <1>2, <1>3, <1>4 DEF ViewsNext, Cycle

(* The trace grid of the Quick window tells in which stage an instruction  *)
(* is, however long it has stalled and however many cycles were throttled: *)
(* in a loop of any length, and after a row has been dropped at the limit. *)
THEOREM GridFollowsInstructions == ViewsSpec => []GridTellsTheStage
<1>1. ViewsInit => GridInv
  BY DEF ViewsInit, GridInv
<1>2. ViewsBase /\ GridInv /\ [ViewsNext]_allVars => GridInv'
  BY ViewsKeepGrid
<1>3. ASSUME ViewsBase, GridInv PROVE GridTellsTheStage
  <2>1. ASSUME NEW i \in 1 .. Len(trace), NEW s \in Stages,
               shown.cycle <= kTraceMaxCycles,
               shown.stages[s].valid, shown.stages[s].who = trace[i].who,
               \A t \in Stages \ {s} :
                 ~(shown.stages[t].valid /\ shown.stages[t].pc = trace[i].pc)
        PROVE  trace[i].cells[Len(trace[i].cells)] = s
    <3>1. shown.stages[s].pc = trace[i].pc /\ shown.cycle - trace[i].start \in 0 .. 5
      BY <1>3, <2>1 DEF GridInv, FollowsColumns
    <3>2. shown.cycle - trace[i].start < 16
      BY <3>1
    <3>3. cell(trace[i], shown.stages, shown.cycle) = s
      <4> DEFINE row == trace[i]
                 vs  == shown.stages
                 c   == shown.cycle
      <4> SUFFICES cell(row, vs, c) = s
        OBVIOUS
      <4>1. /\ vs[s].valid /\ vs[s].pc = row.pc /\ c - row.start < 16
            /\ \A t \in Stages \ {s} : ~(vs[t].valid /\ vs[t].pc = row.pc)
        BY <2>1, <3>1, <3>2
      <4> HIDE DEF row, vs, c
      <4> QED BY <4>1, CellOfOnlyStage
    <3> QED BY <1>3, <2>1, <3>3 DEF GridInv
  <2> QED BY <2>1 DEF GridTellsTheStage
<1> QED BY <1>1, <1>2, <1>3, ViewsBaseHolds, PTL DEF ViewsSpec

-----------------------------------------------------------------------------
(* The diagram *)

DiagramRows == [pc : Word, at : [Stages -> Nat], who : [Stages -> Nat]]

IsLastStage(r, s) ==
  s \in 0 .. 5 /\ (s = 0 \/ r.at[s] # 0) /\ \A t \in s + 1 .. 5 : r.at[t] = 0

LEMMA LastStage ==
  ASSUME NEW r, r.at \in [Stages -> Nat]
  PROVE  /\ IsLastStage(r, lastStage(r))
         /\ \A s : IsLastStage(r, s) => lastStage(r) = s
<1>1. lastStage(r) = CHOOSE s \in 0 .. 5 : IsLastStage(r, s)
  <2>1. \A s \in 0 .. 5 :
          IsLastStage(r, s) <=> (s = 0 \/ r.at[s] # 0) /\ \A t \in s + 1 .. 5 : r.at[t] = 0
    BY DEF IsLastStage
  <2> QED BY <2>1 DEF lastStage
<1>2. \E s \in 0 .. 5 : IsLastStage(r, s)
  <2>1. CASE r.at[5] # 0
    <3>1. IsLastStage(r, 5)
      BY <2>1 DEF IsLastStage
    <3> QED BY <3>1
  <2>2. CASE r.at[5] = 0 /\ r.at[4] # 0
    <3>1. IsLastStage(r, 4)
      BY <2>2 DEF IsLastStage
    <3> QED BY <3>1
  <2>3. CASE r.at[5] = 0 /\ r.at[4] = 0 /\ r.at[3] # 0
    <3>1. IsLastStage(r, 3)
      BY <2>3 DEF IsLastStage
    <3> QED BY <3>1
  <2>4. CASE r.at[5] = 0 /\ r.at[4] = 0 /\ r.at[3] = 0 /\ r.at[2] # 0
    <3>1. IsLastStage(r, 2)
      BY <2>4 DEF IsLastStage
    <3> QED BY <3>1
  <2>5. CASE r.at[5] = 0 /\ r.at[4] = 0 /\ r.at[3] = 0 /\ r.at[2] = 0 /\ r.at[1] # 0
    <3>1. IsLastStage(r, 1)
      BY <2>5 DEF IsLastStage
    <3> QED BY <3>1
  <2>6. CASE r.at[5] = 0 /\ r.at[4] = 0 /\ r.at[3] = 0 /\ r.at[2] = 0 /\ r.at[1] = 0
    <3>1. IsLastStage(r, 0)
      BY <2>6 DEF IsLastStage
    <3> QED BY <3>1
  <2> QED BY <2>1, <2>2, <2>3, <2>4, <2>5, <2>6
<1>3. ASSUME NEW s, NEW u, IsLastStage(r, s), IsLastStage(r, u)
      PROVE  s <= u
  <2>1. s \in 0 .. 5 /\ u \in 0 .. 5
    BY <1>3 DEF IsLastStage
  <2>2. u < s => s \in u + 1 .. 5
    BY <2>1
  <2> QED BY <1>3, <2>1, <2>2 DEF IsLastStage
<1>4. IsLastStage(r, lastStage(r))
  BY <1>1, <1>2
<1>5. ASSUME NEW s, IsLastStage(r, s)
      PROVE  lastStage(r) = s
  <2>1. s <= lastStage(r) /\ lastStage(r) <= s
    BY <1>3, <1>4, <1>5
  <2>2. s \in 0 .. 5 /\ lastStage(r) \in 0 .. 5
    BY <1>4, <1>5 DEF IsLastStage
  <2> QED BY <2>1, <2>2
<1> QED BY <1>4, <1>5

(* A row after it has been given the cell of a view. *)
Advanced(r, v, s, c) ==
  /\ r \in DiagramRows /\ r.pc = v.pc
  /\ lastStage(r) = s /\ lastCycle(r) = c /\ r.at[s] = c
  /\ RowWho(r) = {v.who} /\ r.who[s] = v.who

LEMMA RowBegins ==
  ASSUME NEW s \in Stages, NEW v, v.pc \in Word, v.who \in Nat, NEW c \in Nat \ {0}
  PROVE  Advanced([pc  |-> v.pc, at |-> [t \in Stages |-> IF t = s THEN c ELSE 0],
                   who |-> [t \in Stages |-> IF t = s THEN v.who ELSE NoWho]], v, s, c)
<1> DEFINE r == [pc  |-> v.pc, at |-> [t \in Stages |-> IF t = s THEN c ELSE 0],
                 who |-> [t \in Stages |-> IF t = s THEN v.who ELSE NoWho]]
<1> SUFFICES Advanced(r, v, s, c)
  OBVIOUS
<1>1. r \in DiagramRows /\ r.pc = v.pc
  BY DEF DiagramRows, NoWho
<1>2. /\ r.at \in [Stages -> Nat] /\ r.at[s] = c /\ r.who[s] = v.who
      /\ \A t \in Stages : t # s => r.at[t] = 0
  BY DEF NoWho
<1> HIDE DEF r
<1>3. s \in 1 .. 5 /\ \A t \in s + 1 .. 5 : t \in Stages /\ t # s
  BY DEF Stages
<1>4. IsLastStage(r, s)
  BY <1>2, <1>3 DEF IsLastStage
<1>5. lastStage(r) = s
  BY <1>2, <1>4, LastStage
<1>6. lastCycle(r) = c
  BY <1>2, <1>3, <1>5 DEF lastCycle
<1>7. RowWho(r) = {v.who}
  <2>1. {t \in Stages : r.at[t] # 0} = {s}
    BY <1>2
  <2> QED BY <1>2, <2>1, Zenon DEF RowWho
<1> QED BY <1>1, <1>2, <1>5, <1>6, <1>7 DEF Advanced

LEMMA RowGoesOn ==
  ASSUME NEW s \in Stages, NEW v, v.pc \in Word, v.who \in Nat, NEW c \in Nat \ {0},
         NEW old \in DiagramRows, old.pc = v.pc, lastStage(old) = s - 1, RowWho(old) = {v.who},
         NEW r, r.pc = old.pc, r = [pc |-> r.pc, at |-> r.at, who |-> r.who],
         r.at = [old.at EXCEPT ![s] = c], r.who = [old.who EXCEPT ![s] = v.who]
  PROVE  Advanced(r, v, s, c)
<1>1. old.at \in [Stages -> Nat] /\ old.who \in [Stages -> Nat]
  BY DEF DiagramRows
<1>2. /\ r.at \in [Stages -> Nat] /\ r.who \in [Stages -> Nat]
      /\ r.at[s] = c /\ r.who[s] = v.who
      /\ \A t \in Stages : t # s => r.at[t] = old.at[t] /\ r.who[t] = old.who[t]
  BY <1>1
<1>3. r \in DiagramRows
  BY <1>2 DEF DiagramRows
<1>4. s \in 1 .. 5 /\ \A t \in s + 1 .. 5 : t \in Stages /\ t # s /\ t \in (s - 1) + 1 .. 5
  BY DEF Stages
<1>5. IsLastStage(old, s - 1)
  BY <1>1, LastStage
<1>6. IsLastStage(r, s)
  BY <1>2, <1>4, <1>5 DEF IsLastStage
<1>7. lastStage(r) = s
  BY <1>2, <1>6, LastStage
<1>8. lastCycle(r) = c
  BY <1>2, <1>4, <1>7 DEF lastCycle
<1>9. RowWho(r) = {v.who}
  <2>1. \A t \in Stages : r.at[t] # 0 => r.who[t] = v.who
    <3>1. TAKE t \in Stages
    <3>2. HAVE r.at[t] # 0
    <3>3. t # s => old.who[t] \in RowWho(old)
      BY <1>2, <3>2 DEF RowWho
    <3> QED BY <1>2, <3>3
  <2>2. r.at[s] # 0 /\ r.who[s] = v.who
    BY <1>2
  <2> QED BY <2>1, <2>2 DEF RowWho
<1> QED BY <1>2, <1>3, <1>7, <1>8, <1>9 DEF Advanced

(* The rows of the instruction w in stage k, at address a: the one that    *)
(* was seen last is its own.                                               *)
Tracked(rs, k, a, w) ==
  LET rivals == {i \in 1 .. Len(rs) : rs[i].pc = a /\ lastStage(rs[i]) = k} IN
  /\ \A i \in 1 .. Len(rs) : RowWho(rs[i]) = {w} => i \in rivals
  /\ \/ rivals = {}
     \/ \E i \in rivals : /\ RowWho(rs[i]) = {w}
                          /\ \A j \in rivals \ {i} : lastCycle(rs[j]) < lastCycle(rs[i])

NoRowOf(rs, w) == \A i \in 1 .. Len(rs) : RowWho(rs[i]) # {w}

(* What placing a view does to the rows. *)
Placed(rs, new, v, s, c) ==
  /\ new \in Seq(DiagramRows)
  /\ \E i \in 1 .. Len(new) :
       /\ Advanced(new[i], v, s, c)
       /\ \/ /\ Len(new) = Len(rs) /\ lastStage(rs[i]) = s - 1 /\ RowWho(rs[i]) = {v.who}
          \/ /\ Len(new) = Len(rs) + 1 /\ i = Len(new) /\ NoRowOf(rs, v.who)
       /\ \A j \in 1 .. Len(rs) : j # i => new[j] = rs[j]

LEMMA Placing ==
  ASSUME NEW s \in Stages, NEW v, present(v), v.pc \in Word, v.who \in Nat, NEW c \in Nat \ {0},
         NEW rs \in Seq(DiagramRows),
         \A i \in 1 .. Len(rs) : lastStage(rs[i]) \in Stages /\ lastCycle(rs[i]) \in Nat,
         \A i \in 1 .. Len(rs) : lastStage(rs[i]) = s - 1 => lastCycle(rs[i]) < c,
         s = 1 => NoRowOf(rs, v.who),
         s # 1 => Tracked(rs, s - 1, v.pc, v.who)
  PROVE  Placed(rs, place(rs, s, v, c), v, s, c)
<1> DEFINE C == candidates(rs, s, v, c)
           first == [pc  |-> v.pc, at |-> [t \in Stages |-> IF t = s THEN c ELSE 0],
                     who |-> [t \in Stages |-> IF t = s THEN v.who ELSE NoWho]]
           i == rowOf(rs, s, v, c)
           new == place(rs, s, v, c)
<1> SUFFICES Placed(rs, new, v, s, c)
  OBVIOUS
<1>1. C = {j \in 1 .. Len(rs) : rs[j].pc = v.pc /\ lastStage(rs[j]) = s - 1}
  BY DEF candidates
<1> DEFINE added == Append(rs, first)
           gone_on == [rs EXCEPT ![i].at[s] = c, ![i].who[s] = v.who]
<1>2. C = {} => new = added
  BY Zenon DEF place
<1>3. C # {} => new = gone_on
  BY Zenon DEF place
<1>4. i = CHOOSE j \in C : \A k \in C : lastCycle(rs[k]) <= lastCycle(rs[j])
  BY Zenon DEF rowOf
<1>5. Advanced(first, v, s, c)
  BY RowBegins
<1>6. s = 1 => C = {}
  <2>1. \A j \in 1 .. Len(rs) : lastStage(rs[j]) # 0
    BY DEF Stages
  <2> QED BY <1>1, <2>1
<1>7. C = {} => NoRowOf(rs, v.who)
  <2>1. CASE s = 1
    BY <2>1
  <2>2. CASE s # 1
    <3>1. \A j \in 1 .. Len(rs) : RowWho(rs[j]) = {v.who} => j \in C
      BY <1>1, <2>2, Zenon DEF Tracked
    <3> QED BY <3>1 DEF NoRowOf
  <2> QED BY <2>1, <2>2
<1>8. C # {} => i \in C /\ RowWho(rs[i]) = {v.who}
  <2>1. SUFFICES ASSUME C # {} PROVE i \in C /\ RowWho(rs[i]) = {v.who}
    OBVIOUS
  <2>2. PICK m \in C : /\ RowWho(rs[m]) = {v.who}
                       /\ \A j \in C \ {m} : lastCycle(rs[j]) < lastCycle(rs[m])
    <3>1. Tracked(rs, s - 1, v.pc, v.who)
      BY <1>6, <2>1
    <3> QED BY <1>1, <2>1, <3>1, Zenon DEF Tracked
  <2>3. \A j \in C : j \in 1 .. Len(rs) /\ lastCycle(rs[j]) \in Nat
    BY <1>1
  <2> HIDE DEF C, i
  <2>4. \A j \in C : lastCycle(rs[j]) <= lastCycle(rs[m])
    BY <2>2, <2>3
  <2>5. i \in C /\ \A j \in C : lastCycle(rs[j]) <= lastCycle(rs[i])
    BY <1>4, <2>4
  <2>6. i = m
    BY <2>2, <2>3, <2>5
  <2> QED BY <2>2, <2>6
<1> HIDE DEF first, i, new
<1>9. CASE C = {}
  <2>1. first \in DiagramRows
    BY <1>5 DEF Advanced
  <2>2. /\ new \in Seq(DiagramRows) /\ Len(new) = Len(rs) + 1 /\ new[Len(rs) + 1] = first
        /\ \A j \in 1 .. Len(rs) : new[j] = rs[j]
    BY <1>2, <1>9, <2>1, AppendProperties
  <2>3. Len(rs) + 1 \in 1 .. Len(new)
    BY <2>2
  <2>4. Advanced(new[Len(rs) + 1], v, s, c)
    BY <1>5, <2>2
  <2> QED BY <1>7, <1>9, <2>2, <2>3, <2>4 DEF Placed
<1>10. CASE C # {}
  <2>1. i \in 1 .. Len(rs) /\ rs[i].pc = v.pc /\ lastStage(rs[i]) = s - 1 /\ RowWho(rs[i]) = {v.who}
    BY <1>1, <1>8, <1>10
  <2> HIDE DEF C
  <2> DEFINE r == [[rs[i] EXCEPT !.at[s] = c] EXCEPT !.who[s] = v.who]
  <2>2. new = [rs EXCEPT ![i] = r]
    BY <1>3, <1>10
  <2>3. rs[i] \in DiagramRows
    BY <2>1
  <2>4. /\ r.pc = rs[i].pc /\ r = [pc |-> r.pc, at |-> r.at, who |-> r.who]
        /\ r.at = [rs[i].at EXCEPT ![s] = c] /\ r.who = [rs[i].who EXCEPT ![s] = v.who]
    <3>1. PICK old \in DiagramRows : old = rs[i]
      BY <2>3
    <3>2. PICK p, a, w : old = [pc |-> p, at |-> a, who |-> w]
      BY DEF DiagramRows
    <3>3. r = [pc |-> p, at |-> [a EXCEPT ![s] = c], who |-> [w EXCEPT ![s] = v.who]]
      <4>1. r = [[old EXCEPT !.at[s] = c] EXCEPT !.who[s] = v.who]
        BY <3>1
      <4>2. [old EXCEPT !.at[s] = c] = [pc |-> p, at |-> [a EXCEPT ![s] = c], who |-> w]
        <5>1. [old EXCEPT !.at[s] = c] = [old EXCEPT !.at = [old.at EXCEPT ![s] = c]]
          OBVIOUS
        <5> DEFINE y == [old.at EXCEPT ![s] = c]
        <5>2. y = [a EXCEPT ![s] = c]
          BY <3>2
        <5>3. [old EXCEPT !.at[s] = c] = [old EXCEPT !.at = y]
          BY <5>1
        <5> HIDE DEF y
        <5>4. [old EXCEPT !.at = y] = [pc |-> p, at |-> y, who |-> w]
          BY <3>2
        <5> QED BY <5>2, <5>3, <5>4
      <4> DEFINE x == [a EXCEPT ![s] = c]
                 q == [pc |-> p, at |-> x, who |-> w]
      <4>3. [q EXCEPT !.who[s] = v.who] = [q EXCEPT !.who = [q.who EXCEPT ![s] = v.who]]
        OBVIOUS
      <4>4. q.who = w /\ r = [q EXCEPT !.who[s] = v.who]
        BY <4>1, <4>2
      <4> HIDE DEF x
      <4>5. [q EXCEPT !.who = [w EXCEPT ![s] = v.who]] =
              [pc |-> p, at |-> x, who |-> [w EXCEPT ![s] = v.who]]
        OBVIOUS
      <4> QED BY <4>3, <4>4, <4>5 DEF x
    <3> HIDE DEF r
    <3> QED BY <3>1, <3>2, <3>3
  <2> HIDE DEF r
  <2>5. Advanced(r, v, s, c)
    BY <2>1, <2>3, <2>4, RowGoesOn
  <2>6. r \in DiagramRows
    BY <2>5 DEF Advanced
  <2>7. /\ new \in Seq(DiagramRows) /\ Len(new) = Len(rs) /\ new[i] = r
        /\ \A j \in 1 .. Len(rs) : j # i => new[j] = rs[j]
    BY <2>1, <2>2, <2>6
  <2> QED BY <2>1, <2>5, <2>7 DEF Placed
<1> QED BY <1>9, <1>10

LEMMA TrackedKept ==
  ASSUME NEW rs, NEW new, NEW i, NEW k, NEW a, NEW w, Tracked(rs, k, a, w),
         \A j \in 1 .. Len(new) : j # i => j \in 1 .. Len(rs) /\ new[j] = rs[j],
         \A j \in 1 .. Len(rs) : j # i => j \in 1 .. Len(new) /\ new[j] = rs[j],
         i \in 1 .. Len(new) => RowWho(new[i]) # {w} /\ lastStage(new[i]) # k,
         i \in 1 .. Len(rs) => lastStage(rs[i]) # k
  PROVE  Tracked(new, k, a, w)
<1> DEFINE R == {j \in 1 .. Len(rs) : rs[j].pc = a /\ lastStage(rs[j]) = k}
           Q == {j \in 1 .. Len(new) : new[j].pc = a /\ lastStage(new[j]) = k}
<1>1. /\ \A j \in 1 .. Len(rs) : RowWho(rs[j]) = {w} => j \in R
      /\ \/ R = {}
         \/ \E j \in R : /\ RowWho(rs[j]) = {w}
                         /\ \A m \in R \ {j} : lastCycle(rs[m]) < lastCycle(rs[j])
  BY Zenon DEF Tracked
<1>2. Q = R /\ \A j \in R : j \in 1 .. Len(rs) /\ j # i /\ new[j] = rs[j]
  OBVIOUS
<1>3. \A j \in 1 .. Len(new) : RowWho(new[j]) = {w} => j \in R
  BY <1>1
<1> HIDE DEF R, Q
<1>4. \/ Q = {}
      \/ \E j \in Q : /\ RowWho(new[j]) = {w}
                      /\ \A m \in Q \ {j} : lastCycle(new[m]) < lastCycle(new[j])
  BY <1>1, <1>2
<1>5. \A j \in 1 .. Len(new) : RowWho(new[j]) = {w} => j \in Q
  BY <1>2, <1>3
<1> USE DEF Q
<1> QED BY <1>4, <1>5, Zenon DEF Tracked

GoodRows(rs, n, c) ==
  /\ rs \in Seq(DiagramRows)
  /\ \A i \in 1 .. Len(rs) : /\ lastStage(rs[i]) \in Stages /\ lastCycle(rs[i]) \in 0 .. c
                             /\ \E m \in 1 .. n : RowWho(rs[i]) = {m}
  /\ \A i, j \in 1 .. Len(rs) : i # j => RowWho(rs[i]) # RowWho(rs[j])

(* The columns of cycle c: L are those whose instructions are followed,    *)
(* the ones that are present among them.                                   *)
Columns(vs, L, n) ==
  /\ L \subseteq Stages /\ \A t \in Stages : present(vs[t]) => t \in L
  /\ \A t \in L : vs[t].pc \in Word /\ vs[t].who \in 1 .. n
  /\ \A t, u \in L : t # u => vs[t].who # vs[u].who

(* The rows when the columns s and above have been placed.                 *)
PlacedFrom(rs, vs, L, s, n, c) ==
  /\ GoodRows(rs, n, c)
  /\ \A i \in 1 .. Len(rs) : lastCycle(rs[i]) = c =>
       \E t \in s .. 5 : lastStage(rs[i]) = t /\ present(vs[t]) /\ RowWho(rs[i]) = {vs[t].who}
  /\ \A t \in s .. 5 : present(vs[t]) => \E i \in 1 .. Len(rs) : Advanced(rs[i], vs[t], t, c)
  /\ 1 \in L /\ 1 < s => NoRowOf(rs, vs[1].who)
  /\ \A t \in L : 1 < t /\ t < s => Tracked(rs, t - 1, vs[t].pc, vs[t].who)

LEMMA PlaceStage ==
  ASSUME NEW n \in Nat, NEW c \in Nat \ {0}, NEW vs, NEW L, Columns(vs, L, n),
         NEW s \in Stages, NEW rs, PlacedFrom(rs, vs, L, s + 1, n, c)
  PROVE  PlacedFrom(place(rs, s, vs[s], c), vs, L, s, n, c)
<1> DEFINE v == vs[s]
           new == place(rs, s, v, c)
<1> SUFFICES PlacedFrom(new, vs, L, s, n, c)
  OBVIOUS
<1>1. /\ s \in 1 .. 5 /\ L \subseteq 1 .. 5
      /\ \A t \in s .. 5 : t = s \/ t \in s + 1 .. 5
      /\ \A t \in s + 1 .. 5 : t \in s .. 5 /\ t # s
      /\ \A t \in L : t < s => t < s + 1 /\ t # s /\ t - 1 # s - 1 /\ t - 1 # s
  BY DEF Stages, Columns
<1>2. rs \in Seq(DiagramRows) /\ Len(rs) \in Nat
  BY DEF PlacedFrom, GoodRows
<1>3. CASE ~present(v)
  <2>1. new = rs
    BY <1>3, Zenon DEF place
  <2> HIDE DEF new
  <2>2. \A t \in s .. 5 : present(vs[t]) => t \in s + 1 .. 5
    BY <1>1, <1>3
  <2> QED BY <1>1, <2>1, <2>2 DEF PlacedFrom
<1>4. CASE present(v)
  <2>1. s \in L /\ v.pc \in Word /\ v.who \in 1 .. n /\ v.who \in Nat
    BY <1>4 DEF Columns
  <2>2. Placed(rs, new, v, s, c)
    <3>1. \A i \in 1 .. Len(rs) : lastStage(rs[i]) \in Stages /\ lastCycle(rs[i]) \in 0 .. c
      BY DEF PlacedFrom, GoodRows
    <3>2. ASSUME NEW i \in 1 .. Len(rs), lastStage(rs[i]) = s - 1
          PROVE  lastCycle(rs[i]) < c
      <4>1. lastCycle(rs[i]) # c
        BY <1>1, <3>2 DEF PlacedFrom
      <4> QED BY <3>1, <4>1
    <3>3. s = 1 => NoRowOf(rs, v.who)
      BY <2>1 DEF PlacedFrom
    <3>4. s # 1 => Tracked(rs, s - 1, v.pc, v.who)
      <4>1. s # 1 => 1 < s /\ s < s + 1
        BY <1>1
      <4> QED BY <2>1, <4>1 DEF PlacedFrom
    <3>5. \A i \in 1 .. Len(rs) : lastCycle(rs[i]) \in Nat
      BY <3>1
    <3> HIDE DEF v
    <3> QED BY <1>2, <1>4, <2>1, <3>1, <3>2, <3>3, <3>4, <3>5, Placing
  <2> HIDE DEF new
  <2>3. new \in Seq(DiagramRows) /\ Len(new) \in Nat
    BY <2>2 DEF Placed
  <2>4. PICK i \in 1 .. Len(new) :
          /\ Advanced(new[i], v, s, c)
          /\ \/ /\ Len(new) = Len(rs) /\ lastStage(rs[i]) = s - 1 /\ RowWho(rs[i]) = {v.who}
             \/ /\ Len(new) = Len(rs) + 1 /\ i = Len(new) /\ NoRowOf(rs, v.who)
          /\ \A j \in 1 .. Len(rs) : j # i => new[j] = rs[j]
    BY <2>2, Zenon DEF Placed
  <2>5. /\ \A j \in 1 .. Len(new) : j # i => j \in 1 .. Len(rs) /\ new[j] = rs[j]
        /\ \A j \in 1 .. Len(rs) : j # i => j \in 1 .. Len(new) /\ new[j] = rs[j]
        /\ i \in 1 .. Len(rs) => lastStage(rs[i]) = s - 1
    BY <1>2, <2>3, <2>4
  <2>6. \A j \in 1 .. Len(rs) : j # i => RowWho(rs[j]) # {v.who}
    <3>1. CASE NoRowOf(rs, v.who)
      BY <3>1 DEF NoRowOf
    <3>2. CASE i \in 1 .. Len(rs) /\ RowWho(rs[i]) = {v.who}
      <4>1. \A j \in 1 .. Len(rs) : j # i => RowWho(rs[j]) # RowWho(rs[i])
        BY <3>2 DEF PlacedFrom, GoodRows
      <4> QED BY <3>2, <4>1
    <3> QED BY <2>3, <2>4, <3>1, <3>2
  <2>7. lastStage(new[i]) = s /\ lastCycle(new[i]) = c /\ RowWho(new[i]) = {v.who}
    BY <2>4 DEF Advanced
  <2>8. GoodRows(new, n, c)
    <3>1. ASSUME NEW j \in 1 .. Len(new)
          PROVE  /\ lastStage(new[j]) \in Stages /\ lastCycle(new[j]) \in 0 .. c
                 /\ \E m \in 1 .. n : RowWho(new[j]) = {m}
      <4>1. CASE j = i
        BY <2>1, <2>7, <4>1
      <4>2. CASE j # i
        BY <2>5, <4>2 DEF PlacedFrom, GoodRows
      <4> QED BY <4>1, <4>2
    <3>2. ASSUME NEW j \in 1 .. Len(new), NEW k \in 1 .. Len(new), j # k
          PROVE  RowWho(new[j]) # RowWho(new[k])
      <4>1. CASE j = i
        BY <2>5, <2>6, <2>7, <3>2, <4>1
      <4>2. CASE k = i
        BY <2>5, <2>6, <2>7, <3>2, <4>2
      <4>3. CASE j # i /\ k # i
        BY <2>5, <3>2, <4>3 DEF PlacedFrom, GoodRows
      <4> QED BY <4>1, <4>2, <4>3
    <3> QED BY <2>3, <3>1, <3>2 DEF GoodRows
  <2>9. ASSUME NEW j \in 1 .. Len(new), lastCycle(new[j]) = c
        PROVE  \E t \in s .. 5 : /\ lastStage(new[j]) = t /\ present(vs[t])
                                 /\ RowWho(new[j]) = {vs[t].who}
    <3>1. CASE j = i
      <4>1. s \in s .. 5
        BY <1>1
      <4> QED BY <1>4, <2>7, <3>1, <4>1
    <3>2. CASE j # i
      <4>1. j \in 1 .. Len(rs) /\ new[j] = rs[j] /\ lastCycle(rs[j]) = c
        BY <2>5, <2>9, <3>2
      <4>2. PICK t \in s + 1 .. 5 : /\ lastStage(rs[j]) = t /\ present(vs[t])
                                    /\ RowWho(rs[j]) = {vs[t].who}
        BY <4>1 DEF PlacedFrom
      <4> QED BY <1>1, <4>1, <4>2
    <3> QED BY <3>1, <3>2
  <2>10. ASSUME NEW t \in s .. 5, present(vs[t])
         PROVE  \E j \in 1 .. Len(new) : Advanced(new[j], vs[t], t, c)
    <3>1. CASE t = s
      BY <2>4, <3>1
    <3>2. CASE t # s
      <4>1. t \in s + 1 .. 5
        BY <1>1, <3>2
      <4>2. PICK j \in 1 .. Len(rs) : Advanced(rs[j], vs[t], t, c)
        BY <2>10, <4>1 DEF PlacedFrom
      <4>3. j # i
        <5>1. lastStage(rs[j]) = t
          BY <4>2 DEF Advanced
        <5>2. t # s - 1
          BY <1>1, <4>1
        <5> QED BY <2>5, <5>1, <5>2
      <4> QED BY <2>5, <4>2, <4>3
    <3> QED BY <3>1, <3>2
  <2>11. ASSUME NEW t \in L, t < s PROVE RowWho(new[i]) # {vs[t].who}
    <3>1. t # s
      BY <1>1, <2>11
    <3>2. vs[t].who # vs[s].who
      BY <2>1, <3>1 DEF Columns
    <3> QED BY <2>7, <3>2
  <2>12. 1 \in L /\ 1 < s => NoRowOf(new, vs[1].who)
    <3>1. SUFFICES ASSUME 1 \in L, 1 < s, NEW j \in 1 .. Len(new)
                   PROVE  RowWho(new[j]) # {vs[1].who}
      BY Zenon DEF NoRowOf
    <3>2. NoRowOf(rs, vs[1].who)
      <4>1. 1 < s + 1
        BY <1>1, <3>1
      <4> QED BY <3>1, <4>1 DEF PlacedFrom
    <3> QED BY <2>5, <2>11, <3>1, <3>2 DEF NoRowOf
  <2>13. ASSUME NEW t \in L, 1 < t, t < s
         PROVE  Tracked(new, t - 1, vs[t].pc, vs[t].who)
    <3>1. Tracked(rs, t - 1, vs[t].pc, vs[t].who)
      BY <1>1, <2>13 DEF PlacedFrom
    <3>2. i \in 1 .. Len(rs) => lastStage(rs[i]) # t - 1
      BY <1>1, <2>5, <2>13
    <3>3. RowWho(new[i]) # {vs[t].who} /\ lastStage(new[i]) # t - 1
      BY <1>1, <2>7, <2>11, <2>13
    <3> DEFINE k == t - 1
               a == vs[t].pc
               w == vs[t].who
    <3> SUFFICES Tracked(new, k, a, w)
      OBVIOUS
    <3>4. /\ Tracked(rs, k, a, w) /\ RowWho(new[i]) # {w} /\ lastStage(new[i]) # k
          /\ i \in 1 .. Len(rs) => lastStage(rs[i]) # k
      BY <3>1, <3>2, <3>3
    <3> HIDE DEF k, a, w
    <3> QED BY <2>5, <3>4, TrackedKept
  <2> QED BY <2>8, <2>9, <2>10, <2>12, <2>13 DEF PlacedFrom
<1> QED BY <1>3, <1>4

LEMMA AllPlaced ==
  ASSUME NEW n \in Nat, NEW c \in Nat \ {0}, NEW vs, NEW L, Columns(vs, L, n),
         NEW rs, PlacedFrom(rs, vs, L, 6, n, c)
  PROVE  /\ PlacedFrom(placeAll(rs, vs, c), vs, L, 1, n, c)
         /\ 2 \in L /\ ~present(vs[1]) /\ ~present(vs[2]) =>
              Tracked(placeAll(rs, vs, c), 1, vs[2].pc, vs[2].who)
<1> DEFINE body(w) == w = [s \in 1 .. 6 |-> IF s = 6 THEN rs ELSE place(w[s + 1], s, vs[s], c)]
           p == CHOOSE w : body(w)
<1>1. placeAll(rs, vs, c) = p[1]
  BY Zenon DEF placeAll
<1>2. \E w : body(w)
  <2> DEFINE r5 == place(rs, 5, vs[5], c)
             r4 == place(r5, 4, vs[4], c)
             r3 == place(r4, 3, vs[3], c)
             r2 == place(r3, 2, vs[2], c)
             r1 == place(r2, 1, vs[1], c)
             w  == <<r1, r2, r3, r4, r5, rs>>
  <2>1. /\ r5 = place(rs, 5, vs[5], c) /\ r4 = place(r5, 4, vs[4], c)
        /\ r3 = place(r4, 3, vs[3], c) /\ r2 = place(r3, 2, vs[2], c)
        /\ r1 = place(r2, 1, vs[1], c)
    OBVIOUS
  <2> HIDE DEF r1, r2, r3, r4, r5
  <2>2. /\ w[1] = r1 /\ w[2] = r2 /\ w[3] = r3 /\ w[4] = r4 /\ w[5] = r5 /\ w[6] = rs
        /\ w = [s \in 1 .. 6 |-> w[s]]
    OBVIOUS
  <2> HIDE DEF w
  <2>3. ASSUME NEW s \in 1 .. 6
        PROVE  w[s] = IF s = 6 THEN rs ELSE place(w[s + 1], s, vs[s], c)
    <3>1. s = 1 \/ s = 2 \/ s = 3 \/ s = 4 \/ s = 5 \/ s = 6
      OBVIOUS
    <3> QED BY <2>1, <2>2, <3>1
  <2>4. w = [s \in 1 .. 6 |-> IF s = 6 THEN rs ELSE place(w[s + 1], s, vs[s], c)]
    BY <2>2, <2>3
  <2> QED BY <2>4
<1>3. body(p)
  <2> HIDE DEF body
  <2> QED BY <1>2, Zenon
<1> HIDE DEF p
<1>4. p[6] = rs /\ \A s \in Stages : p[s] = place(p[s + 1], s, vs[s], c)
  <2>1. \A s \in 1 .. 6 : p[s] = IF s = 6 THEN rs ELSE place(p[s + 1], s, vs[s], c)
    BY <1>3
  <2>2. 6 \in 1 .. 6 /\ \A s \in Stages : s \in 1 .. 6 /\ s # 6
    BY DEF Stages
  <2> QED BY <2>1, <2>2
<1> HIDE DEF body
<1>5. ASSUME NEW s \in Stages, PlacedFrom(p[s + 1], vs, L, s + 1, n, c)
      PROVE  PlacedFrom(p[s], vs, L, s, n, c)
  <2>1. PICK q : q = p[s + 1]
    OBVIOUS
  <2>2. PlacedFrom(place(q, s, vs[s], c), vs, L, s, n, c)
    BY <1>5, <2>1, PlaceStage
  <2> QED BY <1>4, <2>1, <2>2
<1>6. /\ 1 \in Stages /\ 2 \in Stages /\ 3 \in Stages /\ 4 \in Stages /\ 5 \in Stages
      /\ 1 + 1 = 2 /\ 2 + 1 = 3 /\ 3 + 1 = 4 /\ 4 + 1 = 5 /\ 5 + 1 = 6
  BY DEF Stages
<1>7. PlacedFrom(p[3], vs, L, 3, n, c)
  <2>1. PlacedFrom(p[5], vs, L, 5, n, c)
    BY <1>4, <1>5, <1>6
  <2>2. PlacedFrom(p[4], vs, L, 4, n, c)
    BY <1>5, <1>6, <2>1
  <2> QED BY <1>5, <1>6, <2>2
<1>8. PlacedFrom(p[1], vs, L, 1, n, c)
  <2>1. PlacedFrom(p[2], vs, L, 2, n, c)
    BY <1>5, <1>6, <1>7
  <2> QED BY <1>5, <1>6, <2>1
<1>9. ASSUME 2 \in L, ~present(vs[1]), ~present(vs[2])
      PROVE  Tracked(p[1], 1, vs[2].pc, vs[2].who)
  <2>1. \A q, s : ~present(vs[s]) => place(q, s, vs[s], c) = q
    BY Zenon DEF place
  <2>2. p[2] = p[3] /\ p[1] = p[2]
    BY <1>4, <1>6, <1>9, <2>1
  <2>3. 1 < 2 /\ 2 < 3 /\ 2 - 1 = 1
    OBVIOUS
  <2>4. Tracked(p[3], 2 - 1, vs[2].pc, vs[2].who)
    BY <1>7, <1>9, <2>3 DEF PlacedFrom
  <2> QED BY <2>2, <2>3, <2>4
<1> QED BY <1>1, <1>8, <1>9

(* Only rows that have scrolled out of the diagram are removed. *)
Scrolled(rs, new, first) ==
  /\ new \in Seq(DiagramRows)
  /\ \E from \in [1 .. Len(new) -> 1 .. Len(rs)] :
       /\ \A i \in 1 .. Len(new) : new[i] = rs[from[i]] /\ lastCycle(new[i]) >= first
       /\ \A i, j \in 1 .. Len(new) : i # j => from[i] # from[j]
       /\ \A d \in 1 .. Len(rs) : lastCycle(rs[d]) >= first => \E i \in 1 .. Len(new) : from[i] = d

LEMMA RowsScroll ==
  ASSUME NEW rs \in Seq(DiagramRows), NEW first
  PROVE  Scrolled(rs, visibleRows(rs, first), first)
<1> DEFINE N == Len(rs)
           T == {i \in 1 .. N : lastCycle(rs[i]) >= first}
           body(w) == w = [i \in 0 .. N |->
                             IF i = 0 THEN <<>>
                             ELSE IF lastCycle(rs[i]) >= first THEN Append(w[i - 1], rs[i])
                             ELSE w[i - 1]]
           k == CHOOSE w : body(w)
           new == visibleRows(rs, first)
<1> SUFFICES Scrolled(rs, new, first)
  OBVIOUS
<1>1. new = k[N]
  BY Zenon DEF visibleRows
<1>2. N \in Nat /\ \A i \in 1 .. N : rs[i] \in DiagramRows
  OBVIOUS
<1>3. \A w : body(w) <=> Gathers(w, N, T, rs)
  <2> DEFINE f(w) == [i \in 0 .. N |->
                        IF i = 0 THEN <<>>
                        ELSE IF lastCycle(rs[i]) >= first THEN Append(w[i - 1], rs[i])
                        ELSE w[i - 1]]
             g(w) == [i \in 0 .. N |->
                        IF i = 0 THEN <<>>
                        ELSE IF i \in T THEN Append(w[i - 1], rs[i]) ELSE w[i - 1]]
  <2>1. ASSUME NEW w, NEW i \in 0 .. N
        PROVE  f(w)[i] = g(w)[i]
    <3>1. i # 0 => i \in 1 .. N
      BY <1>2
    <3>2. i # 0 => (i \in T <=> lastCycle(rs[i]) >= first)
      BY <3>1
    <3> HIDE DEF T
    <3> QED BY <3>2
  <2>2. \A w : f(w) = g(w)
    BY <2>1
  <2>3. \A w : (body(w) <=> w = f(w)) /\ (Gathers(w, N, T, rs) <=> w = g(w))
    BY Zenon DEF Gathers
  <2> HIDE DEF f, g, body
  <2> QED BY <2>2, <2>3
<1>4. Gathers(k, N, T, rs)
  <2> HIDE DEF N, T
  <2>1. PICK w : Gathers(w, N, T, rs)
    BY <1>2, GatheringExists
  <2>2. body(w)
    BY <1>3, <2>1, Zenon
  <2> HIDE DEF body
  <2>3. body(k)
    BY <2>2, Zenon
  <2> QED BY <1>3, <2>3, Zenon
<1> HIDE DEF T, k, body, new
<1>5. new \in Seq(DiagramRows) /\ \E from : Collected(new, N, T, rs, from)
  <2>1. \A i \in 1 .. N : i \in T => rs[i] \in DiagramRows
    BY <1>2
  <2> HIDE DEF N
  <2> QED BY <1>1, <1>2, <1>4, <2>1, GatheringHolds
<1>6. PICK from : Collected(new, N, T, rs, from)
  BY <1>5
<1>7. /\ from \in [1 .. Len(new) -> 1 .. N]
      /\ \A i \in 1 .. Len(new) : from[i] \in T /\ new[i] = rs[from[i]]
      /\ \A i, j \in 1 .. Len(new) : i < j => from[i] < from[j]
      /\ \A d \in 1 .. N : d \in T => \E i \in 1 .. Len(new) : from[i] = d
  BY <1>6, Zenon DEF Collected
<1>8. \A i \in 1 .. Len(new) : lastCycle(new[i]) >= first
  BY <1>7 DEF T
<1>9. ASSUME NEW i \in 1 .. Len(new), NEW j \in 1 .. Len(new), i # j
      PROVE  from[i] # from[j]
  <2>1. from[i] \in Nat /\ from[j] \in Nat
    BY <1>7
  <2>2. i \in Nat /\ j \in Nat
    BY <1>5
  <2>3. i < j \/ j < i
    BY <1>9, <2>2
  <2> QED BY <1>7, <2>1, <2>3
<1>10. \A d \in 1 .. N : lastCycle(rs[d]) >= first => d \in T
  BY DEF T
<1> QED BY <1>5, <1>7, <1>8, <1>9, <1>10 DEF Scrolled

LEMMA TrackedScrolls ==
  ASSUME NEW rs \in Seq(DiagramRows), \A i \in 1 .. Len(rs) : lastCycle(rs[i]) \in Nat,
         NEW first \in Nat, NEW new, Scrolled(rs, new, first),
         NEW k, NEW a, NEW w, Tracked(rs, k, a, w)
  PROVE  Tracked(new, k, a, w)
<1> DEFINE R == {j \in 1 .. Len(rs) : rs[j].pc = a /\ lastStage(rs[j]) = k}
           Q == {j \in 1 .. Len(new) : new[j].pc = a /\ lastStage(new[j]) = k}
<1>1. /\ \A j \in 1 .. Len(rs) : RowWho(rs[j]) = {w} => j \in R
      /\ \/ R = {}
         \/ \E j \in R : /\ RowWho(rs[j]) = {w}
                         /\ \A m \in R \ {j} : lastCycle(rs[m]) < lastCycle(rs[j])
  BY Zenon DEF Tracked
<1>2. PICK from \in [1 .. Len(new) -> 1 .. Len(rs)] :
        /\ \A i \in 1 .. Len(new) : new[i] = rs[from[i]] /\ lastCycle(new[i]) >= first
        /\ \A i, j \in 1 .. Len(new) : i # j => from[i] # from[j]
        /\ \A d \in 1 .. Len(rs) : lastCycle(rs[d]) >= first => \E i \in 1 .. Len(new) : from[i] = d
  BY Zenon DEF Scrolled
<1>3. \A j \in 1 .. Len(new) : from[j] \in 1 .. Len(rs) /\ (j \in Q <=> from[j] \in R)
  BY <1>2
<1>4. \A j \in Q : j \in 1 .. Len(new)
  OBVIOUS
<1>5. \A j \in R : j \in 1 .. Len(rs)
  OBVIOUS
<1> HIDE DEF R, Q
<1>6. \A j \in 1 .. Len(new) : RowWho(new[j]) = {w} => j \in Q
  BY <1>1, <1>2, <1>3
<1>7. \/ Q = {}
      \/ \E j \in Q : /\ RowWho(new[j]) = {w}
                      /\ \A m \in Q \ {j} : lastCycle(new[m]) < lastCycle(new[j])
  <2>1. SUFFICES ASSUME Q # {}
                 PROVE  \E j \in Q : /\ RowWho(new[j]) = {w}
                                     /\ \A m \in Q \ {j} : lastCycle(new[m]) < lastCycle(new[j])
    OBVIOUS
  <2>2. PICK q : q \in Q
    BY <2>1
  <2>3. q \in 1 .. Len(new) /\ from[q] \in R
    BY <1>3, <1>4, <2>2
  <2>4. PICK d \in R : /\ RowWho(rs[d]) = {w}
                       /\ \A m \in R \ {d} : lastCycle(rs[m]) < lastCycle(rs[d])
    BY <1>1, <2>3
  <2>5. lastCycle(rs[d]) >= first
    <3>1. lastCycle(rs[from[q]]) >= first /\ lastCycle(rs[from[q]]) \in Nat
      BY <1>2, <1>3, <2>3
    <3>2. lastCycle(rs[d]) \in Nat
      BY <1>5
    <3>3. CASE from[q] = d
      BY <3>1, <3>3
    <3>4. CASE from[q] # d
      <4>1. lastCycle(rs[from[q]]) < lastCycle(rs[d])
        BY <2>3, <2>4, <3>4
      <4> QED BY <3>1, <3>2, <4>1
    <3> QED BY <3>3, <3>4
  <2>6. PICK j \in 1 .. Len(new) : from[j] = d
    BY <1>2, <1>5, <2>5
  <2>7. j \in Q /\ new[j] = rs[d]
    BY <1>2, <1>3, <2>6
  <2>8. ASSUME NEW m \in Q, m # j PROVE lastCycle(new[m]) < lastCycle(new[j])
    <3>1. m \in 1 .. Len(new) /\ from[m] \in R
      BY <1>3, <1>4
    <3>2. from[m] # d /\ new[m] = rs[from[m]]
      BY <1>2, <2>6, <2>8, <3>1
    <3> QED BY <2>4, <2>7, <3>1, <3>2
  <2> QED BY <2>4, <2>7, <2>8
<1> USE DEF Q
<1> QED BY <1>6, <1>7, Zenon DEF Tracked

(* The rows after the columns of cycle c have been placed.                 *)
Shows(new, vs, L, n, c) ==
  /\ GoodRows(new, n, c)
  /\ \A s \in Stages : present(vs[s]) =>
       /\ \E i \in 1 .. Len(new) : new[i].at[s] = c /\ new[i].who[s] = vs[s].who
       /\ Tracked(new, s, vs[s].pc, vs[s].who)
  /\ 2 \in L /\ ~present(vs[1]) /\ ~present(vs[2]) => Tracked(new, 1, vs[2].pc, vs[2].who)

LEMMA RowsShown ==
  ASSUME NEW n \in Nat, NEW c \in Nat \ {0}, NEW vs, NEW L, Columns(vs, L, n),
         NEW rs, PlacedFrom(rs, vs, L, 6, n, c), NEW first \in Nat, first <= c
  PROVE  Shows(visibleRows(placeAll(rs, vs, c), first), vs, L, n, c)
<1> DEFINE placed == placeAll(rs, vs, c)
           new    == visibleRows(placed, first)
<1> SUFFICES Shows(new, vs, L, n, c)
  OBVIOUS
<1>1. /\ PlacedFrom(placed, vs, L, 1, n, c)
      /\ 2 \in L /\ ~present(vs[1]) /\ ~present(vs[2]) =>
           Tracked(placed, 1, vs[2].pc, vs[2].who)
  BY AllPlaced
<1> HIDE DEF placed
<1>2. GoodRows(placed, n, c)
  BY <1>1 DEF PlacedFrom
<1>3. placed \in Seq(DiagramRows) /\ \A i \in 1 .. Len(placed) : lastCycle(placed[i]) \in 0 .. c
  BY <1>2 DEF GoodRows
<1>4. Scrolled(placed, new, first)
  BY <1>3, RowsScroll
<1> HIDE DEF new
<1>5. PICK from \in [1 .. Len(new) -> 1 .. Len(placed)] :
        /\ \A i \in 1 .. Len(new) : new[i] = placed[from[i]] /\ lastCycle(new[i]) >= first
        /\ \A i, j \in 1 .. Len(new) : i # j => from[i] # from[j]
        /\ \A d \in 1 .. Len(placed) :
             lastCycle(placed[d]) >= first => \E i \in 1 .. Len(new) : from[i] = d
  BY <1>4, Zenon DEF Scrolled
<1>6. \A i \in 1 .. Len(new) : from[i] \in 1 .. Len(placed) /\ new[i] = placed[from[i]]
  BY <1>5
<1>7. GoodRows(new, n, c)
  <2>1. new \in Seq(DiagramRows)
    BY <1>4 DEF Scrolled
  <2>2. /\ \A d, e \in 1 .. Len(placed) : d # e => RowWho(placed[d]) # RowWho(placed[e])
        /\ \A d \in 1 .. Len(placed) :
             /\ lastStage(placed[d]) \in Stages /\ lastCycle(placed[d]) \in 0 .. c
             /\ \E m \in 1 .. n : RowWho(placed[d]) = {m}
    BY <1>2, Zenon DEF GoodRows
  <2>3. ASSUME NEW i \in 1 .. Len(new), NEW j \in 1 .. Len(new), i # j
        PROVE  RowWho(new[i]) # RowWho(new[j])
    <3>1. from[i] # from[j]
      BY <1>5, <2>3
    <3> QED BY <1>6, <2>2, <3>1
  <2>4. ASSUME NEW i \in 1 .. Len(new)
        PROVE  /\ lastStage(new[i]) \in Stages /\ lastCycle(new[i]) \in 0 .. c
               /\ \E m \in 1 .. n : RowWho(new[i]) = {m}
    <3>1. PICK d \in 1 .. Len(placed) : new[i] = placed[d]
      BY <1>6
    <3>2. PICK m \in 1 .. n : RowWho(placed[d]) = {m}
      BY <2>2
    <3> QED BY <2>2, <3>1, <3>2
  <2> QED BY <2>1, <2>3, <2>4, Zenon DEF GoodRows
<1>8. \A k, a, w : Tracked(placed, k, a, w) => Tracked(new, k, a, w)
  <2>1. \A i \in 1 .. Len(placed) : lastCycle(placed[i]) \in Nat
    BY <1>3
  <2> QED BY <1>3, <1>4, <2>1, TrackedScrolls
<1>9. ASSUME NEW s \in Stages, present(vs[s])
      PROVE  /\ \E i \in 1 .. Len(new) : new[i].at[s] = c /\ new[i].who[s] = vs[s].who
             /\ Tracked(new, s, vs[s].pc, vs[s].who)
  <2>1. s \in 1 .. 5
    BY DEF Stages
  <2>2. PICK d \in 1 .. Len(placed) : Advanced(placed[d], vs[s], s, c)
    BY <1>1, <1>9, <2>1 DEF PlacedFrom
  <2>3. lastCycle(placed[d]) >= first
    BY <2>2 DEF Advanced
  <2>4. PICK i \in 1 .. Len(new) : from[i] = d
    BY <1>5, <2>3
  <2>5. Advanced(new[i], vs[s], s, c)
    BY <1>6, <2>2, <2>4
  <2>6. \A j \in 1 .. Len(new) : RowWho(new[j]) = {vs[s].who} => j = i
    BY <1>7, <2>5 DEF GoodRows, Advanced
  <2>7. ASSUME NEW j \in 1 .. Len(new), lastStage(new[j]) = s, j # i
        PROVE  lastCycle(new[j]) < c
    <3>1. lastCycle(new[j]) \in 0 .. c
      BY <1>7 DEF GoodRows
    <3>2. ASSUME lastCycle(new[j]) = c PROVE FALSE
      <4>1. PICK t \in 1 .. 5 : /\ lastStage(placed[from[j]]) = t /\ present(vs[t])
                                /\ RowWho(placed[from[j]]) = {vs[t].who}
        BY <1>1, <1>6, <3>2 DEF PlacedFrom
      <4>2. RowWho(new[j]) = {vs[s].who}
        BY <1>6, <2>7, <4>1
      <4> QED BY <2>6, <2>7, <4>2
    <3> QED BY <3>1, <3>2
  <2>8. Tracked(new, s, vs[s].pc, vs[s].who)
    <3> DEFINE Q == {j \in 1 .. Len(new) : new[j].pc = vs[s].pc /\ lastStage(new[j]) = s}
    <3>1. i \in Q /\ RowWho(new[i]) = {vs[s].who} /\ lastCycle(new[i]) = c
      BY <2>5 DEF Advanced
    <3>2. \A j \in Q \ {i} : lastCycle(new[j]) < lastCycle(new[i])
      BY <2>7, <3>1
    <3>3. \A j \in 1 .. Len(new) : RowWho(new[j]) = {vs[s].who} => j \in Q
      BY <2>6, <3>1
    <3>4. \E j \in Q : /\ RowWho(new[j]) = {vs[s].who}
                       /\ \A m \in Q \ {j} : lastCycle(new[m]) < lastCycle(new[j])
      BY <3>1, <3>2
    <3> QED BY <3>3, <3>4, Zenon DEF Tracked
  <2> QED BY <2>5, <2>8 DEF Advanced
<1> QED BY <1>1, <1>7, <1>8, <1>9 DEF Shows

-----------------------------------------------------------------------------
(* The diagram follows the pipeline *)

(* Whether an instruction that a register holds has been given a cell.     *)
Drawn(k) ==
  Held(k) /\ (k = 1 => ~if_id.fetch_fault) /\ (k = 2 => id_ex.early_trap # AdEL)

(* Unless cycles have been throttled since, each instruction in the        *)
(* registers is last of those at its address in its stage.                 *)
RowsInv ==
  /\ last_cycle = shown.cycle
  /\ ~gap =>
       /\ GoodRows(rows, serial, last_cycle)
       /\ \A s \in Stages : present(shown.stages[s]) =>
            \E i \in 1 .. Len(rows) :
              rows[i].at[s] = shown.cycle /\ rows[i].who[s] = shown.stages[s].who
       /\ last_cycle = cycle =>
            \A k \in 1 .. 4 : Drawn(k) => Tracked(rows, k, Address(k), in_flight[k])

LEMMA FollowedColumns ==
  ASSUME ViewsBase, Step, Number
  PROVE  Columns(Views, {s \in Stages : IF s = 1 THEN present(Views[1]) ELSE Drawn(s - 1)}, serial')
<1> DEFINE L == {s \in Stages : IF s = 1 THEN present(Views[1]) ELSE Drawn(s - 1)}
           vs == Views
           n  == serial'
<1> SUFFICES Columns(vs, L, n)
  OBVIOUS
<1>1. serial \in Nat /\ n \in {serial, serial + 1}
  BY NumbersOfStep DEF ViewsBase, NumbersInv
<1>2. \A s \in Stages : s = 1 \/ (s \in 2 .. 5 /\ s - 1 \in 1 .. 4 /\ s # 1)
  BY DEF Stages
<1>3. \A s \in L : s # 1 => s \in 2 .. 5 /\ Drawn(s - 1)
  BY <1>2
<1>4. 1 \in L => present(Views[1])
  OBVIOUS
<1>5. L \subseteq Stages
  OBVIOUS
<1>6. ASSUME NEW s \in Stages, present(vs[s]) PROVE s \in L
  <2>1. CASE s = 1
    BY <1>6, <2>1
  <2>2. CASE s # 1
    <3>1. Drawn(s - 1)
      <4>1. s \in 2 .. 5 /\ s - 1 \in 1 .. 4
        BY <1>2, <2>2
      <4>2. Held(s - 1)
        BY <1>6, <4>1, ViewsOfStep DEF ViewsBase, present
      <4>3. s - 1 = 1 => ~if_id.fetch_fault
        <5>1. s - 1 = 1 => present(Views[2])
          BY <1>6, <4>1
        <5> QED BY <5>1, ViewsOfStep DEF ViewsBase
      <4>4. s - 1 = 2 => id_ex.early_trap # AdEL
        <5>1. s - 1 = 2 => present(Views[3])
          BY <1>6, <4>1
        <5> QED BY <5>1, ViewsOfStep DEF ViewsBase
      <4> QED BY <4>2, <4>3, <4>4 DEF Drawn
    <3> QED BY <2>2, <3>1
  <2> QED BY <2>1, <2>2
<1>7. /\ vs[1].who = in_flight'[1]
      /\ \A s \in 2 .. 5 : vs[s].who = in_flight[s - 1]
      /\ \A s \in Stages : vs[s].pc \in Word
  <2>1. \A s \in Stages : Views[s] \in [valid : BOOLEAN, stalled : BOOLEAN, flushed : BOOLEAN,
                                       pc : Word, raw : Word, who : {Views[s].who}]
    BY ViewsOfStep DEF ViewsBase
  <2> QED BY <2>1, ViewsOfStep DEF ViewsBase
<1>8. 1 \in L => vs[1].who = serial + 1 /\ n = serial + 1
  <2>1. 1 \in L => if_id'.valid /\ ~Stall
    BY <1>4, ViewsOfStep DEF ViewsBase
  <2> QED BY <1>7, <2>1, NumbersOfStep DEF ViewsBase
<1> HIDE DEF L, vs, n
<1>9. \A s \in L : s # 1 => /\ s \in 2 .. 5 /\ s - 1 \in 1 .. 4 /\ Held(s - 1)
                            /\ vs[s].who = in_flight[s - 1] /\ vs[s].who \in 1 .. serial
  <2>1. \A s \in L : s # 1 => s \in 2 .. 5 /\ s - 1 \in 1 .. 4 /\ Held(s - 1)
    BY <1>3 DEF Drawn
  <2>2. \A k \in 1 .. 4 : Held(k) => in_flight[k] \in 1 .. serial
    BY DEF ViewsBase, NumbersInv
  <2> QED BY <1>7, <2>1, <2>2
<1>10. ASSUME NEW t \in L, NEW u \in L, t < u PROVE vs[t].who # vs[u].who
  <2>1. CASE t = 1
    <3>1. u # 1
      BY <1>10, <2>1
    <3> QED BY <1>1, <1>8, <1>9, <2>1, <3>1
  <2>2. CASE t # 1
    <3>1. t \in 2 .. 5 /\ u \in 2 .. 5 /\ u # 1 /\ t - 1 < u - 1
      BY <1>2, <1>5, <1>10, <2>2
    <3>2. in_flight[u - 1] < in_flight[t - 1]
      BY <1>9, <2>2, <3>1 DEF ViewsBase, NumbersInv
    <3> QED BY <1>1, <1>9, <2>2, <3>1, <3>2
  <2> QED BY <2>1, <2>2
<1>11. ASSUME NEW t \in L, NEW u \in L, t # u PROVE vs[t].who # vs[u].who
  <2>1. t \in Nat /\ u \in Nat
    BY <1>2, <1>5
  <2>2. t < u \/ u < t
    BY <1>11, <2>1
  <2> QED BY <1>10, <2>2
<1>12. ASSUME NEW t \in L PROVE vs[t].pc \in Word /\ vs[t].who \in 1 .. n
  <2>1. CASE t = 1
    BY <1>1, <1>5, <1>7, <1>8, <1>12, <2>1
  <2>2. CASE t # 1
    BY <1>1, <1>5, <1>7, <1>9, <1>12, <2>2
  <2> QED BY <2>1, <2>2
<1> QED BY <1>5, <1>6, <1>11, <1>12 DEF Columns

(* An instruction in the registers after a cycle has been given a cell in  *)
(* it, or is the one that stalls in IF/ID.                                 *)
LEMMA DrawnByStep ==
  ASSUME ViewsBase, Step, Number, NEW k \in 1 .. 4, Drawn(k)'
  PROVE  \/ present(Views[k]) /\ Address(k)' = Views[k].pc /\ in_flight'[k] = Views[k].who
         \/ /\ k = 1 /\ Drawn(1) /\ ~present(Views[1]) /\ ~present(Views[2])
            /\ Address(1)' = Views[2].pc /\ in_flight'[1] = Views[2].who
<1>1. Held(k)' /\ (k = 1 => ~if_id'.fetch_fault) /\ (k = 2 => id_ex'.early_trap # AdEL)
  BY DEF Drawn
<1>2. CASE k = 1
  <2>1. if_id'.valid /\ ~if_id'.fetch_fault /\ Address(1)' = if_id'.pc
    BY <1>1, <1>2 DEF Held, Address
  <2>2. CASE ~Stall
    <3>1. present(Views[1]) /\ Views[1].pc = if_id'.pc /\ Views[1].who = in_flight'[1]
      BY <2>1, <2>2, ViewsOfStep DEF ViewsBase
    <3> QED BY <1>2, <2>1, <3>1
  <2>3. CASE Stall
    <3>1. if_id' = if_id /\ in_flight'[1] = in_flight[1]
      BY <2>1, <2>3, Moves, NumbersOfStep DEF ViewsBase
    <3>2. Drawn(1)
      BY <2>1, <3>1 DEF Drawn, Held
    <3>3. /\ ~present(Views[1]) /\ ~present(Views[2])
          /\ Views[2].pc = Address(1) /\ Views[2].who = in_flight[1]
      <4>1. 2 \in 2 .. 5 /\ 2 - 1 = 1
        OBVIOUS
      <4> QED BY <2>3, <4>1, ViewsOfStep DEF ViewsBase
    <3>4. Address(1)' = Address(1)
      BY <3>1 DEF Address
    <3> QED BY <1>2, <3>1, <3>2, <3>3, <3>4
  <2> QED BY <2>2, <2>3
<1>3. CASE k # 1
  <2>1. k \in 2 .. 4 /\ k \in 2 .. 5
    BY <1>3
  <2>2. Held(k - 1) /\ Address(k)' = Address(k - 1) /\ in_flight'[k] = in_flight[k - 1]
    BY <1>1, <2>1, NumbersOfStep DEF ViewsBase
  <2>3. Views[k].pc = Address(k - 1) /\ Views[k].who = in_flight[k - 1]
    BY <2>1, ViewsOfStep DEF ViewsBase
  <2>4. present(Views[k])
    <3>1. CASE k = 2
      <4>1. id_ex'.valid /\ id_ex'.early_trap # AdEL
        BY <1>1, <3>1 DEF Held
      <4>2. if_id.valid /\ ~Stall /\ ~Flush /\ ~if_id.fetch_fault
        <5>1. if_id.fetch_fault \in BOOLEAN
          BY DEF ViewsBase, TypeOK, IfId
        <5> QED BY <4>1, <5>1, Moves DEF ViewsBase
      <4> QED BY <3>1, <4>2, ViewsOfStep DEF ViewsBase
    <3>2. CASE k = 3
      <4>1. ex_mem'.valid
        BY <1>1, <3>2 DEF Held
      <4>2. id_ex.valid /\ id_ex.early_trap # AdEL
        BY <4>1, Moves DEF ViewsBase
      <4> QED BY <3>2, <4>2, ViewsOfStep DEF ViewsBase
    <3>3. CASE k = 4
      <4>1. mem_wb'.valid
        BY <1>1, <3>3 DEF Held
      <4>2. ex_mem.valid
        BY <4>1, Moves DEF ViewsBase
      <4> QED BY <3>3, <4>2, ViewsOfStep DEF ViewsBase
    <3> QED BY <2>1, <3>1, <3>2, <3>3
  <2> QED BY <2>2, <2>3, <2>4
<1> QED BY <1>2, <1>3

LEMMA ShowKeepsRows ==
  ASSUME ViewsBase, RowsInv, Step, Number, cycle' = cycle + 1, Show
  PROVE  RowsInv'
<1> DEFINE vs == Views
           c  == cycle'
           n  == serial'
           L  == {s \in Stages : IF s = 1 THEN present(Views[1]) ELSE Drawn(s - 1)}
           rs == IF startsOver(c) THEN <<>> ELSE rows
           first == IF c > kMaxCycles THEN c - kMaxCycles + 1 ELSE 1
           new == visibleRows(placeAll(rs, vs, c), first)
<1>1. cycle \in Nat /\ c = cycle + 1 /\ c \in Nat \ {0} /\ serial \in Nat
  BY DEF ViewsBase, NumbersInv
<1>2. n \in {serial, serial + 1} /\ n \in Nat
  BY <1>1, NumbersOfStep DEF ViewsBase
<1>3. shown'.cycle = c /\ shown'.stages = vs
  BY DEF Show
<1>4. /\ rows' = new /\ last_cycle' = c
      /\ gap' = (~startsOver(c) /\ (gap \/ c # last_cycle + 1))
  <2>1. traceUpdate(vs, c)
    BY DEF Show
  <2> QED BY <2>1, Zenon DEF traceUpdate
<1>5. first \in Nat /\ first <= c
  <2>1. kMaxCycles \in Nat /\ kMaxCycles >= 1
    BY ViewsAssumption
  <2> QED BY <1>1, <2>1
<1>6. Columns(vs, L, n)
  BY FollowedColumns
<1> SUFFICES ASSUME ~gap'
             PROVE  /\ GoodRows(rows', n, c)
                    /\ \A s \in Stages : present(vs[s]) =>
                         \E i \in 1 .. Len(rows') :
                           rows'[i].at[s] = c /\ rows'[i].who[s] = vs[s].who
                    /\ \A k \in 1 .. 4 :
                         Drawn(k)' => Tracked(rows', k, Address(k)', in_flight'[k])
  BY <1>3, <1>4 DEF RowsInv
<1>7. PlacedFrom(rs, vs, L, 6, n, c)
  <2>1. CASE startsOver(c)
    <3>1. rs = <<>>
      BY <2>1
    <3> HIDE DEF rs, L, vs, c, n
    <3>2. \A k, a, w : Tracked(rs, k, a, w)
      <4>1. \A k, a : {i \in 1 .. Len(rs) : rs[i].pc = a /\ lastStage(rs[i]) = k} = {}
        BY <3>1
      <4>2. 1 .. Len(rs) = {}
        BY <3>1
      <4> QED BY <4>1, <4>2, Zenon DEF Tracked
    <3>3. rs \in Seq(DiagramRows) /\ Len(rs) = 0
      BY <3>1
    <3>4. GoodRows(rs, n, c)
      BY <3>3 DEF GoodRows
    <3> QED BY <3>2, <3>3, <3>4 DEF PlacedFrom, NoRowOf
  <2>2. CASE ~startsOver(c)
    <3>1. rs = rows /\ ~gap /\ c = last_cycle + 1 /\ last_cycle = shown.cycle
      BY <1>4, <2>2 DEF RowsInv
    <3>2. last_cycle \in Nat /\ last_cycle = cycle /\ last_cycle < c
      BY <1>1, <3>1 DEF ViewsBase, NumbersInv
    <3>3. /\ GoodRows(rows, serial, last_cycle)
          /\ \A k \in 1 .. 4 : Drawn(k) => Tracked(rows, k, Address(k), in_flight[k])
      BY <3>1, <3>2 DEF RowsInv
    <3>4. rows \in Seq(DiagramRows)
      BY <3>3 DEF GoodRows
    <3>5. /\ \A i \in 1 .. Len(rows) :
               /\ lastStage(rows[i]) \in Stages /\ lastCycle(rows[i]) \in 0 .. last_cycle
               /\ \E m \in 1 .. serial : RowWho(rows[i]) = {m}
          /\ \A i, j \in 1 .. Len(rows) : i # j => RowWho(rows[i]) # RowWho(rows[j])
      BY <3>3, Zenon DEF GoodRows
    <3>6. GoodRows(rows, n, c)
      <4>1. \A i \in 1 .. Len(rows) : lastCycle(rows[i]) \in 0 .. c
        BY <1>1, <3>2, <3>5
      <4>2. ASSUME NEW i \in 1 .. Len(rows) PROVE \E m \in 1 .. n : RowWho(rows[i]) = {m}
        <5>1. PICK m \in 1 .. serial : RowWho(rows[i]) = {m}
          BY <3>5
        <5>2. m \in 1 .. n
          BY <1>1, <1>2
        <5> QED BY <5>1, <5>2
      <4> HIDE DEF n, c
      <4> QED BY <3>4, <3>5, <4>1, <4>2, Zenon DEF GoodRows
    <3>7. \A i \in 1 .. Len(rows) : lastCycle(rows[i]) # c
      BY <1>1, <3>2, <3>5
    <3>8. 1 \in L => NoRowOf(rows, vs[1].who)
      <4>1. SUFFICES ASSUME 1 \in L, NEW i \in 1 .. Len(rows)
                     PROVE  RowWho(rows[i]) # {vs[1].who}
        BY Zenon DEF NoRowOf
      <4>2. present(Views[1])
        BY <4>1
      <4>3. vs[1].who = serial + 1
        <5>1. if_id'.valid /\ ~Stall /\ vs[1].who = in_flight'[1]
          BY <4>2, ViewsOfStep DEF ViewsBase
        <5> QED BY <5>1, NumbersOfStep DEF ViewsBase
      <4>4. PICK m \in 1 .. serial : RowWho(rows[i]) = {m}
        BY <3>5
      <4>5. m # serial + 1
        BY <1>1
      <4> HIDE DEF vs
      <4> QED BY <4>3, <4>4, <4>5
    <3>9. ASSUME NEW t \in L, 1 < t PROVE Tracked(rows, t - 1, vs[t].pc, vs[t].who)
      <4>1. t \in 2 .. 5 /\ t - 1 \in 1 .. 4 /\ Drawn(t - 1)
        BY <3>9 DEF Stages
      <4>2. vs[t].pc = Address(t - 1) /\ vs[t].who = in_flight[t - 1]
        BY <4>1, ViewsOfStep DEF ViewsBase
      <4> HIDE DEF vs
      <4> QED BY <3>3, <4>1, <4>2
    <3> HIDE DEF rs, L, vs, c, n
    <3> QED BY <3>1, <3>6, <3>7, <3>8, <3>9 DEF PlacedFrom
  <2> QED BY <2>1, <2>2
<1>8. L = {s \in Stages : IF s = 1 THEN present(Views[1]) ELSE Drawn(s - 1)}
  OBVIOUS
<1> HIDE DEF rs, L, vs, c, n, first
<1>9. Shows(new, vs, L, n, c)
  BY <1>1, <1>2, <1>5, <1>6, <1>7, RowsShown
<1> HIDE DEF new
<1>10. ASSUME NEW k \in 1 .. 4, Drawn(k)'
       PROVE  Tracked(new, k, Address(k)', in_flight'[k])
  <2>1. CASE present(Views[k]) /\ Address(k)' = Views[k].pc /\ in_flight'[k] = Views[k].who
    <3>1. k \in Stages /\ present(vs[k])
      BY <2>1 DEF Stages, vs
    <3>2. Tracked(new, k, vs[k].pc, vs[k].who)
      BY <1>9, <3>1 DEF Shows
    <3> QED BY <2>1, <3>2 DEF vs
  <2>2. CASE /\ k = 1 /\ Drawn(1) /\ ~present(Views[1]) /\ ~present(Views[2])
             /\ Address(1)' = Views[2].pc /\ in_flight'[1] = Views[2].who
    <3>1. 2 \in L
      <4>1. 2 \in Stages /\ 2 # 1 /\ 2 - 1 = 1
        BY DEF Stages
      <4> QED BY <1>8, <2>2, <4>1
    <3>2. Tracked(new, 1, vs[2].pc, vs[2].who)
      BY <1>9, <2>2, <3>1 DEF Shows, vs
    <3> QED BY <2>2, <3>2 DEF vs
  <2> QED BY <1>10, <2>1, <2>2, DrawnByStep
<1> QED BY <1>4, <1>9, <1>10 DEF Shows

LEMMA ViewsKeepRows ==
  ASSUME ViewsBase, RowsInv, [ViewsNext]_allVars
  PROVE  RowsInv'
<1>1. CASE Cycle /\ Show
  BY <1>1, ShowKeepsRows DEF Cycle
<1>2. CASE Cycle /\ Throttle
  <2>1. /\ UNCHANGED <<rows, last_cycle, shown, gap>> /\ Step /\ Number /\ cycle' = cycle + 1
        /\ serial \in Nat /\ serial' \in {serial, serial + 1}
        /\ cycle \in Nat /\ last_cycle \in 0 .. cycle
    BY <1>2, NumbersOfStep DEF Cycle, Throttle, viewVars, ViewsBase, NumbersInv, RowsInv
  <2>2. last_cycle' # cycle'
    BY <2>1
  <2>3. GoodRows(rows, serial, last_cycle) => GoodRows(rows', serial', last_cycle')
    <3>1. \A m \in 1 .. serial : m \in 1 .. serial'
      BY <2>1
    <3> QED BY <2>1, <3>1 DEF GoodRows
  <2> QED BY <2>1, <2>2, <2>3 DEF RowsInv
<1>3. CASE OnReset
  <2>1. /\ rows' = <<>> /\ last_cycle' = 0 /\ shown' = NothingShown
        /\ in_flight' = [i \in 1 .. 4 |-> NoWho]
    BY <1>3 DEF OnReset, traceClear
  <2>2. shown'.cycle = 0 /\ \A s \in Stages : ~present(shown'.stages[s])
    BY <2>1 DEF NothingShown, NoView, present
  <2>3. \A k \in 1 .. 4 : ~Drawn(k)'
    <3>1. ~if_id'.valid /\ ~id_ex'.valid /\ ~ex_mem'.valid /\ ~mem_wb'.valid
      BY <1>3 DEF OnReset, Reset, IfIdBubble, IdExBubble, ExMemBubble, MemWbBubble
    <3> QED BY <3>1 DEF Drawn, Held
  <2>4. GoodRows(rows', serial', last_cycle')
    BY <2>1 DEF GoodRows
  <2> QED BY <2>1, <2>2, <2>3, <2>4 DEF RowsInv
<1>4. CASE OnLoad \/ ClearEvents \/ UNCHANGED allVars
  <2>1. /\ UNCHANGED <<cycle, serial, in_flight, shown, rows, last_cycle, gap>>
        /\ UNCHANGED <<if_id, id_ex, ex_mem, mem_wb>>
    BY <1>4 DEF OnLoad, LoadProgram, ClearEvents, vars, allVars
  <2>2. \A k \in 1 .. 4 : Drawn(k)' = Drawn(k) /\ Address(k)' = Address(k)
    BY <2>1 DEF Held, Address, Drawn
  <2> QED BY <2>1, <2>2 DEF RowsInv
<1> QED BY <1>1, <1>2, <1>3, <1>4 DEF ViewsNext, Cycle

(* The instruction x cycle diagram of the Widgets window: every row is one *)
(* execution of one instruction, none has two rows, and each instruction   *)
(* in a stage has its cell; for a diagram of any width, in loops of any    *)
(* length, and whichever cycles were throttled outside the window.         *)
THEOREM DiagramFollowsExecutions == ViewsSpec => []RowsAreExecutions
<1>1. ViewsInit => RowsInv
  <2>1. SUFFICES ASSUME ViewsInit PROVE RowsInv
    OBVIOUS
  <2>2. rows = <<>> /\ last_cycle = 0 /\ shown = NothingShown
    BY <2>1 DEF ViewsInit
  <2>3. shown.cycle = 0 /\ \A s \in Stages : ~present(shown.stages[s])
    BY <2>2 DEF NothingShown, NoView, present
  <2>4. \A k \in 1 .. 4 : ~Drawn(k)
    BY <2>1, ViewsInitCpu DEF Drawn, Held, Empty
  <2>5. GoodRows(rows, serial, last_cycle)
    BY <2>2 DEF GoodRows
  <2> QED BY <2>2, <2>3, <2>4, <2>5 DEF RowsInv
<1>2. ViewsBase /\ RowsInv /\ [ViewsNext]_allVars => RowsInv'
  BY ViewsKeepRows
<1>3. RowsInv => RowsAreExecutions
  BY DEF RowsInv, RowsAreExecutions, GoodRows
<1> QED BY <1>1, <1>2, <1>3, ViewsBaseHolds, PTL DEF ViewsSpec

=============================================================================
