--------------------------- MODULE MipsIsaProofs ---------------------------
(***************************************************************************)
(* Lemmas about the units of MipsIsa and the instructions of MipsExec:     *)
(* each unit, given values of the machine's widths, returns a value of the *)
(* machine's widths, and what each instruction leaves of the four parts of *)
(* the architectural state.  They hold for every word width that satisfies *)
(* SizeAssumption, the 32 bits of the code among them.                     *)
(***************************************************************************)
EXTENDS MipsExec, TLAPS

-----------------------------------------------------------------------------
(* Widths *)

(* A word is four bytes, an immediate fits a word, sixteen regions cover   *)
(* the address space.                                                      *)
LEMMA WidthFacts ==
  /\ ByteSize \in Nat /\ ByteSize >= 1
  /\ HalfSize \in Nat /\ HalfSize >= 1
  /\ WordSize \in Nat /\ WordSize >= 128 /\ WordSize % 128 = 0
  /\ HalfSize <= WordSize
  /\ Region \in Nat /\ WordSize = 16 * Region
<1>1. ByteSize \in Nat /\ ByteSize >= 1
  BY SizeAssumption
<1>2. HalfSize \in Nat /\ HalfSize >= 1
  BY <1>1 DEF HalfSize
<1>3. WordSize \in Nat /\ WordSize >= 1 /\ HalfSize <= WordSize
  BY <1>2 DEF WordSize
<1>4. WordSize % 128 = 0
  BY SizeAssumption
<1>5. WordSize >= 128
  BY <1>3, <1>4
<1>6. Region \in Nat /\ WordSize = 16 * Region
  BY <1>3, <1>4 DEF Region
<1> QED BY <1>1, <1>2, <1>3, <1>4, <1>5, <1>6

(* uint32_t arithmetic wraps into a word. *)
LEMMA WrapsToWord ==
  ASSUME NEW x \in Int
  PROVE  x % WordSize \in Word
BY WidthFacts DEF Word

LEMMA ZeroIsWord == 0 \in Word /\ 1 \in Word /\ 0 \in Byte
BY WidthFacts DEF Word, Byte

-----------------------------------------------------------------------------
(* Memory *)

LEMMA ByteOfType ==
  ASSUME NEW v \in Word, NEW k
  PROVE  byte_of(v, k) \in Byte
<1>1. v \in Nat
  BY WidthFacts DEF Word
<1>2. \A n \in Nat : n % ByteSize \in Byte
  BY WidthFacts DEF Byte
<1>3. HalfSize * ByteSize \in Nat /\ HalfSize * ByteSize >= 1
  BY WidthFacts
<1>4. \A n \in Nat : n >= 1 => v \div n \in Nat
  BY <1>1
<1>5. /\ v \div ByteSize \in Nat /\ v \div HalfSize \in Nat
      /\ v \div (HalfSize * ByteSize) \in Nat
  BY <1>3, <1>4, WidthFacts
<1> QED BY <1>1, <1>2, <1>5 DEF byte_of

LEMMA ReadHalfType ==
  ASSUME NEW m \in Memory, NEW addr \in Word, in_bounds(addr, 2)
  PROVE  read_half(m, addr) \in Imm
<1>1. m[addr] \in 0 .. ByteSize - 1 /\ m[addr + 1] \in 0 .. ByteSize - 1
  BY SizeAssumption, WidthFacts DEF Memory, Byte, Word, in_bounds
<1> DEFINE a == m[addr]
           b == m[addr + 1]
<1>2. ByteSize * b <= ByteSize * (ByteSize - 1) /\ ByteSize * b \in Nat
  BY <1>1, WidthFacts
<1>3. ByteSize * (ByteSize - 1) = HalfSize - ByteSize
  BY WidthFacts DEF HalfSize
<1> QED BY <1>1, <1>2, <1>3, WidthFacts DEF read_half, Imm

(* Two halves make a word. *)
LEMMA HalvesMakeWord ==
  ASSUME NEW a \in Imm, NEW b \in Imm
  PROVE  a + HalfSize * b \in Word
<1>1. HalfSize * b <= HalfSize * (HalfSize - 1) /\ HalfSize * b \in Nat
  BY WidthFacts DEF Imm
<1>2. HalfSize * (HalfSize - 1) = WordSize - HalfSize
  BY WidthFacts DEF WordSize
<1> QED BY <1>1, <1>2, WidthFacts DEF Word, Imm

LEMMA ReadWordType ==
  ASSUME NEW m \in Memory, NEW addr \in Word, word_ok(addr)
  PROVE  read_word(m, addr) \in Word
<1>1. in_bounds(addr, 2) /\ addr + 2 \in Nat /\ in_bounds(addr + 2, 2)
  BY SizeAssumption, WidthFacts DEF word_ok, in_bounds, Word
<1>2. read_half(m, addr) \in Imm
  BY <1>1, ReadHalfType
<1>3. m[addr + 2] \in 0 .. ByteSize - 1 /\ m[(addr + 2) + 1] \in 0 .. ByteSize - 1
  BY <1>1, SizeAssumption, WidthFacts DEF Memory, Byte, Word, in_bounds
<1>4. read_half(m, addr + 2) \in Imm
  <2> DEFINE b == m[(addr + 2) + 1]
  <2>1. ByteSize * b <= ByteSize * (ByteSize - 1) /\ ByteSize * b \in Nat
    BY <1>3, WidthFacts
  <2>2. ByteSize * (ByteSize - 1) = HalfSize - ByteSize
    BY WidthFacts DEF HalfSize
  <2> QED BY <1>3, <2>1, <2>2, WidthFacts DEF read_half, Imm
<1> QED BY <1>2, <1>4, HalvesMakeWord DEF read_word

LEMMA WriteWordType ==
  ASSUME NEW m \in Memory, NEW addr, NEW v \in Word
  PROVE  write_word(m, addr, v) \in Memory
BY ByteOfType DEF write_word, Memory

LEMMA LoadWordsType ==
  ASSUME NEW m \in Memory, NEW addr \in Word, NEW words \in Seq(Word)
  PROVE  load_words(m, addr, words) \in Memory
<1>1. ASSUME NEW i \in 0 .. MemBytes - 1, i \in addr .. addr + 4 * Len(words) - 1
      PROVE  byte_of(words[(i - addr) \div 4 + 1], (i - addr) % 4) \in Byte
  <2>1. Len(words) \in Nat /\ addr \in Nat /\ i \in Nat
    BY WidthFacts, SizeAssumption DEF Word
  <2>2. (i - addr) \div 4 + 1 \in 1 .. Len(words)
    BY <1>1, <2>1
  <2>3. words[(i - addr) \div 4 + 1] \in Word
    BY <2>2
  <2> QED BY <2>3, ByteOfType
<1> QED BY <1>1 DEF load_words, Memory

LEMMA ZeroMemoryType == ZeroMemory \in Memory
BY ZeroIsWord DEF ZeroMemory, Memory

(* A load that is in bounds and aligned returns a word. *)
LEMMA LoadDataType ==
  ASSUME NEW m \in Memory, NEW op, NEW addr \in Word, load_ok(op, addr)
  PROVE  load_data(m, op, addr) \in Word
<1>1. CASE op = "LW"
  BY <1>1, ReadWordType DEF load_ok, load_data
<1>2. CASE op = "LHU"
  <2>1. read_half(m, addr) \in Imm
    BY <1>2, ReadHalfType DEF load_ok
  <2> QED BY <1>2, <2>1, WidthFacts DEF load_data, Imm, Word
<1>3. CASE op = "LBU"
  <2>1. m[addr] \in Byte
    BY <1>3, SizeAssumption, WidthFacts DEF load_ok, in_bounds, Memory, Word
  <2>2. ByteSize <= HalfSize
    BY WidthFacts DEF HalfSize
  <2> QED BY <1>3, <2>1, <2>2, WidthFacts DEF load_data, Byte, Word
<1> QED BY <1>1, <1>2, <1>3 DEF load_ok

-----------------------------------------------------------------------------
(* Register file *)

LEMMA RegReadType ==
  ASSUME NEW r \in RegisterFile, NEW i \in RegIdx
  PROVE  reg_read(r, i) \in Word
BY ZeroIsWord DEF reg_read, RegisterFile

LEMMA RegWriteType ==
  ASSUME NEW r \in RegisterFile, NEW i \in RegIdx, NEW v \in Word
  PROVE  reg_write(r, i, v) \in RegisterFile
BY DEF reg_write, RegisterFile

-----------------------------------------------------------------------------
(* Decoder and control unit *)

LEMMA FieldsType ==
  ASSUME NEW w \in Word
  PROVE  Fields[w] \in FieldSet
BY FieldsAssumption

LEMMA NoInstrType == NoInstr \in DecodedInstr
<1>1. 0 \in Word /\ 0 \in Imm /\ 0 \in 0 .. WordBits - 1 /\ 0 \in RegIdx
  BY WidthFacts, SizeAssumption DEF Word, Imm, RegIdx
<1>2. 0 \in Targets
  <2>1. Region >= 8
    BY WidthFacts
  <2> QED BY <2>1, WidthFacts DEF Targets
<1> QED BY <1>1, <1>2 DEF NoInstr, DecodedInstr, Opcode

LEMMA FormatType ==
  ASSUME NEW op
  PROVE  /\ format_of(op) \in {"R", "I", "J", "Unknown"}
         /\ format_of(op) # "Unknown" => op \in Opcode
BY DEF format_of, Opcode, IOpcodes

LEMMA DecodeType ==
  ASSUME NEW w \in Word, decodes(w)
  PROVE  decode(w) \in DecodedInstr
<1> DEFINE f == Fields[w]
           d == [NoInstr EXCEPT !.raw = w, !.opcode = f.opcode,
                                !.format = format_of(f.opcode)]
<1>1. f \in FieldSet
  BY FieldsType
<1>2. f.opcode \in Opcode /\ format_of(f.opcode) \in {"R", "I", "J"}
  <2>1. format_of(f.opcode) # "Unknown"
    BY DEF decodes, format_of
  <2> QED BY <2>1, FormatType
<1>3. d \in DecodedInstr /\ d.format = format_of(f.opcode)
  BY <1>2, NoInstrType DEF NoInstr, DecodedInstr
<1>4. 0 \in 0 .. WordBits - 1
  BY SizeAssumption, WidthFacts
<1>5. CASE d.format = "R"
  <2>1. decode(w) = [d EXCEPT !.rs = f.rs, !.rt = f.rt, !.rd = f.rd, !.funct = f.funct,
                              !.shamt = IF f.opcode = "COP0" THEN 0 ELSE f.shamt]
    BY <1>5 DEF decode, decode_fields
  <2> QED BY <1>1, <1>3, <1>4, <2>1 DEF DecodedInstr, FieldSet
<1>6. CASE d.format = "I"
  <2>1. decode(w) = [d EXCEPT !.rs = f.rs, !.rt = f.rt, !.imm = f.imm]
    BY <1>6 DEF decode, decode_fields
  <2> QED BY <1>1, <1>3, <2>1 DEF DecodedInstr, FieldSet
<1>7. CASE d.format = "J"
  <2>1. decode(w) = [d EXCEPT !.target = f.target]
    BY <1>7 DEF decode, decode_fields
  <2> QED BY <1>1, <1>3, <2>1 DEF DecodedInstr, FieldSet
<1> QED BY <1>2, <1>3, <1>5, <1>6, <1>7

LEMMA ControlBubbleType == NoControl \in Control
BY DEF NoControl, Control

LEMMA ControlType ==
  ASSUME NEW d
  PROVE  derive_control(d) \in Control
<1>1. NoControl \in Control
  BY DEF NoControl, Control
<1>2. r_type_control(d) \in Control
  BY DEF r_type_control, NoControl, Control
<1>3. i_type_control(d.opcode) \in Control
  <2> DEFINE op  == d.opcode
             rw  == op \notin {"SW", "BEQ", "BNE"}
             mr  == op \in Loads
             mw  == op = "SW"
             br  == op \in {"BEQ", "BNE"}
             src == op \notin {"BEQ", "BNE"}
             e   == IF op \in {"ANDI", "ORI", "XORI", "LUI"} THEN "Zero" ELSE "Sign"
  <2>1. /\ rw \in BOOLEAN /\ mr \in BOOLEAN /\ mw \in BOOLEAN
        /\ br \in BOOLEAN /\ src \in BOOLEAN /\ e \in {"Sign", "Zero"}
    OBVIOUS
  <2>2. i_type_control(op) =
          [NoControl EXCEPT !.reg_write = rw, !.mem_read = mr, !.mem_to_reg = mr,
                            !.mem_write = mw, !.branch = br, !.alu_src = src, !.ext = e]
    BY DEF i_type_control
  <2> HIDE DEF rw, mr, mw, br, src, e
  <2>3. [NoControl EXCEPT !.reg_write = rw, !.mem_read = mr, !.mem_to_reg = mr,
                          !.mem_write = mw, !.branch = br, !.alu_src = src, !.ext = e]
          \in Control
    BY <2>1 DEF NoControl, Control
  <2> QED BY <2>2, <2>3
<1>4. [NoControl EXCEPT !.jump = TRUE, !.reg_write = d.opcode = "JAL"] \in Control
  BY DEF NoControl, Control
<1> QED BY <1>1, <1>2, <1>3, <1>4 DEF derive_control

LEMMA SignExtendType ==
  ASSUME NEW imm \in Imm
  PROVE  sign_extend(imm) \in Word
BY WidthFacts DEF sign_extend, Imm, Word

LEMMA ExtendedImmType ==
  ASSUME NEW d \in DecodedInstr, NEW ctrl
  PROVE  extended_imm(d, ctrl) \in Word
<1>1. d.imm \in Imm
  BY DEF DecodedInstr
<1>2. d.imm \in Word
  BY <1>1, WidthFacts DEF Imm, Word
<1> QED BY <1>1, <1>2, SignExtendType DEF extended_imm

(* A jump stays in the region of the instruction behind it. *)
LEMMA JumpTargetType ==
  ASSUME NEW pc4 \in Word, NEW d, d.target \in Targets
  PROVE  jump_target(pc4, d) \in Word
<1> DEFINE q == pc4 \div Region
<1>1. Region \in Nat /\ Region >= 8 /\ WordSize = 16 * Region /\ pc4 \in Nat /\ pc4 < WordSize
  BY WidthFacts DEF Word
<1>2. q \in Nat /\ pc4 = Region * q + (pc4 % Region) /\ pc4 % Region >= 0
  BY <1>1
<1>3. q <= 15
  BY <1>1, <1>2
<1>4. Region * q <= Region * 15 /\ Region * q \in Nat
  BY <1>1, <1>2, <1>3
<1>5. 4 * d.target \in Nat /\ 4 * d.target < Region
  BY <1>1 DEF Targets
<1> HIDE DEF q
<1> QED BY <1>1, <1>2, <1>4, <1>5 DEF jump_target, Word

LEMMA BranchTargetType ==
  ASSUME NEW pc4 \in Word, NEW d \in DecodedInstr
  PROVE  branch_target(pc4, d) \in Word
<1>1. d.imm \in Imm
  BY DEF DecodedInstr
<1>2. pc4 + 4 * sign_extend(d.imm) \in Int
  BY <1>1, SignExtendType, WidthFacts DEF Word
<1> QED BY <1>2, WrapsToWord DEF branch_target

-----------------------------------------------------------------------------
(* ALU *)

LEMMA BitOrType ==
  ASSUME NEW a \in Word, NEW b \in Word
  PROVE  /\ bit_or(a, b) \in Word
         /\ bit_or(a, b) - BitAnd(a, b) \in Word
         /\ WordSize - 1 - bit_or(a, b) \in Word
<1>1. /\ BitAnd(a, b) \in Word /\ BitAnd(a, b) <= a /\ BitAnd(a, b) <= b
      /\ a + b - BitAnd(a, b) < WordSize
  BY BitAndAssumption
<1> QED BY <1>1, WidthFacts DEF bit_or, Word

LEMMA AluValueType ==
  ASSUME NEW op, NEW a \in Word, NEW b \in Word, NEW shamt \in Nat
  PROVE  alu_value(op, a, b, shamt) \in Word
<1> DEFINE s == shamt % WordBits
<1>1. s \in 0 .. WordBits - 1
  BY SizeAssumption, WidthFacts
<1>2. a \in Int /\ b \in Int /\ b * HalfSize \in Int
  BY WidthFacts DEF Word
<1>3. (a + b) % WordSize \in Word /\ (a - b) % WordSize \in Word
  BY <1>2, WrapsToWord
<1>4. (b * HalfSize) % WordSize \in Word
  BY <1>2, WrapsToWord
<1>5. BitAnd(a, b) \in Word
  BY BitAndAssumption
<1>6. Shl(b, s) \in Word /\ Shr(b, s) \in Word
  BY <1>1, ShiftAssumption
<1>7. WordSize - 1 - Shr(WordSize - 1 - b, s) \in Word
  <2>1. WordSize - 1 - b \in Word
    BY WidthFacts DEF Word
  <2>2. Shr(WordSize - 1 - b, s) \in Word
    BY <1>1, <2>1, ShiftAssumption
  <2> QED BY <2>2, WidthFacts DEF Word
<1> HIDE DEF s
<1> QED
  BY <1>3, <1>4, <1>5, <1>6, <1>7, BitOrType, ZeroIsWord DEF alu_value, s

LEMMA ShiftAmountType ==
  ASSUME NEW d \in DecodedInstr, NEW a \in Word
  PROVE  shift_amount(d, a) \in Nat
<1>1. d.shamt \in Nat
  BY SizeAssumption, WidthFacts DEF DecodedInstr
<1>2. a % WordBits \in Nat
  BY SizeAssumption, WidthFacts DEF Word
<1> QED BY <1>1, <1>2 DEF shift_amount

-----------------------------------------------------------------------------
(* Coprocessor 0 *)

LEMMA PowerOnCp0Type == PowerOnCp0 \in Cp0
BY ZeroIsWord DEF PowerOnCp0, Cp0, ExceptionCode

LEMMA Cp0ResetType ==
  ASSUME NEW c \in Cp0
  PROVE  cp0_reset(c) \in Cp0
BY ZeroIsWord DEF cp0_reset, PowerOnCp0, Cp0

(* Setting EXL and replacing ExcCode keep Status and Cause within a word.  *)
LEMMA Cp0RaiseType ==
  ASSUME NEW c \in Cp0, NEW code \in ExceptionCode, NEW faulting_pc \in Word,
         NEW bad_addr \in Word
  PROVE  cp0_raise(c, code, faulting_pc, bad_addr) \in Cp0
<1>1. c.status \in Word /\ c.cause \in Word /\ c.epc \in Word
  BY DEF Cp0
<1>2. set_exl(c) \in Word
  BY <1>1, WidthFacts DEF set_exl, in_exception, Word
<1>3. c.cause - 4 * ((c.cause \div 4) % 32) + 4 * code \in Word
  <2> DEFINE x == c.cause
  <2>1. x \in Nat /\ x < WordSize
    BY <1>1, WidthFacts DEF Word
  <2>2. x - 4 * ((x \div 4) % 32) = 128 * (x \div 128) + (x % 4)
    <3>1. \A n \in Nat : n = 4 * (n \div 4) + (n % 4) /\ n \div 4 \in Nat
      OBVIOUS
    <3>2. \A n \in Nat : n = 32 * (n \div 32) + (n % 32) /\ n % 32 \in Nat
      OBVIOUS
    <3>3. (x \div 4) \div 32 = x \div 128
      BY <2>1
    <3> QED BY <2>1, <3>1, <3>2, <3>3
  <2>3. 128 * (x \div 128) <= WordSize - 128 /\ x \div 128 \in Nat
    BY <2>1, WidthFacts
  <2>4. x % 4 \in 0 .. 3 /\ code \in 4 .. 12
    BY <2>1 DEF ExceptionCode, AdEL, AdES, Sys, Bp, RI, Ov
  <2> HIDE DEF x
  <2>5. 128 * (x \div 128) + (x % 4) + 4 * code \in Word
    BY <2>3, <2>4, WidthFacts DEF Word
  <2> QED BY <2>2, <2>5 DEF x
<1> QED BY <1>1, <1>2, <1>3 DEF cp0_raise, Cp0

LEMMA Cp0EretType ==
  ASSUME NEW c \in Cp0
  PROVE  cp0_eret(c) \in Cp0
<1>1. c.status \in Word
  BY DEF Cp0
<1>2. in_exception(c) => c.status - 2 \in Word
  BY <1>1, WidthFacts DEF in_exception, Word
<1> QED BY <1>1, <1>2 DEF cp0_eret, Cp0

LEMMA Cp0ReadType ==
  ASSUME NEW c \in Cp0, NEW reg
  PROVE  cp0_read(c, reg) \in Word
BY ZeroIsWord DEF cp0_read, Cp0

LEMMA Cp0WriteType ==
  ASSUME NEW c \in Cp0, NEW reg, NEW v \in Word
  PROVE  cp0_write(c, reg, v) \in Cp0
BY DEF cp0_write, Cp0

-----------------------------------------------------------------------------
(* Instructions *)

Outcome == [arch : ArchState, result : StepResult]

(* The outcome o: its result and the four parts of its state. *)
Reaches(o, result, p, r, m, c) ==
  /\ o \in Outcome
  /\ o.result = result
  /\ o.arch.pc = p /\ o.arch.regs = r /\ o.arch.mem = m /\ o.arch.cp0 = c

LEMMA ReachesOutcome ==
  ASSUME NEW o, NEW result, NEW p, NEW r, NEW m, NEW c, Reaches(o, result, p, r, m, c)
  PROVE  o \in Outcome /\ o.result = result
BY DEF Reaches

(* Two architectural states are the same when their four parts are. *)
LEMMA ArchExtensional ==
  ASSUME NEW a \in ArchState, NEW b \in ArchState,
         a.pc = b.pc, a.regs = b.regs, a.mem = b.mem, a.cp0 = b.cp0
  PROVE  a = b
BY DEF ArchState

LEMMA ArchParts ==
  ASSUME NEW a \in ArchState
  PROVE  a.pc \in Word /\ a.regs \in RegisterFile /\ a.mem \in Memory /\ a.cp0 \in Cp0
BY DEF ArchState

LEMMA SuccType ==
  ASSUME NEW p \in Word
  PROVE  Succ(p) \in Word
BY WrapsToWord, WidthFacts DEF Succ, Word

LEMMA CompletesType ==
  ASSUME NEW a \in ArchState
  PROVE  Reaches(Completes(a), "Ok", a.pc, a.regs, a.mem, a.cp0)
<1> HIDE DEF ArchState
<1> QED BY DEF Completes, Reaches, Outcome, StepResult

LEMMA FaultsType ==
  ASSUME NEW a \in ArchState
  PROVE  Faults(a) \in Outcome /\ Faults(a).result = "Fault"
<1> HIDE DEF ArchState
<1> QED BY DEF Faults, Outcome, StepResult

(* A completed instruction that assigns some parts of the state. *)
LEMMA CompletesPc ==
  ASSUME NEW a \in ArchState, NEW p \in Word
  PROVE  Reaches(Completes([a EXCEPT !.pc = p]), "Ok", p, a.regs, a.mem, a.cp0)
<1> DEFINE b == [a EXCEPT !.pc = p]
<1>1. b \in ArchState /\ b.pc = p /\ b.regs = a.regs /\ b.mem = a.mem /\ b.cp0 = a.cp0
  BY DEF ArchState
<1> HIDE DEF b
<1>2. Reaches(Completes(b), "Ok", p, a.regs, a.mem, a.cp0)
  BY <1>1, CompletesType
<1> QED BY <1>2 DEF b

LEMMA CompletesRegs ==
  ASSUME NEW a \in ArchState, NEW p \in Word, NEW r \in RegisterFile
  PROVE  Reaches(Completes([a EXCEPT !.pc = p, !.regs = r]), "Ok", p, r, a.mem, a.cp0)
<1> DEFINE b == [a EXCEPT !.pc = p, !.regs = r]
<1>1. b \in ArchState /\ b.pc = p /\ b.regs = r /\ b.mem = a.mem /\ b.cp0 = a.cp0
  BY DEF ArchState
<1> HIDE DEF b
<1>2. Reaches(Completes(b), "Ok", p, r, a.mem, a.cp0)
  BY <1>1, CompletesType
<1> QED BY <1>2 DEF b

LEMMA CompletesMem ==
  ASSUME NEW a \in ArchState, NEW p \in Word, NEW m \in Memory
  PROVE  Reaches(Completes([a EXCEPT !.pc = p, !.mem = m]), "Ok", p, a.regs, m, a.cp0)
<1> DEFINE b == [a EXCEPT !.pc = p, !.mem = m]
<1>1. b \in ArchState /\ b.pc = p /\ b.regs = a.regs /\ b.mem = m /\ b.cp0 = a.cp0
  BY DEF ArchState
<1> HIDE DEF b
<1>2. Reaches(Completes(b), "Ok", p, a.regs, m, a.cp0)
  BY <1>1, CompletesType
<1> QED BY <1>2 DEF b

LEMMA RaiseReaches ==
  ASSUME NEW a \in ArchState, NEW code \in ExceptionCode, NEW bad_addr \in Word
  PROVE  Reaches(raise(a, code, bad_addr), "Exception", kExceptionVector, a.regs, a.mem,
                 cp0_raise(a.cp0, code, a.pc, bad_addr))
<1> DEFINE c == cp0_raise(a.cp0, code, a.pc, bad_addr)
           b == [a EXCEPT !.pc = kExceptionVector, !.cp0 = c]
<1>1. c \in Cp0 /\ kExceptionVector \in Word
  BY ArchParts, Cp0RaiseType, SizeAssumption
<1>2. raise(a, code, bad_addr) = [arch |-> b, result |-> "Exception"]
  BY DEF raise
<1> HIDE DEF c
<1>3. b \in ArchState /\ b.pc = kExceptionVector /\ b.regs = a.regs /\ b.mem = a.mem
      /\ b.cp0 = c
  BY <1>1 DEF ArchState
<1> HIDE DEF b
<1>4. [arch |-> b, result |-> "Exception"] \in Outcome
  <2> HIDE DEF ArchState
  <2> QED BY <1>3 DEF Outcome, StepResult
<1>5. raise(a, code, bad_addr).arch = b /\ raise(a, code, bad_addr).result = "Exception"
  BY <1>2
<1> QED BY <1>2, <1>3, <1>4, <1>5, Zenon DEF Reaches, c

(* The outcome o of an instruction that traps in state a. *)
Raised(a, o) ==
  \E code \in ExceptionCode, bad_addr \in Word :
    Reaches(o, "Exception", kExceptionVector, a.regs, a.mem,
            cp0_raise(a.cp0, code, a.pc, bad_addr))

(* What raising does to CP0. *)
LEMMA RaisedCp0 ==
  ASSUME NEW a \in ArchState, NEW o, Raised(a, o)
  PROVE  /\ o.arch \in ArchState /\ o.arch.pc = kExceptionVector
         /\ o.arch.regs = a.regs /\ o.arch.mem = a.mem
         /\ o.arch.cp0.epc = IF in_exception(a.cp0) THEN a.cp0.epc ELSE a.pc
         /\ o.arch.cp0.status = set_exl(a.cp0)
<1>1. PICK code \in ExceptionCode, bad_addr \in Word :
        Reaches(o, "Exception", kExceptionVector, a.regs, a.mem,
                cp0_raise(a.cp0, code, a.pc, bad_addr))
  BY DEF Raised
<1>2. /\ o \in Outcome /\ o.arch.pc = kExceptionVector /\ o.arch.regs = a.regs
      /\ o.arch.mem = a.mem /\ o.arch.cp0 = cp0_raise(a.cp0, code, a.pc, bad_addr)
  BY <1>1 DEF Reaches
<1>3. o.arch \in ArchState
  <2> HIDE DEF ArchState
  <2> QED BY <1>2 DEF Outcome
<1> QED BY <1>2, <1>3 DEF cp0_raise

LEMMA RaisedBy ==
  ASSUME NEW a \in ArchState, NEW o, NEW bad_addr \in Word,
         NEW code \in {AdEL, AdES, Sys, Bp, RI, Ov},
         Reaches(o, "Exception", kExceptionVector, a.regs, a.mem,
                 cp0_raise(a.cp0, code, a.pc, bad_addr))
  PROVE  Raised(a, o) /\ o \in Outcome /\ o.result = "Exception"
BY ReachesOutcome DEF Raised, ExceptionCode

LEMMA RaiseRaises ==
  ASSUME NEW a \in ArchState, NEW code \in {AdEL, AdES, Sys, Bp, RI, Ov},
         NEW bad_addr \in Word
  PROVE  LET o == raise(a, code, bad_addr)
         IN  Raised(a, o) /\ o \in Outcome /\ o.result = "Exception"
BY RaiseReaches, RaisedBy DEF ExceptionCode

(* What the decoder makes of a word it accepts. *)
LEMMA DecodedParts ==
  ASSUME NEW w \in Word, decodes(w)
  PROVE  LET d == decode(w) IN
         /\ d \in DecodedInstr
         /\ d.raw = w /\ d.opcode = Fields[w].opcode
         /\ d.format = format_of(d.opcode) /\ d.format \in {"R", "I", "J"}
         /\ d.format = "R" => /\ d.opcode \in {"SPECIAL", "COP0"}
                              /\ d.opcode = "SPECIAL" => d.funct \in SpecialFuncts
         /\ d.format = "I" => d.opcode \in IOpcodes /\ d.funct = "none" /\ d.shamt = 0
         /\ d.format = "J" => d.opcode \in {"J", "JAL"} /\ d.target = Fields[w].target
<1> DEFINE f == Fields[w]
           e == [NoInstr EXCEPT !.raw = w, !.opcode = f.opcode,
                                !.format = format_of(f.opcode)]
<1>1. f \in FieldSet
  BY FieldsType
<1>2. /\ f.opcode \in Opcode /\ format_of(f.opcode) \in {"R", "I", "J"}
      /\ f.opcode = "SPECIAL" => f.funct \in SpecialFuncts
  <2>1. format_of(f.opcode) # "Unknown" /\ (f.opcode = "SPECIAL" => f.funct \in SpecialFuncts)
    BY DEF decodes, format_of
  <2> QED BY <2>1, FormatType
<1>3. /\ e \in DecodedInstr /\ e.format = format_of(f.opcode) /\ e.opcode = f.opcode
      /\ e.raw = w /\ e.funct = "none" /\ e.shamt = 0
  BY <1>2, NoInstrType DEF NoInstr, DecodedInstr
<1>4. /\ format_of(f.opcode) = "R" => f.opcode \in {"SPECIAL", "COP0"}
      /\ format_of(f.opcode) = "I" => f.opcode \in IOpcodes
      /\ format_of(f.opcode) = "J" => f.opcode \in {"J", "JAL"}
  BY DEF format_of
<1>5. decode(w) \in DecodedInstr
  BY DecodeType
<1>6. CASE e.format = "R"
  <2>1. decode(w) = [e EXCEPT !.rs = f.rs, !.rt = f.rt, !.rd = f.rd, !.funct = f.funct,
                              !.shamt = IF f.opcode = "COP0" THEN 0 ELSE f.shamt]
    BY <1>6 DEF decode, decode_fields
  <2> HIDE DEF e, f
  <2>2. /\ decode(w).raw = w /\ decode(w).opcode = f.opcode
        /\ decode(w).format = format_of(f.opcode) /\ decode(w).funct = f.funct
    BY <1>3, <2>1 DEF DecodedInstr
  <2> QED BY <1>2, <1>3, <1>4, <1>5, <1>6, <2>2 DEF f
<1>7. CASE e.format = "I"
  <2>1. decode(w) = [e EXCEPT !.rs = f.rs, !.rt = f.rt, !.imm = f.imm]
    BY <1>7 DEF decode, decode_fields
  <2> HIDE DEF e, f
  <2>2. /\ decode(w).raw = w /\ decode(w).opcode = f.opcode
        /\ decode(w).format = format_of(f.opcode) /\ decode(w).funct = "none"
        /\ decode(w).shamt = 0
    BY <1>3, <2>1 DEF DecodedInstr
  <2> QED BY <1>2, <1>3, <1>4, <1>5, <1>7, <2>2 DEF f
<1>8. CASE e.format = "J"
  <2>1. decode(w) = [e EXCEPT !.target = f.target]
    BY <1>8 DEF decode, decode_fields
  <2> HIDE DEF e, f
  <2>2. /\ decode(w).raw = w /\ decode(w).opcode = f.opcode
        /\ decode(w).format = format_of(f.opcode) /\ decode(w).target = f.target
    BY <1>3, <2>1 DEF DecodedInstr
  <2> QED BY <1>2, <1>3, <1>4, <1>5, <1>8, <2>2 DEF f
<1> QED BY <1>2, <1>3, <1>6, <1>7, <1>8

LEMMA JtypeReaches ==
  ASSUME NEW a \in ArchState, NEW d \in DecodedInstr
  PROVE  Reaches(exec_jtype(a, d), "Ok", jump_target(Succ(a.pc), d),
                 IF d.opcode = "JAL" THEN reg_write(a.regs, kRa, Succ(a.pc)) ELSE a.regs,
                 a.mem, a.cp0)
<1> DEFINE p == jump_target(Succ(a.pc), d)
           r == IF d.opcode = "JAL" THEN reg_write(a.regs, kRa, Succ(a.pc)) ELSE a.regs
<1>1. p \in Word /\ r \in RegisterFile
  <2>1. Succ(a.pc) \in Word /\ kRa \in RegIdx /\ d.target \in Targets
    BY ArchParts, SuccType DEF kRa, RegIdx, DecodedInstr
  <2> QED BY <2>1, ArchParts, JumpTargetType, RegWriteType
<1>2. exec_jtype(a, d) = Completes([a EXCEPT !.pc = p, !.regs = r])
  BY Zenon DEF exec_jtype
<1> HIDE DEF p, r
<1>3. Reaches(Completes([a EXCEPT !.pc = p, !.regs = r]), "Ok", p, r, a.mem, a.cp0)
  BY <1>1, CompletesRegs, Zenon
<1> QED BY <1>2, <1>3 DEF p, r

(* MFC0, MTC0, ERET and the sub-operations that do nothing. *)
LEMMA Cop0Reaches ==
  ASSUME NEW a \in ArchState, NEW d \in DecodedInstr
  PROVE  /\ d.rs = 0 =>
              Reaches(exec_cop0(a, d), "Ok", Succ(a.pc),
                      reg_write(a.regs, d.rt, cp0_read(a.cp0, d.rd)), a.mem, a.cp0)
         /\ d.rs = 4 =>
              Reaches(exec_cop0(a, d), "Ok", Succ(a.pc), a.regs, a.mem,
                      cp0_write(a.cp0, d.rd, reg_read(a.regs, d.rt)))
         /\ d.rs = 16 /\ d.funct = "ERET" =>
              Reaches(exec_cop0(a, d), "Ok", a.cp0.epc, a.regs, a.mem, cp0_eret(a.cp0))
         /\ d.rs \notin {0, 4} /\ ~(d.rs = 16 /\ d.funct = "ERET") =>
              Reaches(exec_cop0(a, d), "Ok", Succ(a.pc), a.regs, a.mem, a.cp0)
<1> DEFINE q == Succ(a.pc)
           n == [a EXCEPT !.pc = q]
           r == reg_write(a.regs, d.rt, cp0_read(a.cp0, d.rd))
           c == cp0_write(a.cp0, d.rd, reg_read(a.regs, d.rt))
           e == cp0_eret(a.cp0)
           p == a.cp0.epc
<1>1. /\ a.pc \in Word /\ a.regs \in RegisterFile /\ a.mem \in Memory /\ a.cp0 \in Cp0
      /\ d.rt \in RegIdx /\ d.rd \in RegIdx
  BY ArchParts DEF DecodedInstr
<1>2. q \in Word /\ r \in RegisterFile /\ c \in Cp0 /\ e \in Cp0 /\ p \in Word
  <2>1. q \in Word /\ p \in Word
    BY <1>1, SuccType DEF Cp0
  <2>2. r \in RegisterFile
    BY <1>1, Cp0ReadType, RegWriteType
  <2>3. c \in Cp0 /\ e \in Cp0
    BY <1>1, RegReadType, Cp0WriteType, Cp0EretType
  <2> QED BY <2>1, <2>2, <2>3
<1>3. /\ d.rs = 0 => exec_cop0(a, d) = Completes([n EXCEPT !.regs = r])
      /\ d.rs = 4 => exec_cop0(a, d) = Completes([n EXCEPT !.cp0 = c])
      /\ d.rs = 16 /\ d.funct = "ERET" =>
           exec_cop0(a, d) = Completes([n EXCEPT !.cp0 = e, !.pc = p])
      /\ d.rs \notin {0, 4} /\ ~(d.rs = 16 /\ d.funct = "ERET") =>
           exec_cop0(a, d) = Completes(n)
  BY DEF exec_cop0
<1> HIDE DEF q, r, c, e, p
<1>4. n \in ArchState /\ n.pc = q /\ n.regs = a.regs /\ n.mem = a.mem /\ n.cp0 = a.cp0
  BY <1>2 DEF ArchState
<1> HIDE DEF n
<1> DEFINE n1 == [n EXCEPT !.regs = r]
           n2 == [n EXCEPT !.cp0 = c]
           n3 == [n EXCEPT !.cp0 = e, !.pc = p]
<1>5. n1 \in ArchState /\ n1.pc = q /\ n1.regs = r /\ n1.mem = a.mem /\ n1.cp0 = a.cp0
  BY <1>2, <1>4 DEF ArchState
<1>6. n2 \in ArchState /\ n2.pc = q /\ n2.regs = a.regs /\ n2.mem = a.mem /\ n2.cp0 = c
  BY <1>2, <1>4 DEF ArchState
<1>7. n3 \in ArchState /\ n3.pc = p /\ n3.regs = a.regs /\ n3.mem = a.mem /\ n3.cp0 = e
  BY <1>2, <1>4 DEF ArchState
<1>8. /\ d.rs = 0 => exec_cop0(a, d) = Completes(n1)
      /\ d.rs = 4 => exec_cop0(a, d) = Completes(n2)
      /\ d.rs = 16 /\ d.funct = "ERET" => exec_cop0(a, d) = Completes(n3)
  BY <1>3
<1> HIDE DEF n1, n2, n3
<1>9. /\ Reaches(Completes(n), "Ok", q, a.regs, a.mem, a.cp0)
      /\ Reaches(Completes(n1), "Ok", q, r, a.mem, a.cp0)
      /\ Reaches(Completes(n2), "Ok", q, a.regs, a.mem, c)
      /\ Reaches(Completes(n3), "Ok", p, a.regs, a.mem, e)
  BY <1>4, <1>5, <1>6, <1>7, CompletesType
<1> QED BY <1>3, <1>8, <1>9 DEF q, r, c, e, p

LEMMA AluExecuteType ==
  ASSUME NEW op, NEW a \in Word, NEW b \in Word, NEW shamt \in Nat
  PROVE  alu_execute(op, a, b, shamt).value \in Word
BY AluValueType DEF alu_execute

(* Every SPECIAL word the decoder accepts has an ALU operation or a case   *)
(* of its own, and so has every I-format word.                             *)
LEMMA AluControlled ==
  ASSUME NEW d
  PROVE  /\ d.format = "R" /\ d.funct \in SpecialFuncts \ {"SYSCALL", "BREAK"} =>
              alu_control(d) # "none"
         /\ d.format = "I" /\ d.opcode \in IOpcodes => alu_control(d) # "none"
<1>1. \A f \in SpecialFuncts \ {"SYSCALL", "BREAK"} : r_type_op(f) # "none"
  BY DEF SpecialFuncts, r_type_op
<1>2. \A o \in IOpcodes : i_type_op(o) # "none"
  BY DEF IOpcodes, i_type_op
<1> QED BY <1>1, <1>2 DEF alu_control

(* What the ALU computes for a register instruction. *)
RtypeResult(a, d) ==
  alu_execute(alu_control(d), reg_read(a.regs, d.rs), reg_read(a.regs, d.rt),
              shift_amount(d, reg_read(a.regs, d.rs)))
RtypeOverflows(a, d) == RtypeResult(a, d).overflow /\ d.funct \in {"ADD", "SUB"}

LEMMA AluRtypeReaches ==
  ASSUME NEW a \in ArchState, NEW d \in DecodedInstr, alu_control(d) # "none"
  PROVE  /\ RtypeOverflows(a, d) =>
              Reaches(exec_alu_rtype(a, d), "Exception", kExceptionVector, a.regs, a.mem,
                      cp0_raise(a.cp0, Ov, a.pc, 0))
         /\ ~RtypeOverflows(a, d) =>
              Reaches(exec_alu_rtype(a, d), "Ok", Succ(a.pc),
                      reg_write(a.regs, d.rd, RtypeResult(a, d).value), a.mem, a.cp0)
<1> DEFINE r == reg_write(a.regs, d.rd, RtypeResult(a, d).value)
           q == Succ(a.pc)
<1>1. /\ RtypeOverflows(a, d) => exec_alu_rtype(a, d) = raise(a, Ov, 0)
      /\ ~RtypeOverflows(a, d) =>
           exec_alu_rtype(a, d) = Completes([a EXCEPT !.pc = q, !.regs = r])
  BY DEF exec_alu_rtype, RtypeOverflows, RtypeResult
<1>2. r \in RegisterFile /\ q \in Word
  <2>1. d.rd \in RegIdx /\ d.rs \in RegIdx /\ d.rt \in RegIdx
    BY DEF DecodedInstr
  <2>2. reg_read(a.regs, d.rs) \in Word /\ reg_read(a.regs, d.rt) \in Word
    BY <2>1, ArchParts, RegReadType
  <2>3. RtypeResult(a, d).value \in Word
    BY <2>2, ShiftAmountType, AluExecuteType DEF RtypeResult
  <2> QED BY <2>1, <2>3, ArchParts, SuccType, RegWriteType
<1>3. Reaches(raise(a, Ov, 0), "Exception", kExceptionVector, a.regs, a.mem,
              cp0_raise(a.cp0, Ov, a.pc, 0))
  BY RaiseReaches, ZeroIsWord DEF ExceptionCode
<1> HIDE DEF r, q
<1>4. Reaches(Completes([a EXCEPT !.pc = q, !.regs = r]), "Ok", q, r, a.mem, a.cp0)
  BY <1>2, CompletesRegs, Zenon
<1> QED BY <1>1, <1>3, <1>4 DEF r, q

BranchTaken(a, d) ==
  (d.opcode = "BEQ") <=>
    (alu_execute("SUBU", reg_read(a.regs, d.rs), reg_read(a.regs, d.rt), 0).value = 0)

LEMMA BranchReaches ==
  ASSUME NEW a \in ArchState, NEW d \in DecodedInstr, d.format = "I",
         d.opcode \in {"BEQ", "BNE"}
  PROVE  Reaches(exec_branch(a, d), "Ok",
                 IF BranchTaken(a, d) THEN branch_target(Succ(a.pc), d) ELSE Succ(a.pc),
                 a.regs, a.mem, a.cp0)
<1> DEFINE p == IF BranchTaken(a, d) THEN branch_target(Succ(a.pc), d) ELSE Succ(a.pc)
<1>1. alu_control(d) = "SUBU"
  BY DEF alu_control, i_type_op
<1>2. exec_branch(a, d) = Completes([a EXCEPT !.pc = p])
  BY <1>1 DEF exec_branch, BranchTaken
<1>3. p \in Word
  BY ArchParts, SuccType, BranchTargetType
<1> HIDE DEF p
<1>4. Reaches(Completes([a EXCEPT !.pc = p]), "Ok", p, a.regs, a.mem, a.cp0)
  BY <1>3, CompletesPc, Zenon
<1> QED BY <1>2, <1>4 DEF p

LEMMA LoadReaches ==
  ASSUME NEW a \in ArchState, NEW d \in DecodedInstr, NEW addr \in Word
  PROVE  /\ ~load_ok(d.opcode, addr) =>
              Reaches(exec_load(a, d, addr), "Exception", kExceptionVector, a.regs, a.mem,
                      cp0_raise(a.cp0, AdEL, a.pc, addr))
         /\ load_ok(d.opcode, addr) =>
              Reaches(exec_load(a, d, addr), "Ok", Succ(a.pc),
                      reg_write(a.regs, d.rt, load_data(a.mem, d.opcode, addr)), a.mem, a.cp0)
<1> DEFINE r == reg_write(a.regs, d.rt, load_data(a.mem, d.opcode, addr))
           q == Succ(a.pc)
<1>1. /\ ~load_ok(d.opcode, addr) => exec_load(a, d, addr) = raise(a, AdEL, addr)
      /\ load_ok(d.opcode, addr) =>
           exec_load(a, d, addr) = Completes([a EXCEPT !.pc = q, !.regs = r])
  BY DEF exec_load
<1>2. q \in Word /\ (load_ok(d.opcode, addr) => r \in RegisterFile)
  <2>1. d.rt \in RegIdx
    BY DEF DecodedInstr
  <2> QED BY <2>1, ArchParts, SuccType, LoadDataType, RegWriteType
<1>3. Reaches(raise(a, AdEL, addr), "Exception", kExceptionVector, a.regs, a.mem,
              cp0_raise(a.cp0, AdEL, a.pc, addr))
  BY RaiseReaches DEF ExceptionCode
<1> HIDE DEF r, q
<1>4. load_ok(d.opcode, addr) =>
        Reaches(Completes([a EXCEPT !.pc = q, !.regs = r]), "Ok", q, r, a.mem, a.cp0)
  BY <1>2, CompletesRegs, Zenon
<1> QED BY <1>1, <1>3, <1>4 DEF r, q

LEMMA StoreReaches ==
  ASSUME NEW a \in ArchState, NEW d \in DecodedInstr, NEW addr \in Word
  PROVE  /\ ~store_ok(d.opcode, addr) =>
              Reaches(exec_store(a, d, addr), "Exception", kExceptionVector, a.regs, a.mem,
                      cp0_raise(a.cp0, AdES, a.pc, addr))
         /\ store_ok(d.opcode, addr) =>
              Reaches(exec_store(a, d, addr), "Ok", Succ(a.pc), a.regs,
                      write_word(a.mem, addr, reg_read(a.regs, d.rt)), a.cp0)
<1> DEFINE m == write_word(a.mem, addr, reg_read(a.regs, d.rt))
           q == Succ(a.pc)
<1>1. /\ ~store_ok(d.opcode, addr) => exec_store(a, d, addr) = raise(a, AdES, addr)
      /\ store_ok(d.opcode, addr) =>
           exec_store(a, d, addr) = Completes([a EXCEPT !.pc = q, !.mem = m])
  BY DEF exec_store
<1>2. q \in Word /\ m \in Memory
  <2>1. d.rt \in RegIdx
    BY DEF DecodedInstr
  <2> QED BY <2>1, ArchParts, SuccType, RegReadType, WriteWordType
<1>3. Reaches(raise(a, AdES, addr), "Exception", kExceptionVector, a.regs, a.mem,
              cp0_raise(a.cp0, AdES, a.pc, addr))
  BY RaiseReaches DEF ExceptionCode
<1> HIDE DEF m, q
<1>4. Reaches(Completes([a EXCEPT !.pc = q, !.mem = m]), "Ok", q, a.regs, m, a.cp0)
  BY <1>2, CompletesMem, Zenon
<1> QED BY <1>1, <1>3, <1>4 DEF m, q

(* What the ALU computes for an immediate instruction: a result, or the    *)
(* address of a load or store.                                             *)
ItypeResult(a, d) ==
  alu_execute(alu_control(d), reg_read(a.regs, d.rs), extended_imm(d, derive_control(d)), 0)
ItypeOverflows(a, d) == ItypeResult(a, d).overflow /\ d.opcode = "ADDI"

LEMMA ItypeResultType ==
  ASSUME NEW a \in ArchState, NEW d \in DecodedInstr
  PROVE  ItypeResult(a, d).value \in Word
<1>1. reg_read(a.regs, d.rs) \in Word
  BY ArchParts, RegReadType DEF DecodedInstr
<1> QED BY <1>1, ExtendedImmType, AluExecuteType DEF ItypeResult

(* Which signals an immediate instruction raises. *)
LEMMA ItypeControl ==
  ASSUME NEW d, d.format = "I"
  PROVE  LET c == derive_control(d) IN
         /\ c.mem_read <=> d.opcode \in Loads
         /\ c.mem_to_reg <=> d.opcode \in Loads
         /\ c.mem_write <=> d.opcode = "SW"
         /\ c.reg_write <=> d.opcode \notin {"SW", "BEQ", "BNE"}
         /\ c.alu_src <=> d.opcode \notin {"BEQ", "BNE"}
         /\ c.reg_dst = FALSE
<1>1. derive_control(d) = i_type_control(d.opcode)
  BY DEF derive_control
<1> QED BY <1>1 DEF i_type_control, NoControl

LEMMA ItypeReaches ==
  ASSUME NEW a \in ArchState, NEW d \in DecodedInstr, d.format = "I",
         d.opcode \in IOpcodes \ {"BEQ", "BNE"}
  PROVE  LET v == ItypeResult(a, d).value IN
         /\ ItypeOverflows(a, d) =>
              Reaches(exec_itype(a, d), "Exception", kExceptionVector, a.regs, a.mem,
                      cp0_raise(a.cp0, Ov, a.pc, 0))
         /\ d.opcode \in Loads => exec_itype(a, d) = exec_load(a, d, v)
         /\ d.opcode = "SW" => exec_itype(a, d) = exec_store(a, d, v)
         /\ ~ItypeOverflows(a, d) /\ d.opcode \notin Loads \cup {"SW"} =>
              Reaches(exec_itype(a, d), "Ok", Succ(a.pc), reg_write(a.regs, d.rt, v),
                      a.mem, a.cp0)
<1> DEFINE v == ItypeResult(a, d).value
           r == reg_write(a.regs, d.rt, v)
           q == Succ(a.pc)
<1>1. alu_control(d) # "none"
  BY AluControlled
<1>2. /\ derive_control(d).mem_read <=> d.opcode \in Loads
      /\ derive_control(d).mem_write <=> d.opcode = "SW"
  BY ItypeControl
<1>3. /\ ItypeOverflows(a, d) => exec_itype(a, d) = raise(a, Ov, 0)
      /\ d.opcode \in Loads => exec_itype(a, d) = exec_load(a, d, v)
      /\ d.opcode = "SW" => exec_itype(a, d) = exec_store(a, d, v)
      /\ ~ItypeOverflows(a, d) /\ d.opcode \notin Loads \cup {"SW"} =>
           exec_itype(a, d) = Completes([a EXCEPT !.pc = q, !.regs = r])
  BY <1>1, <1>2 DEF exec_itype, ItypeOverflows, ItypeResult, Loads
<1>4. r \in RegisterFile /\ q \in Word
  <2>1. d.rt \in RegIdx
    BY DEF DecodedInstr
  <2> QED BY <2>1, ItypeResultType, ArchParts, SuccType, RegWriteType
<1>5. Reaches(raise(a, Ov, 0), "Exception", kExceptionVector, a.regs, a.mem,
              cp0_raise(a.cp0, Ov, a.pc, 0))
  BY RaiseReaches, ZeroIsWord DEF ExceptionCode
<1> HIDE DEF r, q
<1>6. Reaches(Completes([a EXCEPT !.pc = q, !.regs = r]), "Ok", q, r, a.mem, a.cp0)
  BY <1>4, CompletesRegs, Zenon
<1> QED BY <1>3, <1>5, <1>6 DEF r, q

LEMMA RegisterJumpReaches ==
  ASSUME NEW a \in ArchState, NEW d \in DecodedInstr, d.opcode = "SPECIAL"
  PROVE  /\ d.funct = "JR" =>
              Reaches(exec_rtype(a, d), "Ok", reg_read(a.regs, d.rs), a.regs, a.mem, a.cp0)
         /\ d.funct = "JALR" =>
              Reaches(exec_rtype(a, d), "Ok", reg_read(a.regs, d.rs),
                      reg_write(a.regs, d.rd, Succ(a.pc)), a.mem, a.cp0)
<1> DEFINE p == reg_read(a.regs, d.rs)
           r == reg_write(a.regs, d.rd, Succ(a.pc))
<1>1. p \in Word /\ r \in RegisterFile
  <2>1. d.rs \in RegIdx /\ d.rd \in RegIdx
    BY DEF DecodedInstr
  <2> QED BY <2>1, ArchParts, RegReadType, SuccType, RegWriteType
<1>2. /\ d.funct = "JR" => exec_rtype(a, d) = Completes([a EXCEPT !.pc = p])
      /\ d.funct = "JALR" => exec_rtype(a, d) = Completes([a EXCEPT !.pc = p, !.regs = r])
  BY DEF exec_rtype
<1> HIDE DEF p, r
<1>3. Reaches(Completes([a EXCEPT !.pc = p]), "Ok", p, a.regs, a.mem, a.cp0)
  BY <1>1, CompletesPc, Zenon
<1>4. Reaches(Completes([a EXCEPT !.pc = p, !.regs = r]), "Ok", p, r, a.mem, a.cp0)
  BY <1>1, CompletesRegs, Zenon
<1> QED BY <1>2, <1>3, <1>4 DEF p, r

(* An instruction either completes or raises: the Fault of the code's      *)
(* exec_*type functions is unreachable for a word the decoder accepts.     *)
LEMMA InstrOutcome ==
  ASSUME NEW a \in ArchState, NEW w \in Word, decodes(w)
  PROVE  LET o == exec_instr(a, decode(w))
         IN  /\ o \in Outcome /\ o.result \in {"Ok", "Exception"}
             /\ o.result = "Exception" => Raised(a, o)
<1> DEFINE d == decode(w)
           o == exec_instr(a, d)
           G == /\ o \in Outcome /\ o.result \in {"Ok", "Exception"}
                /\ o.result = "Exception" => Raised(a, o)
<1>1. /\ d \in DecodedInstr /\ d.format \in {"R", "I", "J"}
      /\ d.format = "R" => /\ d.opcode \in {"SPECIAL", "COP0"}
                           /\ d.opcode = "SPECIAL" => d.funct \in SpecialFuncts
      /\ d.format = "I" => d.opcode \in IOpcodes
  BY DecodedParts
<1> SUFFICES G
  OBVIOUS
<1> HIDE DEF d
<1>2. CASE d.format = "J"
  BY <1>1, <1>2, JtypeReaches, ReachesOutcome DEF exec_instr
<1>3. CASE d.format = "R" /\ d.opcode = "COP0"
  <2>1. o = exec_cop0(a, d)
    BY <1>3 DEF exec_instr, exec_rtype
  <2> QED BY <1>1, <2>1, Cop0Reaches, ReachesOutcome
<1>4. CASE d.format = "R" /\ d.opcode = "SPECIAL"
  <2>1. o = exec_rtype(a, d)
    BY <1>4 DEF exec_instr
  <2>2. CASE d.funct = "SYSCALL"
    <3>1. o = raise(a, Sys, 0)
      BY <1>4, <2>1, <2>2 DEF exec_rtype
    <3> QED BY <3>1, RaiseRaises, ZeroIsWord
  <2>3. CASE d.funct = "BREAK"
    <3>1. o = raise(a, Bp, 0)
      BY <1>4, <2>1, <2>3 DEF exec_rtype
    <3> QED BY <3>1, RaiseRaises, ZeroIsWord
  <2>4. CASE d.funct \in {"JR", "JALR"}
    BY <1>1, <1>4, <2>1, <2>4, RegisterJumpReaches, ReachesOutcome
  <2>5. CASE d.funct \notin {"SYSCALL", "BREAK", "JR", "JALR"}
    <3>1. o = exec_alu_rtype(a, d)
      BY <1>4, <2>1, <2>5 DEF exec_rtype
    <3>2. alu_control(d) # "none"
      BY <1>1, <1>4, <2>5, AluControlled
    <3> QED BY <1>1, <3>1, <3>2, AluRtypeReaches, ReachesOutcome, RaisedBy, ZeroIsWord
  <2> QED BY <2>2, <2>3, <2>4, <2>5
<1>5. CASE d.format = "I" /\ d.opcode \in {"BEQ", "BNE"}
  <2>1. o = exec_branch(a, d)
    BY <1>5 DEF exec_instr, exec_itype
  <2> QED BY <1>1, <1>5, <2>1, BranchReaches, ReachesOutcome
<1>6. CASE d.format = "I" /\ d.opcode \notin {"BEQ", "BNE"}
  <2>1. o = exec_itype(a, d)
    BY <1>6 DEF exec_instr
  <2> DEFINE v == ItypeResult(a, d).value
  <2>2. v \in Word
    BY <1>1, ItypeResultType
  <2>3. /\ d.opcode \in Loads => o = exec_load(a, d, v)
        /\ d.opcode = "SW" => o = exec_store(a, d, v)
        /\ d.opcode \notin Loads \cup {"SW"} => G
    BY <1>1, <1>6, <2>1, ItypeReaches, ReachesOutcome, RaisedBy, ZeroIsWord
  <2>4. d.opcode \in Loads => G
    BY <1>1, <2>2, <2>3, LoadReaches, ReachesOutcome, RaisedBy
  <2>5. d.opcode = "SW" => G
    BY <1>1, <2>2, <2>3, StoreReaches, ReachesOutcome, RaisedBy
  <2> QED BY <2>3, <2>4, <2>5
<1> QED BY <1>1, <1>2, <1>3, <1>4, <1>5, <1>6

(* step() is the instruction's outcome, Halt in place of Ok when the PC    *)
(* stays, or a trap when there is no instruction.                          *)
LEMMA StepOutcome ==
  ASSUME NEW a \in ArchState
  PROVE  LET w == read_word(a.mem, a.pc)
             o == exec_instr(a, decode(w))
         IN  /\ step(a) \in Outcome /\ step(a).result # "Fault"
             /\ step(a).result = "Exception" => Raised(a, step(a))
             /\ ~word_ok(a.pc) => step(a) = raise(a, AdEL, a.pc)
             /\ word_ok(a.pc) /\ ~decodes(w) => step(a) = raise(a, RI, 0)
             /\ word_ok(a.pc) /\ decodes(w) =>
                  /\ o \in Outcome /\ step(a).arch = o.arch
                  /\ step(a).result = IF o.result = "Ok" /\ o.arch.pc = a.pc THEN "Halt"
                                      ELSE o.result
                  /\ o.result \in {"Ok", "Exception"}
<1> DEFINE w == read_word(a.mem, a.pc)
           o == exec_instr(a, decode(w))
<1>1. CASE ~word_ok(a.pc)
  <2>1. step(a) = raise(a, AdEL, a.pc)
    BY <1>1 DEF step
  <2> QED BY <1>1, <2>1, ArchParts, RaiseRaises
<1>2. CASE word_ok(a.pc) /\ ~decodes(w)
  <2>1. step(a) = raise(a, RI, 0)
    BY <1>2 DEF step
  <2> QED BY <1>2, <2>1, ZeroIsWord, RaiseRaises
<1>3. CASE word_ok(a.pc) /\ decodes(w)
  <2>1. w \in Word
    BY <1>3, ArchParts, ReadWordType
  <2>2. /\ o \in Outcome /\ o.result \in {"Ok", "Exception"}
        /\ o.result = "Exception" => Raised(a, o)
    BY <1>3, <2>1, InstrOutcome
  <2>3. step(a) = IF o.result = "Ok" /\ o.arch.pc = a.pc THEN [o EXCEPT !.result = "Halt"]
                  ELSE o
    BY <1>3 DEF step
  <2> HIDE DEF o
  <2>4. /\ [o EXCEPT !.result = "Halt"] \in Outcome
        /\ [o EXCEPT !.result = "Halt"].arch = o.arch
        /\ [o EXCEPT !.result = "Halt"].result = "Halt"
    BY <2>2 DEF Outcome, StepResult
  <2> QED BY <1>3, <2>2, <2>3, <2>4 DEF o
<1> QED BY <1>1, <1>2, <1>3
=============================================================================
