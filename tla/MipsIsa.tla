------------------------------ MODULE MipsIsa ------------------------------
(***************************************************************************)
(* The data and the combinational units both CPU models share: machine     *)
(* words, the byte-addressed memory, the register file, the decoder, the   *)
(* control unit, the ALU and coprocessor 0.                                *)
(*                                                                         *)
(* The machine is scaled by its word width.  A byte has ByteSize values    *)
(* (256 in the code), a word is four bytes, an immediate is half a word    *)
(* and a jump region is one sixteenth of the address space, so every       *)
(* width of the code keeps its ratio to the word.  The bit layout of an    *)
(* instruction is the constant Fields, which gives the fields bits() taps  *)
(* out of each word; the decoder itself is translated.                     *)
(***************************************************************************)
EXTENDS Integers, Sequences

CONSTANTS
  ByteSize,          \* number of values of a byte
  WordBits,          \* width of a word
  MemBytes,          \* mem_bytes, the size of the memory
  kExceptionVector,  \* where a trap sends the PC
  Fields,            \* word -> the bit fields of that word
  BitAnd(_, _),      \* &  on words
  Shl(_, _),         \* << on words
  Shr(_, _)          \* >> on words

HalfSize == ByteSize * ByteSize
WordSize == HalfSize * HalfSize
Byte     == 0 .. ByteSize - 1
Word     == 0 .. WordSize - 1
Imm      == 0 .. HalfSize - 1
RegIdx   == 0 .. 31
kRa      == 31
Region   == WordSize \div 16
Targets  == 0 .. (Region \div 4) - 1

SpecialFuncts ==
  {"SLL", "SRL", "SRA", "SLLV", "SRLV", "JR", "JALR", "SYSCALL", "BREAK",
   "ADD", "ADDU", "SUB", "SUBU", "AND", "OR", "XOR", "NOR", "SLT", "SLTU"}
IOpcodes ==
  {"BEQ", "BNE", "ADDI", "ADDIU", "SLTI", "SLTIU", "ANDI", "ORI", "XORI",
   "LUI", "LW", "LBU", "LHU", "SW"}
Opcode    == IOpcodes \cup {"SPECIAL", "COP0", "J", "JAL"}
FunctCode == SpecialFuncts \cup {"ERET"}

(* What bits() can read out of a word; "reserved" is any value of a field  *)
(* that has no enumerator.                                                 *)
FieldSet ==
  [opcode : Opcode \cup {"reserved"}, rs : RegIdx, rt : RegIdx, rd : RegIdx,
   shamt : 0 .. WordBits - 1, funct : FunctCode \cup {"reserved"},
   imm : Imm, target : Targets]

ASSUME SizeAssumption ==
  /\ ByteSize \in Nat \ {0}
  /\ WordSize % 128 = 0          \* Status.EXL and Cause.ExcCode fit a word
  /\ WordBits \in 1 .. WordSize
  /\ MemBytes \in Nat
  /\ kExceptionVector \in Word
ASSUME FieldsAssumption == Fields \in [Word -> FieldSet]
ASSUME BitAndAssumption ==
  \A a, b \in Word :
    /\ BitAnd(a, b) \in Word
    /\ BitAnd(a, b) <= a /\ BitAnd(a, b) <= b
    /\ a + b - BitAnd(a, b) < WordSize
ASSUME ShiftAssumption ==
  \A a \in Word, s \in 0 .. WordBits - 1 :
    Shl(a, s) \in Word /\ Shr(a, s) \in Word

-----------------------------------------------------------------------------
(* Decoder *)

format_of(op) ==
  CASE op \in {"SPECIAL", "COP0"} -> "R"
    [] op \in {"J", "JAL"}        -> "J"
    [] op \in IOpcodes            -> "I"
    [] OTHER                      -> "Unknown"

(* Mutant: every SPECIAL word decodes, whatever its funct. *)
decodes_any_funct(w) == format_of(Fields[w].opcode) # "Unknown"

(* decode() returns a value for these words and nullopt for every other.   *)
decodes(w) ==
  CASE format_of(Fields[w].opcode) = "Unknown" -> FALSE
    [] Fields[w].opcode = "SPECIAL"            -> Fields[w].funct \in SpecialFuncts
    [] OTHER                                   -> TRUE

(* A field that the format does not have holds zero; funct holds "none".   *)
NoInstr ==
  [raw |-> 0, opcode |-> "SPECIAL", format |-> "Unknown", rs |-> 0, rt |-> 0,
   rd |-> 0, shamt |-> 0, funct |-> "none", imm |-> 0, target |-> 0]

decode_fields(w, f) ==
  LET d == [NoInstr EXCEPT !.raw = w, !.opcode = f.opcode,
                           !.format = format_of(f.opcode)]
  IN  CASE d.format = "R" ->
             [d EXCEPT !.rs = f.rs, !.rt = f.rt, !.rd = f.rd, !.funct = f.funct,
                       !.shamt = IF f.opcode = "COP0" THEN 0 ELSE f.shamt]
        [] d.format = "I" -> [d EXCEPT !.rs = f.rs, !.rt = f.rt, !.imm = f.imm]
        [] OTHER          -> [d EXCEPT !.target = f.target]

decode(w) == decode_fields(w, Fields[w])

DecodedInstr ==
  [raw : Word, opcode : Opcode, format : {"R", "I", "J", "Unknown"},
   rs : RegIdx, rt : RegIdx, rd : RegIdx, shamt : 0 .. WordBits - 1,
   funct : FunctCode \cup {"reserved", "none"}, imm : Imm, target : Targets]

sign_extend(imm) ==
  IF imm >= HalfSize \div 2 THEN imm + WordSize - HalfSize ELSE imm

(* {PC[31:28], target, 00} *)
jump_target(pc4, d) == (pc4 - (pc4 % Region)) + 4 * d.target

branch_target(pc4, d) == (pc4 + 4 * sign_extend(d.imm)) % WordSize

-----------------------------------------------------------------------------
(* Control unit *)

Control ==
  [reg_write : BOOLEAN, mem_read : BOOLEAN, mem_write : BOOLEAN,
   mem_to_reg : BOOLEAN, alu_src : BOOLEAN, reg_dst : BOOLEAN,
   branch : BOOLEAN, jump : BOOLEAN, ext : {"Sign", "Zero"}]

NoControl ==
  [reg_write |-> FALSE, mem_read |-> FALSE, mem_write |-> FALSE,
   mem_to_reg |-> FALSE, alu_src |-> FALSE, reg_dst |-> FALSE,
   branch |-> FALSE, jump |-> FALSE, ext |-> "Sign"]

Loads == {"LW", "LBU", "LHU"}

r_type_control(d) ==
  IF d.opcode = "COP0" \/ d.funct \in {"JR", "SYSCALL", "BREAK"} THEN NoControl
  ELSE [NoControl EXCEPT !.reg_write = TRUE, !.reg_dst = d.funct # "JALR"]

i_type_control(op) ==
  [NoControl EXCEPT
     !.reg_write  = op \notin {"SW", "BEQ", "BNE"},
     !.mem_read   = op \in Loads,
     !.mem_to_reg = op \in Loads,
     !.mem_write  = op = "SW",
     !.branch     = op \in {"BEQ", "BNE"},
     !.alu_src    = op \notin {"BEQ", "BNE"},
     !.ext        = IF op \in {"ANDI", "ORI", "XORI", "LUI"} THEN "Zero" ELSE "Sign"]

derive_control(d) ==
  CASE d.format = "R" -> r_type_control(d)
    [] d.format = "I" -> i_type_control(d.opcode)
    [] d.format = "J" -> [NoControl EXCEPT !.jump = TRUE,
                                           !.reg_write = d.opcode = "JAL"]
    [] OTHER          -> NoControl

-----------------------------------------------------------------------------
(* ALU *)

r_type_op(funct) ==
  CASE funct \in {"SLL", "SLLV"} -> "SLL"
    [] funct \in {"SRL", "SRLV"} -> "SRL"
    [] funct \in {"JR", "JALR"}  -> "PASS_A"
    [] funct \in {"ADD", "ADDU", "SUB", "SUBU", "AND", "OR", "XOR", "NOR",
                  "SLT", "SLTU", "SRA"} -> funct
    [] OTHER                     -> "none"

i_type_op(op) ==
  CASE op = "ADDI"  -> "ADD"
    [] op = "SLTI"  -> "SLT"
    [] op = "SLTIU" -> "SLTU"
    [] op = "ANDI"  -> "AND"
    [] op = "ORI"   -> "OR"
    [] op = "XORI"  -> "XOR"
    [] op = "LUI"   -> "LUI"
    [] op \in {"ADDIU", "LW", "LBU", "LHU", "SW"} -> "ADDU"
    [] op \in {"BEQ", "BNE"} -> "SUBU"
    [] OTHER        -> "none"

(* Alu::control; "none" is nullopt. *)
alu_control(d) ==
  CASE d.format = "R" -> r_type_op(d.funct)
    [] d.format = "I" -> i_type_op(d.opcode)
    [] OTHER          -> "none"

negative(a) == a >= WordSize \div 2
signed(a)   == IF negative(a) THEN a - WordSize ELSE a
bit_or(a, b) == a + b - BitAnd(a, b)

(* Mutant: the carry out of the word instead of the signed overflow. *)
overflow_add_carry(a, b, r) == r < a

overflow_add(a, b, r) == negative(a) = negative(b) /\ negative(a) # negative(r)
overflow_sub(a, b, r) == negative(a) # negative(b) /\ negative(a) # negative(r)

alu_value(op, a, b, shamt) ==
  LET s == shamt % WordBits IN
  CASE op \in {"ADD", "ADDU"} -> (a + b) % WordSize
    [] op \in {"SUB", "SUBU"} -> (a - b) % WordSize
    [] op = "AND"    -> BitAnd(a, b)
    [] op = "OR"     -> bit_or(a, b)
    [] op = "XOR"    -> bit_or(a, b) - BitAnd(a, b)
    [] op = "NOR"    -> WordSize - 1 - bit_or(a, b)
    [] op = "SLT"    -> IF signed(a) < signed(b) THEN 1 ELSE 0
    [] op = "SLTU"   -> IF a < b THEN 1 ELSE 0
    [] op = "SLL"    -> Shl(b, s)
    [] op = "SRL"    -> Shr(b, s)
    [] op = "SRA"    -> IF negative(b) THEN WordSize - 1 - Shr(WordSize - 1 - b, s)
                        ELSE Shr(b, s)
    [] op = "LUI"    -> (b * HalfSize) % WordSize
    [] OTHER         -> a     \* PASS_A

(* Alu::execute; the zero and negative flags are functions of the value.   *)
alu_execute(op, a, b, shamt) ==
  LET v == alu_value(op, a, b, shamt) IN
  [value    |-> v,
   overflow |-> \/ op = "ADD" /\ overflow_add(a, b, v)
                \/ op = "SUB" /\ overflow_sub(a, b, v)]

(* The shift amount a CPU hands to the ALU: rs[4:0] for SLLV and SRLV.     *)
shift_amount(d, a) ==
  IF d.funct \in {"SLLV", "SRLV"} THEN a % WordBits ELSE d.shamt

extended_imm(d, ctrl) == IF ctrl.ext = "Sign" THEN sign_extend(d.imm) ELSE d.imm

-----------------------------------------------------------------------------
(* Memory: little-endian bytes, natural alignment *)

Memory == [0 .. MemBytes - 1 -> Byte]
ZeroMemory == [i \in 0 .. MemBytes - 1 |-> 0]

in_bounds(addr, n) == addr + n <= MemBytes

word_ok(addr) == addr % 4 = 0 /\ in_bounds(addr, 4)

byte_of(v, k) ==
  CASE k = 0 -> v % ByteSize
    [] k = 1 -> (v \div ByteSize) % ByteSize
    [] k = 2 -> (v \div HalfSize) % ByteSize
    [] OTHER -> (v \div (HalfSize * ByteSize)) % ByteSize

read_half(m, addr) == m[addr] + ByteSize * m[addr + 1]

read_word(m, addr) == read_half(m, addr) + HalfSize * read_half(m, addr + 2)

write_word(m, addr, v) ==
  [i \in DOMAIN m |-> IF i \in addr .. addr + 3 THEN byte_of(v, i - addr) ELSE m[i]]

load_words(m, addr, words) ==
  [i \in DOMAIN m |->
     IF i \in addr .. addr + 4 * Len(words) - 1
     THEN byte_of(words[(i - addr) \div 4 + 1], (i - addr) % 4)
     ELSE m[i]]

(* load_data returns a value for these; store_data returns true for these. *)
load_ok(op, addr) ==
  CASE op = "LW"  -> word_ok(addr)
    [] op = "LHU" -> addr % 2 = 0 /\ in_bounds(addr, 2)
    [] op = "LBU" -> in_bounds(addr, 1)
    [] OTHER      -> FALSE

load_data(m, op, addr) ==
  CASE op = "LW"  -> read_word(m, addr)
    [] op = "LHU" -> read_half(m, addr)
    [] OTHER      -> m[addr]

store_ok(op, addr) == op = "SW" /\ word_ok(addr)

-----------------------------------------------------------------------------
(* Register file: $zero reads 0 and discards writes *)

RegisterFile == [RegIdx -> Word]
ZeroRegs == [i \in RegIdx |-> 0]

reg_read(r, i) == IF i = 0 THEN 0 ELSE r[i]
reg_write(r, i, v) == IF i = 0 THEN r ELSE [r EXCEPT ![i] = v]

-----------------------------------------------------------------------------
(* Coprocessor 0 *)

AdEL == 4
AdES == 5
Sys  == 8
Bp   == 9
RI   == 10
Ov   == 12
ExceptionCode == {AdEL, AdES, Sys, Bp, RI, Ov}

kRegBadVAddr == 8
kRegStatus   == 12
kRegCause    == 13
kRegEpc      == 14

Cp0 == [status : Word, cause : Word, epc : Word, bad_vaddr : Word,
        last_exc : ExceptionCode]

PowerOnCp0 == [status |-> 0, cause |-> 0, epc |-> 0, bad_vaddr |-> 0, last_exc |-> RI]

in_exception(c) == (c.status \div 2) % 2 = 1      \* Status.EXL, bit 1

set_exl(c) == IF in_exception(c) THEN c.status ELSE c.status + 2

(* Mutant: the old ExcCode is not cleared before the new one is put in. *)
cp0_raise_adds_code(c, code, faulting_pc, bad_addr) ==
  [status |-> set_exl(c), cause |-> c.cause + 4 * code,
   epc |-> IF in_exception(c) THEN c.epc ELSE faulting_pc,
   bad_vaddr |-> bad_addr, last_exc |-> code]

(* Mutant: a nested trap overwrites EPC. *)
cp0_raise_clobbers_epc(c, code, faulting_pc, bad_addr) ==
  [status |-> set_exl(c), cause |-> c.cause - 4 * ((c.cause \div 4) % 32) + 4 * code,
   epc |-> faulting_pc, bad_vaddr |-> bad_addr, last_exc |-> code]

(* EPC is kept when EXL is already set; BadVAddr is always overwritten.    *)
cp0_raise(c, code, faulting_pc, bad_addr) ==
  [status    |-> set_exl(c),
   cause     |-> c.cause - 4 * ((c.cause \div 4) % 32) + 4 * code,
   epc       |-> IF in_exception(c) THEN c.epc ELSE faulting_pc,
   bad_vaddr |-> bad_addr,
   last_exc  |-> code]

(* Mutant: ERET leaves EXL set. *)
cp0_eret_keeps_exl(c) == c

cp0_eret(c) == [c EXCEPT !.status = IF in_exception(c) THEN @ - 2 ELSE @]

cp0_read(c, reg) ==
  CASE reg = kRegBadVAddr -> c.bad_vaddr
    [] reg = kRegStatus   -> c.status
    [] reg = kRegCause    -> c.cause
    [] reg = kRegEpc      -> c.epc
    [] OTHER              -> 0

cp0_write(c, reg, v) ==
  CASE reg = kRegStatus -> [c EXCEPT !.status = v]
    [] reg = kRegCause  -> [c EXCEPT !.cause = v]
    [] reg = kRegEpc    -> [c EXCEPT !.epc = v]
    [] OTHER            -> c

(* reset() leaves last_exc_ alone. *)
cp0_reset(c) == [PowerOnCp0 EXCEPT !.last_exc = c.last_exc]
=============================================================================
