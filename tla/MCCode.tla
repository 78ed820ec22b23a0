------------------------------- MODULE MCCode -------------------------------
(***************************************************************************)
(* The instruction words of the model-checked machine: an eight-bit word   *)
(* (four two-bit bytes), a four-bit immediate and sixteen-byte jump        *)
(* regions.  Word number n holds Code[n]; the all-zero word is SLL         *)
(* $0,$0,0, the NOP that cleared memory holds; every other word has a      *)
(* reserved opcode.                                                        *)
(***************************************************************************)
EXTENDS Integers, Sequences, Bitwise

MCByteSize == 4
MCWordBits == 8
MCBitAnd(a, b) == a & b
MCShl(a, s) == (a * 2 ^ s) % 256
MCShr(a, s) == a \div 2 ^ s

Raw(opcode, rs, rt, rd, shamt, funct, imm, target) ==
  [opcode |-> opcode, rs |-> rs, rt |-> rt, rd |-> rd, shamt |-> shamt,
   funct |-> funct, imm |-> imm, target |-> target]
R(funct, rd, rs, rt) == Raw("SPECIAL", rs, rt, rd, 0, funct, 0, 0)
I(opcode, rt, rs, imm) == Raw(opcode, rs, rt, 0, 0, "reserved", imm % 16, 0)
J(opcode, target) == Raw(opcode, 0, 0, 0, 0, "reserved", 0, target)
C(sub, rt, rd, funct) == Raw("COP0", sub, rt, rd, 0, funct, 0, 0)

Code ==
  <<I("ADDIU", 1, 0, 5),      \*  1
    I("ADDIU", 2, 1, -3),     \*  2
    R("ADDU", 1, 1, 2),       \*  3
    R("SLLV", 2, 2, 1),       \*  4
    I("LW", 1, 0, 0),         \*  5
    I("LW", 2, 0, 4),         \*  6
    I("SW", 1, 0, 4),         \*  7
    I("SW", 2, 0, 0),         \*  8
    R("SLTU", 1, 2, 1),       \*  9
    I("BNE", 1, 2, 1),        \* 10
    I("BEQ", 0, 1, -2),       \* 11
    J("J", 2),                \* 12  to itself at 8 and at 24
    J("J", 3),                \* 13
    J("JAL", 1),              \* 14
    R("JR", 0, 31, 0),        \* 15
    R("JALR", 1, 31, 0),      \* 16
    I("ADDIU", 31, 31, 4),    \* 17
    I("LW", 31, 0, 0),        \* 18
    R("SYSCALL", 0, 0, 0),    \* 19
    R("BREAK", 0, 0, 0),      \* 20
    I("LUI", 1, 0, 4),        \* 21
    R("ADD", 1, 1, 1),        \* 22  overflows after LUI
    I("LW", 1, 0, 3),         \* 23  misaligned
    I("SW", 1, 1, -2),        \* 24  often misaligned or out of range
    C(0, 1, 14, "SLL"),       \* 25  MFC0 $1, EPC
    C(4, 1, 14, "SLL"),       \* 26  MTC0 $1, EPC
    C(16, 0, 0, "ERET"),      \* 27  ERET
    C(4, 1, 12, "SLL"),       \* 28  MTC0 $1, Status
    C(0, 2, 8, "SLL"),        \* 29  MFC0 $2, BadVAddr
    I("reserved", 0, 0, 0),   \* 30  undecodable
    I("ADDI", 1, 1, 4),       \* 31
    C(2, 1, 1, "JR"),         \* 32  unknown COP0 sub-operation
    I("LBU", 2, 1, 1),        \* 33
    I("LHU", 1, 0, 6),        \* 34
    R("SUB", 2, 2, 1),        \* 35
    R("NOR", 1, 1, 0),        \* 36
    R("SRA", 1, 0, 1),        \* 37
    R("reserved", 0, 0, 0),   \* 38  reserved funct
    I("ORI", 1, 0, 12),       \* 39
    R("JALR", 1, 1, 0),       \* 40
    I("LW", 2, 1, 0),         \* 41
    I("BEQ", 0, 1, -4)>>      \* 42  below address 12 across the end

MCFields ==
  [w \in 0 .. 255 |->
     CASE w = 0              -> R("SLL", 0, 0, 0)
       [] w \in DOMAIN Code  -> Code[w]
       [] OTHER              -> I("reserved", 0, 0, 0)]
=============================================================================
