------------------------------ MODULE Assembler ------------------------------
(***************************************************************************)
(* nsc::qt::assemble: the two-pass assembler of the Qt front ends.  A line *)
(* of source is a label, a mnemonic and operands, each of them a token:    *)
(* the comment, the white space and the spelling of a token are gone.  A   *)
(* word is the record of its fields.                                       *)
(***************************************************************************)
EXTENDS Integers, Sequences, FiniteSets

CONSTANTS
  ImmSize,      \* how many immediates there are: 2^16 in the code
  JumpSize,     \* jump targets: 2^26
  ShamtSize,    \* shift amounts: 2^5
  IntSize,      \* integers that numbers are parsed into: 2^32
  Registers,    \* register numbers: 0 .. 31
  SourceLines,  \* lines the user may type
  MaxLines      \* bound: lines of a source

Numerals == [kind : {"reg", "num", "name"}, n : Nat, neg : BOOLEAN, hex : BOOLEAN]
Tokens   == Numerals \cup [kind : {"mem"}, imm : Numerals, reg : Numerals]

(* An immediate, a target and a shift amount are narrower than an integer. *)
ASSUME AssemblerAssumption ==
  /\ {ImmSize, JumpSize, ShamtSize, IntSize} \subseteq Nat \ {0}
  /\ ImmSize % 2 = 0 /\ IntSize % 2 = 0
  /\ \A size \in {ImmSize, JumpSize, ShamtSize} : 2 * size <= IntSize
  /\ Registers \subseteq Nat /\ 0 \in Registers /\ MaxLines \in Nat
  /\ \A l \in SourceLines : l.mnemonic \in STRING /\ l.operands \in Seq(Tokens)

VARIABLES source, assembled
asmVars == <<source, assembled>>

(* Tokens: "$n", a number, a name, and "imm($n)". *)
Reg(n) == [kind |-> "reg", n |-> n, neg |-> FALSE, hex |-> FALSE]
Num(neg, hex, n) == [kind |-> "num", n |-> n, neg |-> neg, hex |-> hex]
Name(n) == [kind |-> "name", n |-> n, neg |-> FALSE, hex |-> FALSE]
MemOp(imm, reg) == [kind |-> "mem", imm |-> imm, reg |-> reg]
NoLabel == [kind |-> "none"]
NoInstruction == "none"
SourceLine(label, mnemonic, operands) ==
  [label |-> label, mnemonic |-> mnemonic, operands |-> operands]

-----------------------------------------------------------------------------
(* Operands *)

Signed(v, size) ==
  LET u == v % size IN IF u >= size \div 2 THEN u - size ELSE u

parses_reg(t) == t.kind = "reg" /\ t.n \in Registers

(* The digits after the sign must fit: those of a hexadecimal number as    *)
(* unsigned, those of a decimal one as signed.                             *)
parses_imm(t) ==
  t.kind = "num" /\ t.n < (IF t.hex THEN IntSize ELSE IntSize \div 2)
parse_imm(t) ==
  LET val == Signed(t.n, IntSize) IN IF t.neg THEN Signed(0 - val, IntSize) ELSE val

parses_mem_operand(t) == t.kind = "mem" /\ parses_imm(t.imm) /\ parses_reg(t.reg)

(* Mutant: the limit of the unsigned range. *)
fits_simm16_unsigned(v) == v \in -(ImmSize \div 2) .. ImmSize - 1

fits_simm16(v) == v \in -(ImmSize \div 2) .. ImmSize \div 2 - 1
fits_uimm16(v) == v \in 0 .. ImmSize - 1
fits_target(v) == v \in 0 .. JumpSize - 1

(* What each instruction takes.  nop ignores its operands. *)
kR3Map == {"add", "addu", "sub", "subu", "and", "or", "xor", "nor", "slt", "sltu"}
kShiftMap == {"sll", "srl", "sra"}
kVShiftMap == {"sllv", "srlv"}
kIArithMap == {"addi", "addiu", "slti", "sltiu", "andi", "ori", "xori"}
kMemMap == {"lw", "lbu", "lhu", "sw"}
kBranchMap == {"beq", "bne"}
kJumpMap == {"j", "jal"}
zero_extends_imm(mn) == mn \in {"andi", "ori", "xori"}

Mnemonics ==
  kR3Map \cup kShiftMap \cup kVShiftMap \cup kIArithMap \cup kMemMap \cup kBranchMap
    \cup kJumpMap \cup {"nop", "jr", "jalr", "lui"}

fields(mn) ==
  CASE mn \in kR3Map     -> <<"rd", "rs", "rt">>
    [] mn \in kShiftMap  -> <<"rd", "rt", "shamt">>
    [] mn \in kVShiftMap -> <<"rd", "rt", "rs">>
    [] mn = "jr"         -> <<"rs">>
    [] mn = "jalr"       -> <<"rd", "rs">>
    [] mn \in kIArithMap -> <<"rt", "rs", IF zero_extends_imm(mn) THEN "uimm" ELSE "simm">>
    [] mn = "lui"        -> <<"rt", "uimm">>
    [] mn \in kMemMap    -> <<"rt", "mem">>
    [] mn \in kBranchMap -> <<"rs", "rt", "branch">>
    [] mn \in kJumpMap   -> <<"target">>
    [] OTHER             -> <<>>

-----------------------------------------------------------------------------
(* Pass 1: the lines with an instruction, and the word index of each       *)
(* label.  A label defined twice means its last definition.                *)

has_instruction(l) == l.mnemonic # NoInstruction

(* The lines of code among the first i. *)
collected(src) ==
  LET ls[i \in 0 .. Len(src)] ==
        IF i = 0 THEN <<>>
        ELSE IF has_instruction(src[i]) THEN Append(ls[i - 1], src[i]) ELSE ls[i - 1]
  IN  ls
lines(src) == collected(src)[Len(src)]

definitions(src, t) == {i \in 1 .. Len(src) : src[i].label = t}
lastDefinition(src, t) ==
  CHOOSE i \in definitions(src, t) : \A j \in definitions(src, t) : j <= i

(* Mutant: a label alone on its line is taken for a line of code. *)
labelIndexOfLine(src, t) == lastDefinition(src, t) - 1

labelIndex(src, t) == Len(collected(src)[lastDefinition(src, t) - 1])

-----------------------------------------------------------------------------
(* Pass 2 *)

(* A branch or jump operand is a number if it can be, else a label. *)
resolves(src, t) == parses_imm(t) \/ definitions(src, t) # {}

(* Mutant: relative to the branch itself. *)
branchOffsetFromHere(src, t, idx) ==
  IF parses_imm(t) THEN parse_imm(t) ELSE labelIndex(src, t) - idx

(* idx counts from zero. *)
branchOffset(src, t, idx) ==
  IF parses_imm(t) THEN parse_imm(t) ELSE labelIndex(src, t) - (idx + 1)
jumpTarget(src, t) == IF parses_imm(t) THEN parse_imm(t) ELSE labelIndex(src, t)

accepts(src, field, t, idx) ==
  CASE field \in {"rd", "rs", "rt"} -> parses_reg(t)
    [] field = "shamt"  -> parses_imm(t) /\ parse_imm(t) \in 0 .. ShamtSize - 1
    [] field = "simm"   -> parses_imm(t) /\ fits_simm16(parse_imm(t))
    [] field = "uimm"   -> parses_imm(t) /\ fits_uimm16(parse_imm(t))
    [] field = "mem"    -> parses_mem_operand(t) /\ fits_simm16(parse_imm(t.imm))
    [] field = "branch" -> resolves(src, t) /\ fits_simm16(branchOffset(src, t, idx))
    [] field = "target" -> resolves(src, t) /\ fits_target(jumpTarget(src, t))

encodable(src, l, idx) ==
  /\ l.mnemonic \in Mnemonics
  /\ l.mnemonic # "nop" =>
       /\ Len(l.operands) = Len(fields(l.mnemonic))
       /\ \A k \in 1 .. Len(l.operands) : accepts(src, fields(l.mnemonic)[k], l.operands[k], idx)

(* The encoders keep the low bits of each field. *)
Nop == [mnemonic |-> "nop", rd |-> 0, rs |-> 0, rt |-> 0, shamt |-> 0, imm |-> 0, target |-> 0]
put(src, w, field, t, idx) ==
  CASE field \in {"rd", "rs", "rt"} -> [w EXCEPT ![field] = t.n]
    [] field = "shamt"  -> [w EXCEPT !.shamt = parse_imm(t) % ShamtSize]
    [] field \in {"simm", "uimm"} -> [w EXCEPT !.imm = parse_imm(t) % ImmSize]
    [] field = "mem"    -> [w EXCEPT !.imm = parse_imm(t.imm) % ImmSize, !.rs = t.reg.n]
    [] field = "branch" -> [w EXCEPT !.imm = branchOffset(src, t, idx) % ImmSize]
    [] field = "target" -> [w EXCEPT !.target = jumpTarget(src, t) % JumpSize]

encode(src, l, idx) ==
  LET fs == fields(l.mnemonic)
      w[k \in 0 .. Len(fs)] ==
        IF k = 0 THEN [Nop EXCEPT !.mnemonic = l.mnemonic]
        ELSE put(src, w[k - 1], fs[k], l.operands[k], idx)
  IN  w[Len(fs)]

(* Any error leaves no words; a source without instructions is one. *)
assemble(src) ==
  LET ls == lines(src) IN
  IF ls # <<>> /\ \A i \in 1 .. Len(ls) : encodable(src, ls[i], i - 1)
  THEN [error |-> FALSE, words |-> [i \in 1 .. Len(ls) |-> encode(src, ls[i], i - 1)]]
  ELSE [error |-> TRUE, words |-> <<>>]

-----------------------------------------------------------------------------
(* The editor: a line is typed, and the source assembled. *)

AsmInit == source = <<>> /\ assembled = assemble(<<>>)

TypeLine ==
  \E l \in SourceLines :
    /\ Len(source) < MaxLines
    /\ source' = Append(source, l)
    /\ assembled' = assemble(source')

-----------------------------------------------------------------------------
(* Properties: what a word means to the processor, against what its line   *)
(* says.                                                                   *)

instructionsBefore(src, i) == Cardinality({j \in 1 .. i - 1 : has_instruction(src[j])})

(* The first instruction at or after the last definition of a label: where *)
(* a reader expects a jump to it to go.                                    *)
InstructionAt(src, t) ==
  LET ahead == {k \in 0 .. Len(lines(src)) :
                  k = Len(lines(src)) \/ \E i \in lastDefinition(src, t) .. Len(src) :
                    has_instruction(src[i]) /\ instructionsBefore(src, i) = k}
  IN  CHOOSE k \in ahead : \A m \in ahead : k <= m

IsLabel(src, t) == t.kind = "name" /\ definitions(src, t) # {}

(* Whether immediate or target v in field field of instruction idx, as the *)
(* processor extends and uses it, is what token t says.  Numbers are       *)
(* compared modulo the width they are written for.                         *)
Says(src, field, v, t, idx) ==
  LET n == IF t.neg THEN 0 - t.n ELSE t.n IN
  CASE field \in {"shamt", "uimm"} -> (v - n) % IntSize = 0
    [] field = "simm"  -> (Signed(v, ImmSize) - n) % IntSize = 0
    [] field = "branch" -> IF parses_imm(t) THEN (Signed(v, ImmSize) - n) % IntSize = 0
                           ELSE idx + 1 + Signed(v, ImmSize) = InstructionAt(src, t)
    [] field = "target" -> IF parses_imm(t) THEN (v - n) % IntSize = 0
                           ELSE v = InstructionAt(src, t)

(* Every word says what its line says: no operand is truncated into a      *)
(* different one, registers are in their places, and one word stands for   *)
(* each line of code, in order.                                            *)
WordsSayTheirLines ==
  ~assembled.error =>
    LET ls == lines(source) IN
    /\ Len(assembled.words) = Len(ls)
    /\ \A i \in 1 .. Len(ls) :
         LET w  == assembled.words[i]
             fs == fields(ls[i].mnemonic)
         IN  /\ w.mnemonic = ls[i].mnemonic
             /\ \A k \in 1 .. Len(fs) :
                  LET t == ls[i].operands[k] IN
                  CASE fs[k] \in {"rd", "rs", "rt"} -> w[fs[k]] = t.n
                    [] fs[k] = "mem" -> w.rs = t.reg.n /\ Says(source, "simm", w.imm, t.imm, i - 1)
                    [] fs[k] = "shamt" -> Says(source, "shamt", w.shamt, t, i - 1)
                    [] fs[k] = "branch" /\ parses_imm(t) -> Says(source, "branch", w.imm, t, i - 1)
                    [] fs[k] = "target" /\ parses_imm(t) -> Says(source, "target", w.target, t, i - 1)
                    [] fs[k] \in {"simm", "uimm"} -> Says(source, fs[k], w.imm, t, i - 1)
                    [] OTHER -> TRUE

(* A branch or jump to a label reaches the first instruction at or after   *)
(* the label, wherever labels stand: before the reference, after it, alone *)
(* on a line, at the end, or defined twice.                                *)
LabelsReachTheirLine ==
  ~assembled.error =>
    LET ls == lines(source) IN
    \A i \in 1 .. Len(ls) :
      LET t == ls[i].operands[Len(ls[i].operands)] IN
      /\ ls[i].mnemonic \in kBranchMap /\ IsLabel(source, t)
           => Says(source, "branch", assembled.words[i].imm, t, i - 1)
      /\ ls[i].mnemonic \in kJumpMap /\ IsLabel(source, t)
           => Says(source, "target", assembled.words[i].target, t, i - 1)

(* Whether some immediate or target would say operand t, and registers are *)
(* registers.                                                              *)
Sayable(src, field, t, idx) ==
  CASE field \in {"rd", "rs", "rt"} -> parses_reg(t)
    [] field = "mem"    -> /\ parses_mem_operand(t)
                           /\ \E v \in 0 .. ImmSize - 1 : Says(src, "simm", v, t.imm, idx)
    [] field = "shamt"  -> /\ parses_imm(t)
                           /\ \E v \in 0 .. ShamtSize - 1 : Says(src, field, v, t, idx)
    [] field \in {"simm", "uimm"} -> /\ parses_imm(t)
                           /\ \E v \in 0 .. ImmSize - 1 : Says(src, field, v, t, idx)
    [] field = "branch" -> /\ parses_imm(t) \/ IsLabel(src, t)
                           /\ \E v \in 0 .. ImmSize - 1 : Says(src, field, v, t, idx)
    [] field = "target" -> /\ parses_imm(t) \/ IsLabel(src, t)
                           /\ \E v \in 0 .. JumpSize - 1 : Says(src, field, v, t, idx)

(* A source is only rejected for a reason: when every immediate and label  *)
(* has a value that says it, and registers and counts are right, it        *)
(* assembles.                                                              *)
RejectsOnlyTheUnsayable ==
  LET ls == lines(source) IN
  (/\ ls # <<>>
   /\ \A i \in 1 .. Len(ls) :
        LET fs == fields(ls[i].mnemonic) IN
        /\ ls[i].mnemonic \in Mnemonics
        /\ ls[i].mnemonic # "nop" => Len(ls[i].operands) = Len(fs)
        /\ \A k \in 1 .. Len(fs) : Sayable(source, fs[k], ls[i].operands[k], i - 1))
  => ~assembled.error

(* The assembler accepts what can be said, and its words say it. *)
AssemblerIsExact == WordsSayTheirLines /\ LabelsReachTheirLine /\ RejectsOnlyTheUnsayable
=============================================================================
