----------------------------- MODULE MCToolchain -----------------------------
(***************************************************************************)
(* Small fields: immediates of 2 bits, integers of 4, values of 5, words   *)
(* of 3, radices 3, 4 and 2, so that every range check and every overflow  *)
(* has inputs on both sides.                                               *)
(***************************************************************************)
EXTENDS Toolchain

L1 == Name(1)
(* A label that looks like a number. *)
L2 == Num(FALSE, FALSE, 1)

(* Every instruction format with operands on both sides of its checks. *)
MCSourceLines ==
  {SourceLine(L1, NoInstruction, <<>>), SourceLine(L1, "nop", <<>>),
   SourceLine(L2, "add", <<Reg(1), Reg(2), Reg(3)>>),
   SourceLine(NoLabel, NoInstruction, <<>>),
   SourceLine(NoLabel, "jalr", <<Reg(2), Reg(1)>>),
   SourceLine(NoLabel, "jr", <<Reg(4)>>),
   SourceLine(NoLabel, "sllv", <<Reg(1), Reg(2), Reg(3)>>),
   SourceLine(NoLabel, "sll", <<Reg(1), Reg(2), Num(FALSE, TRUE, 3)>>),
   SourceLine(NoLabel, "srl", <<Reg(1), Reg(2), Num(TRUE, TRUE, 15)>>),
   SourceLine(NoLabel, "addi", <<Reg(1), Reg(2), Num(FALSE, TRUE, 15)>>),
   SourceLine(NoLabel, "addi", <<Reg(1), Reg(2), Num(FALSE, FALSE, 2)>>),
   SourceLine(NoLabel, "andi", <<Reg(1), Reg(2), Num(TRUE, TRUE, 14)>>),
   SourceLine(NoLabel, "lui", <<Reg(1), Num(FALSE, FALSE, 3)>>),
   SourceLine(NoLabel, "lw", <<Reg(1), MemOp(Num(TRUE, FALSE, 2), Reg(2))>>),
   SourceLine(NoLabel, "beq", <<Reg(1), Reg(2), L1>>),
   SourceLine(NoLabel, "bne", <<Reg(1), Reg(2), L2>>),
   SourceLine(NoLabel, "j", <<L1>>), SourceLine(NoLabel, "jal", <<Num(FALSE, FALSE, 9)>>)}

Phdr(load, offset, vaddr, filesz, memsz) ==
  [load |-> load, offset |-> offset, vaddr |-> vaddr, filesz |-> filesz, memsz |-> memsz]
MCPhdrs ==
  {Phdr(TRUE, o, a, n, m) : o \in {1, 4}, a \in {0, 2, 7}, n \in 0 .. 2, m \in {0, 2}}
    \cup {Phdr(FALSE, 1, 0, 2, 2)}
MCFirstPhdrs == {Phdr(TRUE, 2, 0, 1, 3), Phdr(TRUE, 1, 2, 1, 2), Phdr(TRUE, 3, 3, 1, 2)}
ElfOf(ident, phoff, phentsize, phdrs, size) ==
  [ident |-> ident, phoff |-> phoff, phnum |-> Len(phdrs), phentsize |-> phentsize,
   phdrs |-> phdrs, entry |-> 2, size |-> size]
MCFiles ==
  {ElfOf("good", 1, 1, <<h>>, 5) : h \in MCPhdrs}
    \cup {ElfOf("good", 1, 1, <<h, k>>, 5) : h \in MCFirstPhdrs, k \in MCPhdrs}
    \cup {ElfOf(i, o, s, ps, z) :
            i \in {"good", "magic"}, o \in {0, 1}, s \in {1, 2},
            ps \in {<<>>, <<Phdr(TRUE, 1, 0, 1, 2), Phdr(TRUE, 1, 1, 2, 2)>>}, z \in {2, 3}}

MCRadix == [dec |-> 3, hex |-> 4, bin |-> 2]
MCTexts ==
  {<<>>, <<NotADigit>>, <<1, NotADigit>>, <<0, 0, 1>>, <<1, 0, 1, 1, 0>>, <<3, 3, 3>>,
   <<1, 0, 0, 0, 0, 1>>}
    \cup {<<a>> : a \in 0 .. 3} \cup {<<a, b>> : a \in 1 .. 3, b \in {0, 1, 3}}
MCHexTexts ==
  {[prefix |-> p, digits |-> d] :
     p \in BOOLEAN, d \in {<<>>, <<3>>, <<1, 3>>, <<2, 0>>, <<0, 0, 3>>, <<1, NotADigit>>}}
=============================================================================
