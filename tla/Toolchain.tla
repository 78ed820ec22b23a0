------------------------------ MODULE Toolchain ------------------------------
(***************************************************************************)
(* What turns text and files into numbers, words and memory: the           *)
(* assembler, the ELF loader, the number converter and the parser of hex   *)
(* programs.  They share no state; a behaviour uses one of them.           *)
(***************************************************************************)
EXTENDS Assembler, ElfLoader, NumberViews

VARIABLE tool
toolVars == <<tool, source, assembled, elf_mem, elf_pc, before, image, elf_file, segment,
              off, phase, loads, value, texts, grouped, hex_lines, hex_program>>

ToolInit ==
  /\ tool \in {"assembler", "elf", "converter", "hex"}
  /\ AsmInit /\ ElfInit /\ NumberInit

ToolNext ==
  /\ UNCHANGED tool
  /\ \/ tool = "assembler" /\ TypeLine /\ UNCHANGED elfVars /\ UNCHANGED numberVars
     \/ tool = "elf" /\ ElfNext /\ UNCHANGED asmVars /\ UNCHANGED numberVars
     \/ tool = "converter" /\ EditField /\ UNCHANGED asmVars /\ UNCHANGED elfVars
     \/ tool = "hex" /\ AddHexLine /\ UNCHANGED asmVars /\ UNCHANGED elfVars

ToolSpec == ToolInit /\ [][ToolNext]_toolVars
=============================================================================
