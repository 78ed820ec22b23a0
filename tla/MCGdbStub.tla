----------------------------- MODULE MCGdbStub -----------------------------
(***************************************************************************)
(* GdbStub on a program that loads and stores its data word 4, traps on a  *)
(* SYSCALL and halts at 24, with breakpoints on its second word, on the    *)
(* data word, on an unaligned and on an unmapped address.  One M packet    *)
(* rewrites the second word, the other runs off the end of the memory.     *)
(***************************************************************************)
EXTENDS GdbStub, MCCode

MCImages ==
  {[pc |-> 8, regs |-> ZeroRegs, cp0 |-> PowerOnCp0,
    mem |-> load_words(ZeroMemory, 8, <<1, 6, 7, 19, 12>>)]}
MCResumeAddrs == {NoAddr, 24}
MCRegWrites == {[n |-> 32, v |-> 0], [n |-> 37, v |-> 8]}
MCRegBlocks == {<<0, 4>>}
MCMemWrites ==
  {[addr |-> 12, len |-> 4, bytes |-> <<1, 1, 0, 0>>],
   [addr |-> 30, len |-> 4, bytes |-> <<0, 0, 0, 0>>]}
=============================================================================
