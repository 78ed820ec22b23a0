------------------------------ MODULE GdbStub ------------------------------
(***************************************************************************)
(* GdbStub: debugger sessions over a SingleCycleCpu, the CPU of the host   *)
(* program in the wiki and of the tests.  One action is one packet that    *)
(* serve() dispatches, or one turn of the loop in handle_continue().       *)
(* Framing, the receive buffer and Ctrl-C are in GdbInput; here a packet   *)
(* is its parsed content.  Packets that only read the target, and          *)
(* last_result_, which only selects the signal of a stop reply, are left   *)
(* out.                                                                    *)
(***************************************************************************)
EXTENDS MipsExec

CONSTANTS
  kBreakWord,    \* the BREAK instruction
  Images,        \* architectural states the host program may serve
  BpAddrs,       \* addresses of Z0 and z0 packets
  ResumeAddrs,   \* addresses of c and s packets
  RegWrites,     \* P packets: [n, v]
  RegBlocks,     \* G packets: the values in front of the first malformed one
  MemWrites      \* M packets: [addr, len, bytes], bytes up to the first malformed one

kNumRegs == 38
NoAddr   == -1

ASSUME GdbAssumption ==
  /\ kBreakWord \in Word /\ decodes(kBreakWord)
  /\ Fields[kBreakWord].opcode = "SPECIAL" /\ Fields[kBreakWord].funct = "BREAK"
  /\ Images \subseteq ArchState
  /\ BpAddrs \subseteq Word
  /\ ResumeAddrs \subseteq Word \cup {NoAddr}
  /\ RegWrites \subseteq [n : 0 .. kNumRegs - 1, v : Word]
  /\ RegBlocks \subseteq Seq(Word)
  /\ \A w \in MemWrites : w.addr \in Word /\ w.len \in Nat /\ w.bytes \in Seq(Byte)

VARIABLES
  cpu,           \* cpu_: an ArchState
  breakpoints,   \* breakpoints_: address -> saved_word
  state          \* waiting for a packet, in handle_continue, or ended

vars == <<cpu, breakpoints, state>>

-----------------------------------------------------------------------------
(* Registers and memory *)

(* BadVAddr (35) is read-only. *)
write_gdb_reg(a, n, v) ==
  CASE n \in RegIdx -> [a EXCEPT !.regs = reg_write(a.regs, n, v)]
    [] n = 32       -> [a EXCEPT !.cp0 = cp0_write(a.cp0, kRegStatus, v)]
    [] n = 36       -> [a EXCEPT !.cp0 = cp0_write(a.cp0, kRegCause, v)]
    [] n = 37       -> [a EXCEPT !.pc = v]
    [] OTHER        -> a

handle_write_reg(w) ==
  /\ state = "stopped"
  /\ cpu' = write_gdb_reg(cpu, w.n, w.v)
  /\ UNCHANGED <<breakpoints, state>>

(* A malformed value ends the loop after the registers before it have been *)
(* written.                                                                *)
write_gdb_regs(a, values) ==
  [a EXCEPT
     !.regs = [i \in RegIdx |-> IF i \in 1 .. Len(values) - 1 THEN values[i + 1] ELSE @[i]],
     !.cp0.status = IF 33 <= Len(values) THEN values[33] ELSE @,
     !.cp0.cause  = IF 37 <= Len(values) THEN values[37] ELSE @,
     !.pc         = IF 38 <= Len(values) THEN values[38] ELSE @]

handle_write_regs(values) ==
  /\ state = "stopped"
  /\ cpu' = write_gdb_regs(cpu, values)
  /\ UNCHANGED <<breakpoints, state>>

(* How many bytes of an M packet are written: up to a malformed byte or an *)
(* address outside the memory.                                             *)
Written(w) ==
  LET fits(k) == k <= Len(w.bytes) /\ \A i \in 0 .. k - 1 :
                                        in_bounds((w.addr + i) % WordSize, 1)
  IN  CHOOSE k \in 0 .. w.len : fits(k) /\ \A j \in 0 .. w.len : fits(j) => j <= k

handle_write_mem(w) ==
  /\ state = "stopped"
  /\ cpu' = [cpu EXCEPT !.mem =
               [i \in DOMAIN @ |-> IF i \in w.addr .. w.addr + Written(w) - 1
                                   THEN w.bytes[i - w.addr + 1] ELSE @[i]]]
  /\ UNCHANGED <<breakpoints, state>>

-----------------------------------------------------------------------------
(* Software breakpoints *)

Insert(addr) ==
  /\ breakpoints' = [a \in DOMAIN breakpoints \cup {addr} |->
                       IF a = addr THEN read_word(cpu.mem, addr) ELSE breakpoints[a]]
  /\ cpu' = [cpu EXCEPT !.mem = write_word(@, addr, kBreakWord)]

(* Mutant: a breakpoint is inserted twice. *)
insert_breakpoint_twice(addr) ==
  IF word_ok(addr) THEN Insert(addr) ELSE UNCHANGED <<cpu, breakpoints>>

(* Mutant: only the bounds of the address are checked. *)
insert_breakpoint_unaligned(addr) ==
  IF addr \notin DOMAIN breakpoints /\ in_bounds(addr, 4) THEN Insert(addr)
  ELSE UNCHANGED <<cpu, breakpoints>>

(* A second Z0 on an address is answered OK and changes nothing; an        *)
(* unaligned or unmapped address is an error.                              *)
insert_breakpoint(addr) ==
  IF addr \notin DOMAIN breakpoints /\ word_ok(addr) THEN Insert(addr)
  ELSE UNCHANGED <<cpu, breakpoints>>

remove_breakpoint(addr) ==
  IF addr \in DOMAIN breakpoints
  THEN /\ cpu' = [cpu EXCEPT !.mem = write_word(@, addr, breakpoints[addr])]
       /\ breakpoints' = [a \in DOMAIN breakpoints \ {addr} |-> breakpoints[a]]
  ELSE UNCHANGED <<cpu, breakpoints>>

handle_breakpoint_set(addr) ==
  /\ state = "stopped"
  /\ insert_breakpoint(addr)
  /\ UNCHANGED state

handle_breakpoint_clear(addr) ==
  /\ state = "stopped"
  /\ remove_breakpoint(addr)
  /\ UNCHANGED state

-----------------------------------------------------------------------------
(* Step and continue *)

(* The address of a c or s packet moves the PC. *)
Resumed(addr) == IF addr = NoAddr THEN cpu ELSE [cpu EXCEPT !.pc = addr]

(* Mutant: the PC is left at the exception vector. *)
StoppedAtVector(o) == o.arch

(* Mutant: the PC is put on the EPC after a halt too. *)
StoppedAtEpcOnHalt(o) == IF o.result = "Ok" THEN o.arch ELSE [o.arch EXCEPT !.pc = o.arch.cp0.epc]

(* The target after a step() with outcome o: the PC of a trap is put back  *)
(* on the EPC.                                                             *)
Stopped(o) ==
  IF o.result = "Exception" THEN [o.arch EXCEPT !.pc = o.arch.cp0.epc] ELSE o.arch

handle_step(addr) ==
  LET o == step(Resumed(addr)) IN
  /\ state = "stopped"
  /\ cpu' = Stopped(o)
  /\ UNCHANGED <<breakpoints, state>>

handle_continue(addr) ==
  /\ state = "stopped"
  /\ state' = "running"
  /\ cpu' = Resumed(addr)
  /\ UNCHANGED breakpoints

RunStep ==
  LET o == step(cpu) IN
  /\ state = "running"
  /\ cpu' = Stopped(o)
  /\ state' = IF o.result = "Ok" THEN "running" ELSE "stopped"
  /\ UNCHANGED breakpoints

(* poll_input() reports a Ctrl-C, or that GDB has gone.  The target may    *)
(* have run for any number of instructions by then.                        *)
RunInterrupted ==
  /\ state = "running"
  /\ state' = "stopped"
  /\ UNCHANGED <<cpu, breakpoints>>

(* k, D or a lost connection; breakpoints stay where they are. *)
EndSession ==
  /\ state = "stopped"
  /\ state' = "ended"
  /\ UNCHANGED <<cpu, breakpoints>>

(* The host program calls listen() again on the same stub. *)
Listen ==
  /\ state = "ended"
  /\ state' = "stopped"
  /\ UNCHANGED <<cpu, breakpoints>>

Init ==
  /\ cpu \in Images
  /\ breakpoints = [a \in {} |-> 0]
  /\ state = "stopped"

Next ==
  \/ \E w \in RegWrites : handle_write_reg(w)
  \/ \E values \in RegBlocks : handle_write_regs(values)
  \/ \E w \in MemWrites : handle_write_mem(w)
  \/ \E addr \in BpAddrs : handle_breakpoint_set(addr) \/ handle_breakpoint_clear(addr)
  \/ \E addr \in ResumeAddrs : handle_step(addr) \/ handle_continue(addr)
  \/ RunStep
  \/ RunInterrupted
  \/ EndSession
  \/ Listen

Spec == Init /\ [][Next]_vars

-----------------------------------------------------------------------------
(* Properties *)

(* Type correctness; a breakpoint is always on an aligned, mapped word. *)
TypeOK ==
  /\ cpu \in ArchState
  /\ DOMAIN breakpoints \subseteq {a \in Word : word_ok(a)}
  /\ \A a \in DOMAIN breakpoints : breakpoints[a] \in Word
  /\ state \in {"stopped", "running", "ended"}

(* The program being debugged: the memory with every breakpoint taken out. *)
UserMem ==
  [i \in DOMAIN cpu.mem |->
     IF i - (i % 4) \in DOMAIN breakpoints THEN byte_of(breakpoints[i - (i % 4)], i % 4)
     ELSE cpu.mem[i]]

(* Z0 and z0 packets, in any order, repeated, on any address and between   *)
(* any other packets and sessions, never change the program: a BREAK is    *)
(* never saved as if it were an instruction, and removal restores exactly  *)
(* what the program had.                                                   *)
BreakpointsLeaveProgram ==
  [][\A addr \in BpAddrs :
       handle_breakpoint_set(addr) \/ handle_breakpoint_clear(addr) => UserMem' = UserMem]_vars

(* The word at the PC loads from or stores to a word with a breakpoint. *)
TouchesBreakpoint(a) ==
  /\ word_ok(a.pc)
  /\ LET d  == decode(read_word(a.mem, a.pc))
         ea == (reg_read(a.regs, d.rs) + sign_extend(d.imm)) % WordSize
     IN  /\ d.opcode \in Loads \cup {"SW"}
         /\ ea - (ea % 4) \in DOMAIN breakpoints

(* What a step from a is to do to the program being debugged. *)
StepsProgram(a) ==
  \A o \in {step([a EXCEPT !.mem = UserMem])} :
    a.pc \notin DOMAIN breakpoints /\ ~TouchesBreakpoint(a) =>
      /\ cpu'.regs = o.arch.regs
      /\ UserMem' = o.arch.mem
      /\ o.result # "Exception" => cpu'.pc = o.arch.pc

(* step() was called on a, and trapped. *)
StepStates == {cpu} \cup {Resumed(addr) : addr \in ResumeAddrs}
TrapsFrom(a) ==
  /\ step(a).result = "Exception"
  /\ \/ a = cpu /\ RunStep
     \/ \E addr \in ResumeAddrs : a = Resumed(addr) /\ handle_step(addr)

(* Away from a breakpoint, c and s execute the program being debugged: the *)
(* registers, its memory and the PC become what they would without the     *)
(* debugger, unless the instruction itself reads or writes a word that     *)
(* holds a breakpoint.  The first trap of a program that is not in a       *)
(* handler, a breakpoint's too, is reported with the PC on the instruction *)
(* that trapped, and memory and registers as they were before it.          *)
DebuggerIsTransparent ==
  [][/\ RunStep => StepsProgram(cpu)
     /\ \A addr \in ResumeAddrs : handle_step(addr) => StepsProgram(Resumed(addr))
     /\ \A a \in StepStates : TrapsFrom(a) /\ ~in_exception(a.cp0) =>
          cpu'.pc = a.pc /\ cpu'.regs = a.regs /\ cpu'.mem = a.mem]_vars

(* GDB-Stub wiki: the stub sets the PC back to EPC after each exception,   *)
(* so GDB sees the instruction that trapped.                               *)
StopIsAtFault ==
  [][\A a \in StepStates : TrapsFrom(a) => cpu'.pc = a.pc]_vars
=============================================================================
