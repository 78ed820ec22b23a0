------------------------------ MODULE MainWindow ------------------------------
(***************************************************************************)
(* nsc::qt::MainWindow: the Widgets front end on the same controller.      *)
(* Message boxes and the schematic's context menu run a nested event loop, *)
(* so while one is open the run timer goes on firing below it.             *)
(***************************************************************************)
EXTENDS SimulatorController

CONSTANTS
  WindowSpeeds,  \* what the speed slider may be set to
  MaxTimers      \* banner timers counted at most
ASSUME WindowAssumption == WindowSpeeds \subseteq 0 .. 100 /\ MaxTimers \in Nat \ {0}

VARIABLES
  ctl,           \* the controller
  run_state,     \* the Run/Pause action reads Pause
  datapath,      \* the schematic's state_: the last snapshot it was given
  cycles_lbl,    \* the cycle count in the status bar
  stats_lbl,     \* the statistics panel
  registers,     \* the register panel: what it holds and what it has drawn
  memory,        \* the memory panel: the cycle whose memory it has copied
  assembled,     \* assembled_words_
  dialog,        \* the message box or menu that is open
  banner,        \* the colour of the status bar
  banner_timers  \* single-shot timers that will clear it

windowVars ==
  <<ctl, run_state, datapath, cycles_lbl, stats_lbl, registers, memory, assembled,
    dialog, banner, banner_timers>>

Snapshot(m) == [cycle |-> m.cycle, ps |-> m.ps]
NoDialog == [kind |-> "none"]
Dialog ==
  {NoDialog} \cup [kind : {"discard"}, program : Programs] \cup [kind : {"replace"}]
    \cup [kind : {"menu"}, pc : Pcs, stopped : BOOLEAN]
Free == dialog = NoDialog

-----------------------------------------------------------------------------
(* Slots *)

(* Mutant: a hidden panel does not note that it has missed something. *)
registersUpdateForgetful(r, c) ==
  IF r.visible THEN [r EXCEPT !.held = c.cpu.cycle, !.drawn = c.cpu.cycle, !.dirty = FALSE]
  ELSE [r EXCEPT !.held = c.cpu.cycle]

(* A hidden panel keeps its model current and draws when it is shown. *)
registersUpdate(r, c) ==
  IF r.visible THEN [r EXCEPT !.held = c.cpu.cycle, !.drawn = c.cpu.cycle, !.dirty = FALSE]
  ELSE [r EXCEPT !.held = c.cpu.cycle, !.dirty = TRUE]
registersClear(r) == [r EXCEPT !.held = 0, !.drawn = 0]

(* The memory panel copies only while it is visible. *)
memoryUpdate(m, c) == IF m.visible THEN [m EXCEPT !.shown = c.cpu.cycle] ELSE m

onPipelineStateChanged(c) ==
  /\ datapath' = Snapshot(c.cpu)
  /\ registers' = registersUpdate(registers, c)
  /\ memory' = memoryUpdate(memory, c)

(* Mutant: nothing clears the banner. *)
flashStatusBannerForGood(colour) ==
  banner' = colour /\ UNCHANGED banner_timers

(* A halt is green, a fault or a trap red, for four seconds. *)
flashStatusBanner(colour) ==
  /\ banner' = colour
  /\ banner_timers' = IF banner_timers < MaxTimers THEN banner_timers + 1 ELSE MaxTimers

(* Mutant: the slot of breakpointHit leaves the action alone. *)
runStateAfterNoBreakpoint(rs, e) ==
  IF e \in {"halted", "faulted", "exceptionRaised"} THEN FALSE ELSE rs

(* Each of the event slots calls setRunState(false). *)
runStateAfter(rs, e) == IF e = "none" THEN rs ELSE FALSE

(* A step of the controller with its signals. *)
Stepped(c, rs, o) ==
  LET e == event(c, o) IN
  /\ ctl' = doStep(c, o)
  /\ IF emitsUpdate(c, o)
     THEN /\ cycles_lbl' = ctl'.cpu.cycle
          /\ onPipelineStateChanged(ctl')
          /\ stats_lbl' = ctl'.stats
     ELSE UNCHANGED <<cycles_lbl, datapath, registers, memory, stats_lbl>>
  /\ run_state' = runStateAfter(rs, e)
  /\ IF e \in {"none", "breakpointHit"} THEN UNCHANGED <<banner, banner_timers>>
     ELSE flashStatusBanner(IF e = "halted" THEN "green" ELSE "red")
  /\ UNCHANGED <<assembled, dialog>>

-----------------------------------------------------------------------------
(* Simulation *)

OnStep ==
  /\ Free
  /\ \E o \in Outcomes : Stepped(stop(ctl), FALSE, o)

OnRunTimer ==
  /\ ctl.active
  /\ \E o \in Outcomes : Stepped(ctl, run_state, o)

OnRunPause ==
  /\ Free
  /\ ctl' = IF ctl.active THEN stop(ctl) ELSE run(ctl)
  /\ run_state' = ~ctl.active
  /\ UNCHANGED <<datapath, cycles_lbl, stats_lbl, registers, memory, assembled, dialog,
                 banner, banner_timers>>

(* Simulation > Stop. *)
OnStop ==
  /\ Free
  /\ ctl' = stop(ctl)
  /\ run_state' = FALSE
  /\ UNCHANGED <<datapath, cycles_lbl, stats_lbl, registers, memory, assembled, dialog,
                 banner, banner_timers>>

(* onReset() and then the controller c, which has just been reset or       *)
(* loaded: the signals refresh every panel, and the register panel is      *)
(* cleared before a load, which fills it with the same zeros.  The cycle   *)
(* label is only set by cycleExecuted and keeps its old number.            *)
ResetTo(c) ==
  /\ ctl' = c
  /\ run_state' = FALSE
  /\ datapath' = Snapshot(c.cpu)
  /\ registers' = registersClear(registersUpdate(registers, c))
  /\ memory' = memoryUpdate(memory, c)
  /\ stats_lbl' = c.stats
  /\ UNCHANGED <<cycles_lbl, banner, banner_timers>>

OnReset ==
  /\ Free
  /\ ResetTo(reset(stop(ctl)))
  /\ UNCHANGED <<assembled, dialog>>

(* The slider and the preferences, which move it. *)
OnSpeed ==
  /\ Free
  /\ \E s \in WindowSpeeds : ctl' = setExecutionSpeed(ctl, s)
  /\ UNCHANGED <<run_state, datapath, cycles_lbl, stats_lbl, registers, memory, assembled,
                 dialog, banner, banner_timers>>

-----------------------------------------------------------------------------
(* Programs *)

(* Mutant: a run is discarded without a question. *)
confirmNever(c) == FALSE

(* confirmDiscardCurrentRun() asks once a cycle has been executed. *)
confirmNeeded(c) == c.cpu.cycle # 0

(* Replace the machine's program, after a question when one is needed. *)
LoadOrAsk(p) ==
  IF confirmNeeded(ctl)
  THEN /\ dialog' = [kind |-> "discard", program |-> p]
       /\ UNCHANGED <<ctl, run_state, datapath, cycles_lbl, stats_lbl, registers, memory,
                      assembled, banner, banner_timers>>
  ELSE /\ ResetTo(loadProgram(reset(stop(ctl)), p))
       /\ UNCHANGED <<assembled, dialog>>

(* A file that does not parse is reported and changes nothing. *)
OnOpenFile == Free /\ \E p \in Programs : LoadOrAsk(p)

(* Source that does not assemble leaves nothing to load. *)
OnAssemble ==
  /\ Free
  /\ assembled' \in Programs \cup {NoProgram}
  /\ UNCHANGED <<ctl, run_state, datapath, cycles_lbl, stats_lbl, registers, memory, dialog,
                 banner, banner_timers>>

OnLoad == Free /\ assembled # NoProgram /\ LoadOrAsk(assembled)

(* An example goes into the editor, after a question unless it is empty. *)
OnExampleSelected ==
  /\ Free
  /\ \/ dialog' = [kind |-> "replace"] /\ UNCHANGED assembled
     \/ assembled' = NoProgram /\ UNCHANGED dialog
  /\ UNCHANGED <<ctl, run_state, datapath, cycles_lbl, stats_lbl, registers, memory,
                 banner, banner_timers>>

(* The answers.  Cancel changes nothing. *)
AnswerYes ==
  /\ dialog' = NoDialog
  /\ \/ /\ dialog.kind = "discard"
        /\ ResetTo(loadProgram(reset(stop(ctl)), dialog.program))
        /\ UNCHANGED assembled
     \/ /\ dialog.kind = "replace"
        /\ assembled' = NoProgram
        /\ UNCHANGED <<ctl, run_state, datapath, cycles_lbl, stats_lbl, registers, memory,
                       banner, banner_timers>>

Cancel ==
  /\ ~Free
  /\ dialog' = NoDialog
  /\ UNCHANGED <<ctl, run_state, datapath, cycles_lbl, stats_lbl, registers, memory,
                 assembled, banner, banner_timers>>

-----------------------------------------------------------------------------
(* Breakpoints and panels *)

(* Space or B on the selected stage. *)
OnBreakpointKey ==
  /\ Free /\ datapath.ps.stage # NoPc
  /\ ctl' = toggleBreakpoint(ctl, datapath.ps.stage)
  /\ UNCHANGED <<run_state, datapath, cycles_lbl, stats_lbl, registers, memory, assembled,
                 dialog, banner, banner_timers>>

OpenMenu ==
  /\ Free /\ datapath.ps.stage # NoPc
  /\ dialog' = [kind |-> "menu", pc |-> datapath.ps.stage, stopped |-> ~ctl.active]
  /\ UNCHANGED <<ctl, run_state, datapath, cycles_lbl, stats_lbl, registers, memory,
                 assembled, banner, banner_timers>>

(* Mutant: the address the processor fetches next. *)
menuPcIsNext(d, c) == c.cpu.pc

(* The PC is read when the item is chosen, from the stage as it is then; a *)
(* stage without an instruction has PC 0.                                  *)
menuPc(d, c) == IF d.ps.stage = NoPc THEN 0 ELSE d.ps.stage

ChooseBreakpoint ==
  /\ dialog.kind = "menu"
  /\ dialog' = NoDialog
  /\ ctl' = toggleBreakpoint(ctl, menuPc(datapath, ctl))
  /\ UNCHANGED <<run_state, datapath, cycles_lbl, stats_lbl, registers, memory, assembled,
                 banner, banner_timers>>

(* Docks are closed, and shown again: the register panel draws what it     *)
(* holds, the memory panel asks the controller.                            *)
ShowRegisters ==
  /\ Free /\ ~registers.visible
  /\ registers' = IF registers.dirty
                  THEN [registers EXCEPT !.visible = TRUE, !.dirty = FALSE, !.drawn = registers.held]
                  ELSE [registers EXCEPT !.visible = TRUE]
  /\ UNCHANGED <<ctl, run_state, datapath, cycles_lbl, stats_lbl, memory, assembled, dialog,
                 banner, banner_timers>>
ShowMemory ==
  /\ Free /\ ~memory.visible
  /\ memory' = [visible |-> TRUE, shown |-> ctl.cpu.cycle]
  /\ UNCHANGED <<ctl, run_state, datapath, cycles_lbl, stats_lbl, registers, assembled,
                 dialog, banner, banner_timers>>
HidePanel ==
  /\ Free
  /\ \/ registers.visible /\ registers' = [registers EXCEPT !.visible = FALSE] /\ UNCHANGED memory
     \/ memory.visible /\ memory' = [memory EXCEPT !.visible = FALSE] /\ UNCHANGED registers
  /\ UNCHANGED <<ctl, run_state, datapath, cycles_lbl, stats_lbl, assembled, dialog,
                 banner, banner_timers>>

BannerTimeout ==
  /\ banner_timers > 0
  /\ banner_timers' = banner_timers - 1
  /\ banner' = "none"
  /\ UNCHANGED <<ctl, run_state, datapath, cycles_lbl, stats_lbl, registers, memory,
                 assembled, dialog>>

WindowInit ==
  /\ \E s \in WindowSpeeds : ctl = setExecutionSpeed(NewController, s)
  /\ run_state = FALSE
  /\ datapath = Snapshot(PoweredOn) /\ cycles_lbl = 0 /\ stats_lbl = NoStatistics
  /\ registers = [visible |-> TRUE, dirty |-> FALSE, held |-> 0, drawn |-> 0]
  /\ memory = [visible |-> TRUE, shown |-> 0]
  /\ assembled = NoProgram /\ dialog = NoDialog
  /\ banner = "none" /\ banner_timers = 0

WindowNext ==
  \/ OnStep \/ OnRunTimer \/ OnRunPause \/ OnStop \/ OnReset \/ OnSpeed
  \/ OnOpenFile \/ OnAssemble \/ OnLoad \/ OnExampleSelected \/ AnswerYes \/ Cancel
  \/ OnBreakpointKey \/ OpenMenu \/ ChooseBreakpoint
  \/ ShowRegisters \/ ShowMemory \/ HidePanel \/ BannerTimeout

WindowSpec == WindowInit /\ [][WindowNext]_windowVars

-----------------------------------------------------------------------------
(* Properties *)

(* Type correctness. *)
WindowTypeOK ==
  /\ ctl \in Controller
  /\ run_state \in BOOLEAN
  /\ datapath \in [cycle : Cycle, ps : PipelineState]
  /\ cycles_lbl \in Cycle
  /\ stats_lbl \in Statistics
  /\ registers \in [visible : BOOLEAN, dirty : BOOLEAN, held : Cycle, drawn : Cycle]
  /\ memory \in [visible : BOOLEAN, shown : Cycle]
  /\ assembled \in Programs \cup {NoProgram}
  /\ dialog \in Dialog
  /\ banner \in {"none", "green", "red"}
  /\ banner_timers \in 0 .. MaxTimers

(* The Run/Pause action always offers the right one, also when the run     *)
(* ends below an open message box.                                         *)
RunButtonTellsRunning == run_state <=> ctl.active

(* Loading or opening a program never discards a run in progress without a *)
(* question the user has answered with Yes; until then the machine keeps   *)
(* its program.                                                            *)
LoadAsksFirst ==
  [][ctl.cpu.cycle # 0 /\ ctl'.loaded # ctl.loaded => dialog.kind = "discard"]_windowVars

(* What stops the machine is shown: whenever it has moved and is not       *)
(* running, the schematic, the statistics, the register and memory panels  *)
(* in view and, after a step, the cycle label are those of the machine.    *)
StopIsShown ==
  [][ctl'.cpu # ctl.cpu /\ ~ctl'.active =>
       /\ datapath' = Snapshot(ctl'.cpu) /\ stats_lbl' = ctl'.stats
       /\ registers'.held = ctl'.cpu.cycle
       /\ memory'.visible => memory'.shown = ctl'.cpu.cycle
       /\ ctl'.cpu.cycle # 0 => cycles_lbl' = ctl'.cpu.cycle]_windowVars

(* A panel in view shows what it would show had it never been hidden: the  *)
(* register panel draws what it holds, and the memory panel is as current  *)
(* as the schematic.                                                       *)
PanelsInViewAreCurrent ==
  /\ registers.visible => registers.drawn = registers.held
  /\ memory.visible /\ datapath = Snapshot(ctl.cpu) => memory.shown = ctl.cpu.cycle

(* A coloured status bar has a timer that will clear it. *)
BannerWillClear == banner # "none" => banner_timers > 0

(* The context menu of a stopped machine toggles the breakpoint of the     *)
(* instruction it was opened on.  (Below a running machine the stage moves *)
(* on, and the menu toggles the instruction that is there when chosen.)    *)
MenuTogglesItsInstruction ==
  [][dialog.kind = "menu" /\ dialog.stopped /\ ctl'.breakpoints # ctl.breakpoints
       => ctl' = toggleBreakpoint(ctl, dialog.pc)]_windowVars

(* What a dialog does when it is answered is what it was opened for,       *)
(* whatever the run timer has done below it: a load asks first, and the    *)
(* menu of a stopped machine toggles its instruction.                      *)
DialogsDoAsAsked == LoadAsksFirst /\ MenuTogglesItsInstruction

(* Types, the Run/Pause action, the panels and the status bar, together. *)
WindowInv ==
  WindowTypeOK /\ RunButtonTellsRunning /\ PanelsInViewAreCurrent /\ BannerWillClear
=============================================================================
