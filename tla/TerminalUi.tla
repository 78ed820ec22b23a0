------------------------------ MODULE TerminalUi ------------------------------
(***************************************************************************)
(* nsc::run_app: the terminal front end.  The UI thread runs the event     *)
(* loop and is the only one to touch the processor; a ticker thread sleeps *)
(* and posts Event::Custom, on which the UI thread steps when auto-run is  *)
(* on.  The two share auto_run and app_live, both atomic.  (They also      *)
(* share speed_ms and anim_frame, plain integers that only set the pace    *)
(* and the spinner.)                                                       *)
(***************************************************************************)
EXTENDS Processor, Sequences

CONSTANTS
  TraceLength,   \* entries of the execution trace: 8 in the code
  RunBudget,     \* kRunBudget, the steps of Run-to-halt
  MaxCycles,     \* bound: cycles since the last reset
  MaxPending,    \* bound: Custom events waiting in the screen's queue
  IdlePeriod,    \* while paused, one tick in so many repaints: 6 in the code
  Page,          \* bytes the memory view moves by: 32 in the code
  AddressSpace   \* addresses are modulo this
ASSUME TerminalAssumption ==
  /\ {TraceLength, RunBudget, MaxCycles, MaxPending, IdlePeriod, Page} \subseteq Nat \ {0}
  /\ MaxCycles < CycleWidth
  /\ AddressSpace \in Nat /\ AddressSpace > Page /\ AddressSpace % Page = 0
  /\ Pcs \subseteq 0 .. AddressSpace - 1

VARIABLES
  cpu,
  loaded_program, loader_ok,
  tel,           \* tel_cycles, tel_stalls, tel_forwards, tel_flushes, tel_retired
  exec_trace,    \* the cycles whose instruction it lists
  mem_base,      \* the first address of the memory view
  tab,           \* tab_idx
  auto_run, app_live,
  pending,       \* Custom events posted and not yet handled
  ticker,        \* where the ticker thread is
  idle_tick,
  ui             \* where the UI thread is: in Loop(), after it, at join(), returned

machineVars == <<cpu, loaded_program, loader_ok, tel, exec_trace, mem_base>>
tickerVars == <<ticker, idle_tick>>
uiVars == <<cpu, loaded_program, loader_ok, tel, exec_trace, mem_base, tab, auto_run, app_live,
            pending, ticker, idle_tick, ui>>

Telemetry ==
  [cycles : Nat, stalls : Nat, forwards : Nat, flushes : Nat, retired : Nat]
NoTelemetry ==
  [cycles |-> 0, stalls |-> 0, forwards |-> 0, flushes |-> 0, retired |-> 0]

-----------------------------------------------------------------------------
(* What has focus *)

(* Mutant: no children for the last two tabs. *)
tab_children_four == <<"converter", "dashboard", "config", "loader">>

(* One child per tab; the last two tabs have nothing to focus. *)
tab_children == <<"converter", "dashboard", "config", "loader", "none", "none">>
Tabs == 0 .. 5

(* Container::Tab. *)
focused == tab_children[(tab % Len(tab_children)) + 1]

-----------------------------------------------------------------------------
(* The UI thread *)

(* Mutant: the trace is kept. *)
reset_tel_keeps_trace == tel' = NoTelemetry /\ UNCHANGED exec_trace

reset_tel == tel' = NoTelemetry /\ exec_trace' = <<>>

Count(b) == IF b THEN 1 ELSE 0

(* The trace takes the instruction of WB, in the single-cycle CPU that of  *)
(* EX, when there is one.                                                  *)
do_step ==
  \E o \in Outcomes :
    /\ cpu.cycle < MaxCycles
    /\ cpu' = step(cpu, o)
    /\ tel' = [cycles   |-> tel.cycles + 1,
               stalls   |-> tel.stalls + Count(o.ps.load_stall),
               forwards |-> tel.forwards + Count(o.ps.forwards),
               flushes  |-> tel.flushes + Count(o.ps.branch_flush),
               retired  |-> tel.retired + Count(o.ps.retired)]
    /\ exec_trace' =
         IF o.ps.stage = NoPc THEN exec_trace
         ELSE LET t == Append(exec_trace, cpu'.cycle)
              IN  IF Len(t) > TraceLength THEN Tail(t) ELSE t
    /\ auto_run' = (auto_run /\ o.result = "Ok")
    /\ UNCHANGED <<loaded_program, loader_ok, mem_base>>

(* Empty the CPU and load the program again. *)
restore_program == load_program(PoweredOn, loaded_program)

(* The Step button and F10. *)
Step ==
  /\ ui = "loop" /\ focused = "dashboard"
  /\ do_step
  /\ UNCHANGED <<tab, app_live, pending, tickerVars, ui>>

ToggleAuto ==
  /\ ui = "loop" /\ focused = "dashboard"
  /\ auto_run' = ~auto_run
  /\ UNCHANGED <<machineVars, tab, app_live, pending, tickerVars, ui>>

(* Mutant: the cycle count is not brought up to date. *)
RunTelemetryStale == tel

(* Of the telemetry only the cycle count follows a run to halt. *)
RunTelemetry == [tel EXCEPT !.cycles = cpu'.cycle]

RunToHalt ==
  /\ ui = "loop" /\ focused = "dashboard"
  /\ auto_run' = FALSE
  /\ \E o \in Outcomes, n \in 1 .. RunBudget :
       /\ cpu.cycle + n <= MaxCycles
       /\ RunEnds(o, n, RunBudget)
       /\ cpu' = run_for(cpu, o, n)
  /\ tel' = RunTelemetry
  /\ exec_trace' = <<>>
  /\ UNCHANGED <<loaded_program, loader_ok, mem_base, tab, app_live, pending, tickerVars, ui>>

ResetCpu ==
  /\ ui = "loop" /\ focused = "dashboard"
  /\ auto_run' = FALSE
  /\ cpu' = restore_program
  /\ reset_tel /\ mem_base' = 0
  /\ UNCHANGED <<loaded_program, loader_ok, tab, app_live, pending, tickerVars, ui>>

(* Mutant: the new model starts empty. *)
AppliedCpuEmpty == PoweredOn

(* A new CPU of the selected model, with the loaded program. *)
AppliedCpu == restore_program

Apply ==
  /\ ui = "loop" /\ focused = "config"
  /\ auto_run' = FALSE
  /\ cpu' = AppliedCpu
  /\ reset_tel /\ mem_base' = 0
  /\ UNCHANGED <<loaded_program, loader_ok, tab, app_live, pending, tickerVars, ui>>

(* A file that cannot be read or parsed (NoProgram) or does not fit leaves *)
(* the CPU empty and nothing to restore.                                   *)
Load ==
  /\ ui = "loop" /\ focused = "loader"
  /\ auto_run' = FALSE
  /\ \E p \in Programs \cup {NoProgram} :
       /\ cpu' = load_program(PoweredOn, p)
       /\ loaded_program' = IF p \in Fits THEN p ELSE NoProgram
       /\ loader_ok' = (p \in Fits)
  /\ reset_tel /\ mem_base' = 0
  /\ UNCHANGED <<tab, app_live, pending, tickerVars, ui>>

(* Mutant: Home goes to the PC itself. *)
homeAtPc(m) == m.pc

home(m) == m.pc - (m.pc % Page)

(* PageUp, PageDown and Home. *)
MoveMemory ==
  /\ ui = "loop" /\ tab = 1
  /\ mem_base' \in {IF mem_base >= Page THEN mem_base - Page ELSE 0,
                    (mem_base + Page) % AddressSpace, home(cpu)}
  /\ UNCHANGED <<cpu, loaded_program, loader_ok, tel, exec_trace, tab, auto_run, app_live,
                 pending, tickerVars, ui>>

SelectTab ==
  /\ ui = "loop"
  /\ tab' \in Tabs \ {tab}
  /\ UNCHANGED <<machineVars, auto_run, app_live, pending, tickerVars, ui>>

(* Mutant: the handler takes the ticker's word for it that auto-run is on. *)
stepsOnCustomAlways(on) == TRUE

(* auto_run is read again when the event is handled. *)
stepsOnCustom(on) == on

HandleCustom ==
  /\ ui = "loop" /\ pending > 0
  /\ pending' = pending - 1
  /\ IF stepsOnCustom(auto_run) /\ cpu.cycle < MaxCycles THEN do_step
     ELSE UNCHANGED <<machineVars, auto_run>>
  /\ UNCHANGED <<tab, app_live, tickerVars, ui>>

(* Escape or Ctrl-C: Loop() returns. *)
Exit ==
  /\ ui = "loop"
  /\ ui' = "left"
  /\ UNCHANGED <<machineVars, tab, auto_run, app_live, pending, tickerVars>>

(* Mutant: app_live is left on. *)
ShutDownOnlyAuto ==
  /\ ui = "left"
  /\ auto_run' = FALSE
  /\ ui' = "join"
  /\ UNCHANGED <<machineVars, tab, app_live, pending, tickerVars>>

ShutDown ==
  /\ ui = "left"
  /\ app_live' = FALSE /\ auto_run' = FALSE
  /\ ui' = "join"
  /\ UNCHANGED <<machineVars, tab, pending, tickerVars>>

(* Mutant: the thread is not waited for. *)
joinedAtOnce == TRUE

(* ticker.join(). *)
joined == ticker = "ended"

(* run_app() returns and destroys the screen with what it has queued. *)
Join ==
  /\ ui = "join" /\ joined
  /\ ui' = "returned"
  /\ UNCHANGED <<machineVars, tab, auto_run, app_live, pending, tickerVars>>

-----------------------------------------------------------------------------
(* The ticker thread *)

TickerLoop ==
  /\ ticker = "test"
  /\ ticker' = IF app_live THEN "sleep" ELSE "ended"
  /\ UNCHANGED <<machineVars, tab, auto_run, app_live, pending, idle_tick, ui>>

(* Mutant: only the idle ticks are posted. *)
postsWhenIdle(on, i) == ~on /\ i = 0

postsAfter(on, i) == on \/ i = 0

(* The ticker wakes up and decides whether to post; ++idle_tick only when  *)
(* auto-run is off.                                                        *)
Wake ==
  /\ ticker = "sleep"
  /\ LET i == IF auto_run THEN idle_tick ELSE (idle_tick + 1) % IdlePeriod IN
     /\ idle_tick' = i
     /\ ticker' = IF postsAfter(auto_run, i) THEN "post" ELSE "test"
  /\ UNCHANGED <<machineVars, tab, auto_run, app_live, pending, ui>>

(* PostEvent() never blocks; the bound only limits what is explored. *)
PostEvent ==
  /\ ticker = "post"
  /\ pending < MaxPending \/ ui # "loop"
  /\ pending' = IF pending < MaxPending THEN pending + 1 ELSE pending
  /\ ticker' = "test"
  /\ UNCHANGED <<machineVars, tab, auto_run, app_live, idle_tick, ui>>

-----------------------------------------------------------------------------
UiInit ==
  /\ cpu = PoweredOn /\ loaded_program = NoProgram /\ loader_ok = FALSE
  /\ tel = NoTelemetry /\ exec_trace = <<>> /\ mem_base = 0
  /\ tab = 0 /\ auto_run = FALSE /\ app_live = TRUE
  /\ pending = 0 /\ ticker = "test" /\ idle_tick = 0 /\ ui = "loop"

Ticker == TickerLoop \/ Wake \/ PostEvent
User ==
  \/ Step \/ ToggleAuto \/ RunToHalt \/ ResetCpu \/ Apply \/ Load \/ MoveMemory
  \/ SelectTab \/ Exit
UiNext == User \/ HandleCustom \/ ShutDown \/ Join \/ Ticker

UiSpec == UiInit /\ [][UiNext]_uiVars

(* The scheduler runs both threads: the ticker's sleep is at most a        *)
(* second, and the event loop takes events from its queue until it is left *)
(* and then goes on to join().  What the user does is not fair.            *)
UiFairSpec ==
  UiSpec /\ WF_uiVars(Ticker) /\ WF_uiVars(HandleCustom) /\ WF_uiVars(ShutDown \/ Join)

-----------------------------------------------------------------------------
(* Properties *)

(* Type correctness; the memory view starts at a whole page. *)
UiTypeOK ==
  /\ cpu \in Machine
  /\ loaded_program \in Fits \cup {NoProgram} /\ loader_ok \in BOOLEAN
  /\ tel \in Telemetry
  /\ \A i \in 1 .. Len(exec_trace) : exec_trace[i] \in Nat
  /\ Len(exec_trace) <= TraceLength
  /\ mem_base \in 0 .. AddressSpace - 1 /\ mem_base % Page = 0
  /\ tab \in Tabs
  /\ auto_run \in BOOLEAN /\ app_live \in BOOLEAN
  /\ pending \in 0 .. MaxPending
  /\ ticker \in {"test", "sleep", "post", "ended"}
  /\ idle_tick \in 0 .. IdlePeriod - 1
  /\ ui \in {"loop", "left", "join", "returned"}

(* The machine always has the program the loader reports: after a reset, a *)
(* model switch, and a load that failed over an earlier program.           *)
MachineHasProgram ==
  cpu.program = loaded_program /\ (loader_ok <=> loaded_program # NoProgram)

(* The telemetry is of the run on the screen: it counts the machine's      *)
(* cycles, and no event more often than that, so the gauges stay below one *)
(* across steps, runs to halt, resets, loads and model switches.           *)
TelemetryIsOfThisRun ==
  /\ tel.cycles = cpu.cycle
  /\ {tel.stalls, tel.forwards, tel.flushes, tel.retired} \subseteq 0 .. tel.cycles

(* The execution trace lists cycles of this run, in order, each once. *)
TraceIsOfThisRun ==
  \A i \in 1 .. Len(exec_trace) :
    /\ exec_trace[i] \in 1 .. cpu.cycle
    /\ i > 1 => exec_trace[i - 1] < exec_trace[i]

(* The ticker posts into a screen that exists: run_app() does not return   *)
(* while the thread may still be on its way to PostEvent.                  *)
ScreenOutlivesTicker == ui = "returned" => ticker = "ended"

(* A Custom event that the ticker decided to post during a run, and that   *)
(* is handled after the run was stopped, does not step the machine.        *)
StopIsAtOnce == [][pending' < pending /\ ~auto_run => UNCHANGED machineVars]_uiVars

(* On the tabs that only display, no key or button reaches the controls of *)
(* another tab: whatever changes the machine there is a Custom event.      *)
DisplayTabsAreInert ==
  [][pending' >= pending /\ tab \in {4, 5} => UNCHANGED machineVars]_uiVars

(* Auto-run goes on until something stops it: a result, the user, or the   *)
(* bound on cycles.                                                        *)
AutoRunAdvances == auto_run ~> (~auto_run \/ cpu.cycle = MaxCycles)

(* Leaving the event loop ends the program: the ticker sees app_live and   *)
(* join() returns, wherever in its loop the thread was.                    *)
ExitEnds == ui = "left" ~> ui = "returned"

(* What the screen shows is the machine's, on a screen that exists. *)
UiInv ==
  UiTypeOK /\ MachineHasProgram /\ TelemetryIsOfThisRun /\ TraceIsOfThisRun /\ ScreenOutlivesTicker

(* Only what is meant to moves the machine: not a late Custom event, and   *)
(* not a key on a tab that only displays.                                  *)
OnlyControlsMove == StopIsAtOnce /\ DisplayTabsAreInert
=============================================================================
