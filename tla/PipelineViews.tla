---------------------------- MODULE PipelineViews ----------------------------
(***************************************************************************)
(* What the Qt front ends make of the pipeline: the instruction x cycle    *)
(* diagram, the event log and the sliding tokens of the Widgets window,    *)
(* and the trace grid of the Quick window.  All of them are given the      *)
(* PipelineState of the cycles the controller shows, and have to follow    *)
(* instructions through it by address alone.                               *)
(*                                                                         *)
(* The model numbers the instructions as they are fetched; the numbers     *)
(* (serial, in_flight and every who) are not in the code.  Drawing is left *)
(* out: a hidden view keeps the same rows and draws them when shown.       *)
(***************************************************************************)
EXTENDS PipelinedCpu

CONSTANTS
  kMaxCycles,       \* of the diagram: 20 in the code
  kMaxEntries,      \* of the event log: 500
  kTraceMaxRows,    \* of the trace grid: 256
  kTraceMaxCycles,  \* of the trace grid: 512
  MaxCycles,        \* bound: cycles since a reset
  MaxBursts,        \* bound: throttled stretches
  MaxClears         \* bound: resets and Clear buttons
ASSUME ViewsAssumption ==
  /\ {kMaxCycles, kMaxEntries, kTraceMaxRows, kTraceMaxCycles} \subseteq Nat \ {0}
  /\ {MaxCycles, MaxBursts, MaxClears} \subseteq Nat

VARIABLES
  cycle,                \* cycle_
  rows, last_cycle,     \* PipelineTraceWidget: rows_, last_cycle_
  log, recent,          \* PipelineEventsWidget: list_, recent_
  shown, tokens,        \* SchematicDatapathWidget: state_, the columns a token slides into
  trace,                \* QuickSimulator: trace_
  hidden, bursts, clears,
  serial, in_flight,    \* numbers: the last one given, those of the four registers
  history,              \* the moments of each cycle shown since the log was cleared
  gap                   \* the diagram has been extended over cycles it was not shown

viewVars == <<rows, last_cycle, log, recent, shown, tokens, trace, history, gap>>
allVars == <<pc, regs, mem, cp0, ctrl, if_id, id_ex, ex_mem, mem_wb, ps, result, op, cycle,
             rows, last_cycle, log, recent, shown, tokens, trace, hidden, bursts, clears,
             serial, in_flight, history, gap>>

Stages == 1 .. 5
NoWho == 0

(* A StageSnapshot with its raw word and its number. *)
View(s, raw, who) ==
  [valid |-> ps'.stages[s].valid, stalled |-> ps'.stages[s].stalled,
   flushed |-> ps'.stages[s].flushed, pc |-> ps'.stages[s].pc, raw |-> raw, who |-> who]
Views ==
  <<View(1, if_id'.instr, in_flight'[1]), View(2, if_id.instr, in_flight[1]),
    View(3, id_ex.decoded.raw, in_flight[2]), View(4, ex_mem.raw, in_flight[3]),
    View(5, mem_wb.raw, in_flight[4])>>
NoView ==
  [valid |-> FALSE, stalled |-> FALSE, flushed |-> FALSE, pc |-> 0, raw |-> 0, who |-> NoWho]
NothingShown == [cycle |-> 0, stages |-> [s \in Stages |-> NoView]]

present(v) == v.valid /\ ~v.stalled /\ ~v.flushed

-----------------------------------------------------------------------------
(* PipelineTraceWidget.  A row is the address of an instruction and, per   *)
(* stage, the cycle it was seen there, or 0.                               *)

lastStage(r) ==
  CHOOSE s \in 0 .. 5 : (s = 0 \/ r.at[s] # 0) /\ \A t \in s + 1 .. 5 : r.at[t] = 0
lastCycle(r) == IF lastStage(r) = 0 THEN 0 ELSE r.at[lastStage(r)]

(* The rows an instruction in stage s may continue. *)
candidates(rs, s, v, c) ==
  {i \in 1 .. Len(rs) : rs[i].pc = v.pc /\ lastStage(rs[i]) = s - 1 /\ lastCycle(rs[i]) < c}

(* Mutant: the first that fits. *)
rowOfFirst(rs, s, v, c) ==
  CHOOSE i \in candidates(rs, s, v, c) : \A j \in candidates(rs, s, v, c) : i <= j

(* The most recent one. *)
rowOf(rs, s, v, c) ==
  CHOOSE i \in candidates(rs, s, v, c) :
    \A j \in candidates(rs, s, v, c) : lastCycle(rs[j]) <= lastCycle(rs[i])

place(rs, s, v, c) ==
  CASE ~present(v) -> rs
    [] present(v) /\ candidates(rs, s, v, c) = {} ->
         Append(rs, [pc  |-> v.pc, at |-> [t \in Stages |-> IF t = s THEN c ELSE 0],
                     who |-> [t \in Stages |-> IF t = s THEN v.who ELSE NoWho]])
    [] OTHER ->
         LET i == rowOf(rs, s, v, c) IN [rs EXCEPT ![i].at[s] = c, ![i].who[s] = v.who]

(* The oldest stage first. *)
placeAll(rs, vs, c) ==
  LET placed[s \in 1 .. 6] == IF s = 6 THEN rs ELSE place(placed[s + 1], s, vs[s], c)
  IN  placed[1]

(* Rows that ended before the first visible cycle are removed. *)
visibleRows(rs, first_visible) ==
  LET kept[i \in 0 .. Len(rs)] ==
        IF i = 0 THEN <<>>
        ELSE IF lastCycle(rs[i]) >= first_visible THEN Append(kept[i - 1], rs[i])
        ELSE kept[i - 1]
  IN  kept[Len(rs)]

startsOver(c) == c <= last_cycle \/ c - last_cycle > kMaxCycles

traceUpdate(vs, c) ==
  LET first_visible == IF c > kMaxCycles THEN c - kMaxCycles + 1 ELSE 1 IN
  /\ rows' = visibleRows(placeAll(IF startsOver(c) THEN <<>> ELSE rows, vs, c), first_visible)
  /\ last_cycle' = c
  /\ gap' = (~startsOver(c) /\ (gap \/ c # last_cycle + 1))

traceClear == rows' = <<>> /\ last_cycle' = 0 /\ gap' = FALSE

-----------------------------------------------------------------------------
(* PipelineEventsWidget.  Events 1 to 4 are the forwards, 5 the stall and  *)
(* 6 the flush; 0 is a milestone of the program.                           *)

fired(p) ==
  <<p.fwd.ex_mem_a, p.fwd.ex_mem_b, p.fwd.mem_wb_a, p.fwd.mem_wb_b, p.load_stall,
    p.branch_flush>>

(* The stage whose instruction an event names. *)
eventStage(e) == IF e = 6 THEN 4 ELSE 3

(* What fires in a cycle: the event, the word it names, and whose it is.   *)
moment(e, vs) ==
  LET v == vs[eventStage(e)] IN
  [event |-> e, raw |-> IF v.valid THEN v.raw ELSE 0, who |-> v.who]

(* The code's key of a moment knows the event and the word alone.          *)
key(x) == [event |-> x.event, raw |-> x.raw]

entryOf(x, c) == [event |-> x.event, raw |-> x.raw, who |-> x.who, cycle |-> c]
Milestone(c) == [event |-> 0, raw |-> 0, who |-> NoWho, cycle |-> c]

(* Mutant: a full list takes no more entries. *)
logUntilFull(entries) ==
  LET l == log \o entries IN log' = SubSeq(l, 1, IF Len(l) > kMaxEntries THEN kMaxEntries ELSE Len(l))

(* logEvent() drops the oldest entries. *)
logEvents(entries) ==
  LET l == log \o entries IN
  log' = SubSeq(l, IF Len(l) > kMaxEntries THEN Len(l) - kMaxEntries + 1 ELSE 1, Len(l))

(* The same event for the same word in the cycle before is not logged      *)
(* again.                                                                  *)
continued(k, c) == k \in DOMAIN recent /\ recent[k] \in {c - 1, c}

eventsUpdate(vs, c, p, r) ==
  LET moments == {moment(e, vs) : e \in {d \in 1 .. 6 : fired(p)[d]}}
      keys    == {key(x) : x \in moments}
      news[e \in 0 .. 6] ==
        IF e = 0 THEN <<>>
        ELSE IF fired(p)[e] /\ ~continued(key(moment(e, vs)), c)
        THEN Append(news[e - 1], entryOf(moment(e, vs), c))
        ELSE news[e - 1]
  IN  /\ logEvents(news[6] \o (IF r = "Ok" THEN <<>> ELSE <<Milestone(c)>>))
      /\ recent' = [k \in DOMAIN recent \cup keys |-> IF k \in keys THEN c ELSE recent[k]]
      /\ history' = [d \in DOMAIN history \cup {c} |-> IF d = c THEN moments ELSE history[d]]

(* Mutant: what has been seen is remembered. *)
eventsClearOnlyList == log' = <<>> /\ UNCHANGED recent

eventsClear == log' = <<>> /\ recent' = <<>>

-----------------------------------------------------------------------------
(* SchematicDatapathWidget::startTokenAnimation *)

(* Whether a token slides into column s. *)
slides(old, vs, s) ==
  /\ present(vs[s])
  /\ IF s = 1 THEN ~(old[1].valid /\ old[1].pc = vs[1].pc)
     ELSE old[s - 1].valid /\ old[s - 1].pc = vs[s].pc /\ old[s - 1].raw = vs[s].raw

(* Mutant: animated over any distance. *)
tokensAcrossAnyGap(vs, c) == {s \in Stages : slides(shown.stages, vs, s)}

(* Only across a single clock edge. *)
tokensFor(vs, c) ==
  IF c = shown.cycle + 1 THEN {s \in Stages : slides(shown.stages, vs, s)} ELSE {}

-----------------------------------------------------------------------------
(* QuickSimulator::appendTrace.  A cell is a stage, or 0 for blank or **.  *)

fetchedRow(vs, c) ==
  IF ~vs[1].valid THEN <<>>
  ELSE <<[pc |-> vs[1].pc, start |-> c, cells |-> <<>>, who |-> vs[1].who]>>

(* Mutant: only the stage that matches the age of the row. *)
cellOfAge(row, vs, c) ==
  LET s == c - row.start + 1 IN IF s \in Stages /\ vs[s].valid /\ vs[s].pc = row.pc THEN s ELSE 0

(* The first stage with the row's address, unless a later one matches the  *)
(* age of the row.                                                         *)
cell(row, vs, c) ==
  LET at == {s \in Stages : vs[s].valid /\ vs[s].pc = row.pc /\ c - row.start < 16}
  IN  IF at = {} THEN 0
      ELSE IF c - row.start + 1 \in at THEN c - row.start + 1
      ELSE CHOOSE s \in at : \A t \in at : s <= t

appendTrace(vs, c) ==
  IF c > kTraceMaxCycles THEN UNCHANGED trace
  ELSE LET all  == trace \o fetchedRow(vs, c)
           kept == IF Len(all) > kTraceMaxRows THEN Tail(all) ELSE all
       IN  trace' = [i \in 1 .. Len(kept) |->
                       [kept[i] EXCEPT !.cells = Append(@, cell(kept[i], vs, c))]]

-----------------------------------------------------------------------------
(* The controller shows a cycle, or throttles it; a step that ends a run   *)
(* is always shown.                                                        *)

Show ==
  \E vs \in {Views}, c \in {cycle'} :
    /\ shown' = [cycle |-> c, stages |-> vs]
    /\ tokens' = tokensFor(vs, c)
    /\ traceUpdate(vs, c)
    /\ eventsUpdate(vs, c, ps', result')
    /\ appendTrace(vs, c)
    /\ hidden' = FALSE /\ UNCHANGED bursts

Throttle ==
  /\ result' = "Ok" /\ (hidden \/ bursts < MaxBursts)
  /\ hidden' = TRUE
  /\ bursts' = IF hidden THEN bursts ELSE bursts + 1
  /\ UNCHANGED viewVars

Number ==
  LET fetches == if_id'.valid /\ ~ps'.load_stall IN
  /\ serial' = IF fetches THEN serial + 1 ELSE serial
  /\ in_flight' =
       <<IF ~if_id'.valid THEN NoWho ELSE IF fetches THEN serial' ELSE in_flight[1],
         IF id_ex'.valid THEN in_flight[1] ELSE NoWho,
         IF ex_mem'.valid THEN in_flight[2] ELSE NoWho,
         IF mem_wb'.valid THEN in_flight[3] ELSE NoWho>>

Cycle ==
  /\ op # "reset" /\ cycle < MaxCycles
  /\ Step
  /\ cycle' = cycle + 1
  /\ Number
  /\ Show \/ Throttle
  /\ UNCHANGED clears

(* onReset() of either window: the CPU, then every view.  The program is   *)
(* loaded again, or another one.                                           *)
OnReset ==
  /\ op # "reset" /\ clears < MaxClears
  /\ Reset(TRUE)
  /\ cycle' = 0 /\ in_flight' = [i \in 1 .. 4 |-> NoWho]
  /\ traceClear /\ eventsClear /\ history' = <<>>
  /\ shown' = NothingShown /\ tokens' = {} /\ trace' = <<>>
  /\ hidden' = FALSE /\ clears' = clears + 1
  /\ UNCHANGED <<bursts, serial>>

OnLoad ==
  /\ LoadProgram
  /\ logEvents(<<Milestone(0)>>)
  /\ UNCHANGED <<cycle, rows, last_cycle, recent, shown, tokens, trace, hidden, bursts, clears,
                 serial, in_flight, history, gap>>

(* The Clear button of the event log. *)
ClearEvents ==
  /\ op # "reset" /\ clears < MaxClears
  /\ eventsClear /\ history' = <<>>
  /\ clears' = clears + 1
  /\ UNCHANGED vars
  /\ UNCHANGED <<cycle, rows, last_cycle, shown, tokens, trace, hidden, bursts, serial,
                 in_flight, gap>>

ViewsInit ==
  /\ Init
  /\ cycle = 0 /\ serial = 0 /\ in_flight = [i \in 1 .. 4 |-> NoWho]
  /\ rows = <<>> /\ last_cycle = 0 /\ gap = FALSE
  /\ log = <<>> /\ recent = <<>> /\ history = <<>>
  /\ shown = NothingShown /\ tokens = {} /\ trace = <<>>
  /\ hidden = FALSE /\ bursts = 0 /\ clears = 0

ViewsNext == Cycle \/ OnReset \/ OnLoad \/ ClearEvents
ViewsSpec == ViewsInit /\ [][ViewsNext]_allVars

-----------------------------------------------------------------------------
(* Properties *)

RowWho(r) == {r.who[s] : s \in {t \in Stages : r.at[t] # 0}}

(* Each row of the diagram is one execution of one instruction, no         *)
(* execution has two rows, and every instruction in a stage has its cell:  *)
(* in loops shorter than the pipeline, with rows left over from flushed    *)
(* instructions, after a reset and after a jump past the window.  (A run   *)
(* that skips fewer cycles than the window is not covered: the rows of two *)
(* executions may then be joined.)                                         *)
RowsAreExecutions ==
  ~gap =>
    /\ \A i \in 1 .. Len(rows) : \E n \in 1 .. serial : RowWho(rows[i]) = {n}
    /\ \A i, j \in 1 .. Len(rows) : i # j => RowWho(rows[i]) # RowWho(rows[j])
    /\ \A s \in Stages : present(shown.stages[s]) =>
         \E i \in 1 .. Len(rows) :
           rows[i].at[s] = shown.cycle /\ rows[i].who[s] = shown.stages[s].who

(* When an entry was logged: in a cycle the events in order, then the      *)
(* milestone.                                                              *)
Order(n) == 7 * n.cycle + (IF n.event = 0 THEN 7 ELSE n.event)

Told(x, c) == \E i \in 1 .. Len(log) : log[i] = entryOf(x, c)
Dropped(x, c) == Len(log) = kMaxEntries /\ Order(entryOf(x, c)) < Order(log[1])
Repeats(x, c) == c - 1 \in DOMAIN history /\ \E y \in history[c - 1] : key(y) = key(x)

(* The log is in order and within its limit; an entry is a forward, stall  *)
(* or flush of its cycle that did not repeat one of the cycle before; and  *)
(* of those that did not, it holds every one of the cycles shown since it  *)
(* was cleared, save that a full list has dropped its oldest.  Across      *)
(* throttled cycles, resets and the Clear button.  A repeat is an event of *)
(* another execution of the word, for an instruction is in EX for one      *)
(* cycle: the code loses it, against pipeline_events_widget.h:4-5.         *)
LogLosesOnlyRepeats ==
  /\ Len(log) <= kMaxEntries
  /\ \A i, j \in 1 .. Len(log) : i < j => Order(log[i]) < Order(log[j])
  /\ \A i \in 1 .. Len(log) : log[i].event # 0 =>
       /\ log[i].cycle \in DOMAIN history
       /\ \E x \in history[log[i].cycle] :
            log[i] = entryOf(x, log[i].cycle) /\ ~Repeats(x, log[i].cycle)
  /\ \A c \in DOMAIN history : \A x \in history[c] :
       Told(x, c) \/ Dropped(x, c) \/ Repeats(x, c)

(* A token that slides from one column into the next carries the same      *)
(* execution, and one that slides into IF a new one: never two that only   *)
(* share an address, across throttled cycles or a reset.                   *)
TokensFollowInstructions ==
  [][shown' # shown =>
       \A s \in tokens' :
         IF s = 1 THEN \A t \in Stages : shown.stages[t].who # shown'.stages[1].who
         ELSE shown'.stages[s].who = shown.stages[s - 1].who]_allVars

(* The grid of the Quick window keeps up with an instruction through       *)
(* stalls and throttled cycles: while one stage alone holds its address,   *)
(* its row says which.                                                     *)
GridTellsTheStage ==
  \A i \in 1 .. Len(trace) : \A s \in Stages :
    /\ shown.cycle <= kTraceMaxCycles
    /\ shown.stages[s].valid /\ shown.stages[s].who = trace[i].who
    /\ \A t \in Stages \ {s} : ~(shown.stages[t].valid /\ shown.stages[t].pc = trace[i].pc)
    => trace[i].cells[Len(trace[i].cells)] = s
=============================================================================
