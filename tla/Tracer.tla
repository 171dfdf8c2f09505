------------------------------- MODULE Tracer -------------------------------
(***************************************************************************)
(* The execution tracer of stark-v (crates/air/src/trace.rs) and the LogUp *)
(* contributions of the rows it writes (crates/air/src/schema.rs).         *)
(*                                                                         *)
(* The prover never compares tables: it only checks that every tuple of a  *)
(* relation is emitted as often as it is consumed.  A table is therefore   *)
(* kept here as its contribution to each relation, a function from tuples  *)
(* to integers (+1 per emission, -1 per consumption).  Everything else of  *)
(* a row is abstracted.                                                    *)
(*                                                                         *)
(* A tracer is a record; its operations are operators from a tracer to the *)
(* next one, so that both a single segment (module Segment) and the        *)
(* runner's loop (module Runner) are built from the same definitions.      *)
(***************************************************************************)
EXTENDS Integers

CONSTANTS
  Reg,        \* register indices: address space 0
  Word,       \* aligned memory words: address space 1
  Val,        \* word values; 0 is one of them
  PC,         \* program counters
  MaxDiff,    \* max_clock_diff: what one clock-gap row bridges
  MaxClock,   \* bound on the clock of one segment
  NoVal       \* no entry in a map

ASSUME TracerAssumption ==
  /\ Reg \cap Word = {}
  /\ MaxDiff \in Nat \ {0}
  /\ MaxClock \in Nat
  /\ 0 \in Val
  /\ NoVal \notin Val

Loc == Reg \cup Word

\* What registers and memory hold.
Contents == [Loc -> Val]

Clk == 0 .. MaxClock

\* A tuple of the memory_access relation: address space and address, clock, value.
Tuple == Loc \X Clk \X Val

\* A tuple of the registers_state relation: pc, clock.
State == PC \X (1 .. MaxClock + 1)

Bit(b) == IF b THEN 1 ELSE 0

\* The tracer's fields.  A register's clock is 0 until its first access and a
\* word has no clock until its first access; an access happens at a clock of at
\* least 1, so 0 stands for both.
TracerType ==
  [ clock   : Clk,                    \* the current instruction's clock
    last    : [Loc -> Clk],           \* reg_clock and mem_clock
    initial : [Word -> Val \cup {NoVal}], \* mem_initial
    reads   : [PC -> Nat],            \* program_reads
    gaps    : Nat,                    \* rows of clock_update
    spans   : SUBSET Int,             \* arguments of range_check_20
    ledger  : [Tuple -> Int],         \* memory_access
    states  : [State -> Int],         \* registers_state
    rows    : [PC -> Nat] ]           \* program_access consumptions

NewTracer ==
  [ clock   |-> 0,
    last    |-> [l \in Loc |-> 0],
    initial |-> [w \in Word |-> NoVal],
    reads   |-> [p \in PC |-> 0],
    gaps    |-> 0,
    spans   |-> {},
    ledger  |-> [x \in Tuple |-> 0],
    states  |-> [s \in State |-> 0],
    rows    |-> [p \in PC |-> 0] ]

-----------------------------------------------------------------------------
(***************************************************************************)
(* fill_gap: while more than MaxDiff remains to the target clock, write a  *)
(* catch-up row that consumes the tuple at the current clock and emits it  *)
(* again MaxDiff later.                                                    *)
(***************************************************************************)
\* Bug: the loop's test lets one clock too many pass.
GapCountLoose(from, to) ==
  IF to - from <= MaxDiff + 1 THEN 0 ELSE (to - from - 1) \div MaxDiff

GapCount(from, to) ==
  IF to - from <= MaxDiff THEN 0 ELSE (to - from - 1) \div MaxDiff

GapClocks(from, to) == {from + k * MaxDiff : k \in 0 .. GapCount(from, to) - 1}

\* Bug: fill_gap returns the clock it was called with.
CaughtUpStale(from, to) == from

CaughtUp(from, to) == from + GapCount(from, to) * MaxDiff

\* What fill_gap and the final access row add to the count of tuple x.
AccessDelta(x, l, from, clock, prev, next) ==
  LET onLoc(v) == x[1] = l /\ x[3] = v
  IN    Bit(onLoc(prev) /\ x[2] - MaxDiff \in GapClocks(from, clock))
      - Bit(onLoc(prev) /\ x[2] \in GapClocks(from, clock))
      - Bit(onLoc(prev) /\ x[2] = CaughtUp(from, clock))
      + Bit(onLoc(next) /\ x[2] = clock)

\* Only trace_mem_access remembers the value a location had before its first access.
FirstValue(t, l, prev) ==
  IF l \in Word /\ t.initial[l] = NoVal THEN [t.initial EXCEPT ![l] = prev]
  ELSE t.initial

\* trace_reg_access and trace_mem_access.
TraceAccess(t, l, prev, next) ==
  [ t EXCEPT
      !.last[l] = t.clock,
      !.initial = FirstValue(t, l, prev),
      !.gaps    = @ + GapCount(t.last[l], t.clock),
      !.spans   = @ \cup {t.clock - CaughtUp(t.last[l], t.clock)},
      !.ledger  = [x \in Tuple |->
                     @[x] + AccessDelta(x, l, t.last[l], t.clock, prev, next)] ]

\* Bug: the fetch is not counted.
TraceInstrSkipped(t, pc) == t

\* trace_instr_access.
TraceInstr(t, pc) == [t EXCEPT !.reads[pc] = @ + 1]

\* tracer.clock += 1, before an instruction executes.
TickClock(t) == [t EXCEPT !.clock = @ + 1]

\* The opcode row of the instruction at pc: every opcode table consumes the
\* fetched instruction and (pc, clock), and emits (pc_next, clock + 1).
PushRow(t, pc, next) ==
  [ t EXCEPT
      !.rows[pc] = @ + 1,
      !.states = [s \in State |->
                    @[s] - Bit(s = <<pc, t.clock>>) + Bit(s = <<next, t.clock + 1>>)] ]

-----------------------------------------------------------------------------
(***************************************************************************)
(* What a tracer says of the execution it traced, from the contents start  *)
(* of registers and memory to cont.                                        *)
(***************************************************************************)
\* The tuple a location was last written at, and the one it started from.
Frontier(x, t, cont) == x[2] = t.last[x[1]] /\ x[3] = cont[x[1]]
Origin(x, start) == x[2] = 0 /\ x[3] = start[x[1]]

\* The rows written so far cancel on every memory_access tuple but two per location: the
\* latest state, emitted and not yet consumed, and the initial one, consumed and not yet
\* emitted.
Telescopes(t, start, cont) ==
  \A x \in Tuple : t.ledger[x] = Bit(Frontier(x, t, cont)) - Bit(Origin(x, start))

\* The value a location had before its first access is remembered once and for all,
\* and a location without a clock was never changed.
FirstValues(t, start, cont) ==
  /\ \A l \in Loc : t.last[l] = 0 => cont[l] = start[l]
  /\ \A w \in Word : t.initial[w] = IF t.last[w] > 0 THEN start[w] ELSE NoVal

\* ... and no clock is ahead of the tracer's, every difference has a range check that
\* holds it, and a catch-up row is written for none that needs none.
Traced(t, start, cont) ==
  /\ \A l \in Loc : t.last[l] <= t.clock
  /\ Telescopes(t, start, cont)
  /\ FirstValues(t, start, cont)
  /\ t.spans \subseteq 0 .. MaxDiff
  /\ t.clock <= MaxDiff => t.gaps = 0
=============================================================================
