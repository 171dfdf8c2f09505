------------------------------ MODULE Segment ------------------------------
(***************************************************************************)
(* One segment of an execution as its tracer sees it: an arbitrary guest   *)
(* fetches an instruction, reads and writes registers and memory words at  *)
(* that instruction's clock, retires it and goes on, until the segment is  *)
(* closed with a role and its public data is built.                        *)
(*                                                                         *)
(* The guest is the environment: which locations it accesses, in which     *)
(* order and with which values, is left open, so what is shown here holds  *)
(* for every program and every mix of opcodes.  The clock is bounded by    *)
(* MaxClock.                                                               *)
(***************************************************************************)
EXTENDS Commitment

CONSTANTS X0   \* the register hardwired to 0

ASSUME X0Assumption == X0 \in Reg

VARIABLES
  role,     \* SegmentRole of the segment
  given,    \* input words the run was started with
  start,    \* contents of registers and memory when the segment began
  cont,     \* their contents now
  keys,     \* words the sparse memory has bytes for
  pc0,      \* seg_initial_pc
  pc,       \* cpu.pc
  tracer,
  phase     \* where the runner's loop stands

vars == <<role, given, start, cont, keys, pc0, pc, tracer, phase>>

fixed == <<role, given, start, pc0>>

Phase == {"loop", "execute", "sentinel", "closed", "public", "panicked"}

TypeOK ==
  /\ role \in Role
  /\ given \subseteq InputWord
  /\ start \in Contents
  /\ cont \in Contents
  /\ keys \subseteq Word
  /\ pc0 \in PC
  /\ pc \in PC
  /\ tracer \in TracerType
  /\ phase \in Phase

\* The input fills the front of the input region; a word without bytes reads 0.
Init ==
  /\ role \in Role
  /\ \E n \in 0 .. Len(InputSeq) : given = {InputSeq[i] : i \in 1 .. n}
  /\ start \in {s \in Contents : s[X0] = 0}
  /\ keys \in {k \in SUBSET Word : /\ given \subseteq k
                                   /\ \A w \in Word \ k : start[w] = 0}
  /\ pc0 \in PC
  /\ cont = start
  /\ pc = pc0
  /\ tracer = NewTracer
  /\ phase = "loop"

-----------------------------------------------------------------------------
\* get_or_decode succeeded and the instruction is no self-loop sentinel.
Fetch ==
  /\ phase = "loop"
  /\ tracer.clock < MaxClock
  /\ tracer' = TickClock(TraceInstr(tracer, pc))
  /\ phase' = "execute"
  /\ UNCHANGED <<fixed, cont, keys, pc>>

\* Cpu::read_reg.
ReadReg(r) ==
  /\ phase = "execute"
  /\ tracer' = TraceAccess(tracer, r, cont[r], cont[r])
  /\ UNCHANGED <<fixed, cont, keys, pc, phase>>

\* Cpu::write_reg: a write to x0 is dropped and traced as a write of 0.
WriteReg(r, v) ==
  LET next == IF r = X0 THEN 0 ELSE v IN
  /\ phase = "execute"
  /\ cont' = [cont EXCEPT ![r] = next]
  /\ tracer' = TraceAccess(tracer, r, cont[r], next)
  /\ UNCHANGED <<fixed, keys, pc, phase>>

\* Memory::read_*_traced.
ReadWord(w) ==
  /\ phase = "execute"
  /\ tracer' = TraceAccess(tracer, w, cont[w], cont[w])
  /\ UNCHANGED <<fixed, cont, keys, pc, phase>>

\* Memory::write_*_traced.
WriteWord(w, v) ==
  /\ phase = "execute"
  /\ cont' = [cont EXCEPT ![w] = v]
  /\ keys' = keys \cup {w}
  /\ tracer' = TraceAccess(tracer, w, cont[w], v)
  /\ UNCHANGED <<fixed, pc, phase>>

\* The instruction's row is pushed and the pc moves on.
Retire(next) ==
  /\ phase = "execute"
  /\ tracer' = PushRow(tracer, pc, next)
  /\ pc' = next
  /\ phase' = "loop"
  /\ UNCHANGED <<fixed, cont, keys>>

\* A self-loop sentinel ends the run: its fetch is counted, it is not executed.
Sentinel ==
  /\ phase = "loop"
  /\ role.is_last
  /\ tracer' = TraceInstr(tracer, pc)
  /\ phase' = "sentinel"
  /\ UNCHANGED <<fixed, cont, keys, pc>>

\* finalize_commitments_with_role and make_run_result.  A segment that is not the
\* last one is closed when its cycle limit, at least 1, is reached.
Close ==
  /\ phase \in {"loop", "sentinel"}
  /\ role.is_last \/ tracer.clock > 0
  /\ phase' = "closed"
  /\ UNCHANGED <<fixed, cont, keys, pc, tracer>>

\* PublicData::new.
Publish ==
  /\ phase = "closed"
  /\ phase' = IF Panics(tracer, cont, role) THEN "panicked" ELSE "public"
  /\ UNCHANGED <<fixed, cont, keys, pc, tracer>>

Next ==
  \/ Fetch
  \/ \E r \in Reg : ReadReg(r)
  \/ \E r \in Reg, v \in Val : WriteReg(r, v)
  \/ \E w \in Word : ReadWord(w)
  \/ \E w \in Word, v \in Val : WriteWord(w, v)
  \/ \E p \in PC : Retire(p)
  \/ Sentinel
  \/ Close
  \/ Publish

Spec == Init /\ [][Next]_vars

-----------------------------------------------------------------------------
(***************************************************************************)
(* Properties.                                                             *)
(***************************************************************************)
\* Whatever the guest accesses, in whatever order, several times within one
\* instruction or after a gap of any length, the rows written so far cancel on every
\* memory_access tuple but two per location: the latest state, emitted and not yet
\* consumed, and the initial one, consumed and not yet emitted.
LedgerTelescopes == Telescopes(tracer, start, cont)

\* Every clock difference an opcode row sends to range_check_20 is in the table:
\* fill_gap leaves a remainder between 0 and MaxDiff, never more, never negative.
SpansFit == tracer.spans \subseteq 0 .. MaxDiff

\* The value a location had before its first access is remembered once and for all,
\* and a location without a clock was never changed.
FirstValueKept == FirstValues(tracer, start, cont)

\* Once the public data is built, registers_state cancels: the rows lead from the
\* public entry pc at clock 1 to the public final pc one past the last clock.
StateBalance ==
  phase \in {"closed", "public"} =>
    \A s \in State : tracer.states[s] + StateAnchor(s, tracer, pc0, pc) = 0

\* program_reads, the multiplicity of the program table, counts the executed rows,
\* save one read too many of the pc a sentinel ended the last segment at.
ProgramResidue ==
  phase \in {"closed", "public", "panicked"} =>
    \A p \in PC : tracer.reads[p] # tracer.rows[p] =>
      role.is_last /\ p = pc /\ tracer.reads[p] = tracer.rows[p] + 1

\* The memory_access relation of a published segment cancels - which the verifier
\* requires - for exactly the segments that are Anchorable, in all four roles.
MemoryBalanceExact ==
  phase = "public" =>
    ((\A x \in Tuple : MemorySum(x, tracer, start, cont, keys, given, role) = 0)
       <=> Anchorable(Touched(tracer), given, role))

\* The clock at which the next row consumes registers_state: the running
\* instruction's, or the next one's when none runs.
RowClock == IF phase = "execute" THEN tracer.clock ELSE tracer.clock + 1

\* registers_state telescopes like memory_access: what remains is the current state,
\* emitted, and the initial one, consumed.
StatesTelescope ==
  \A s \in State :
    tracer.states[s] = Bit(s = <<pc, RowClock>>) - Bit(s = <<pc0, 1>>)

\* A fetch is counted before its row is pushed; a sentinel's never gets a row.
ReadsAhead ==
  \A p \in PC :
    \/ tracer.reads[p] = tracer.rows[p] /\ (phase = "execute" => p # pc)
    \/ /\ tracer.reads[p] = tracer.rows[p] + 1
       /\ p = pc
       /\ \/ phase = "execute"
          \/ role.is_last /\ phase \in {"sentinel", "closed", "public", "panicked"}

\* An instruction runs at a clock of at least 1.
ClockRuns == phase = "execute" => tracer.clock > 0

\* PublicData::new returned.
OutputsAnchored == phase = "public" => ~Panics(tracer, cont, role)

\* What makes the properties above inductive: x0 is 0, registers_state telescopes, no read
\* is ahead of its row but the current one, and only a segment with every output word
\* anchored is published.
Bookkeeping ==
  /\ cont[X0] = 0
  /\ ClockRuns
  /\ StatesTelescope
  /\ ReadsAhead
  /\ OutputsAnchored

\* The inductive invariant that the proofs of SegmentProofs use.
IInv == TypeOK /\ Traced(tracer, start, cont) /\ Bookkeeping

=============================================================================
