---------------------------- MODULE SegmentProofs ---------------------------
(***************************************************************************)
(* Theorems about Segment: they hold for every set of registers, words,    *)
(* values and pcs, every layout, every MaxDiff and every clock bound.      *)
(***************************************************************************)
EXTENDS Segment, TracerProofs

LEMMA InitIInv == Init => IInv
<1> SUFFICES ASSUME Init PROVE IInv
  OBVIOUS
<1> USE TracerAssumption, X0Assumption, NewTracerType DEF Init
<1>1. given \subseteq InputWord
  BY DEF InputWord
<1>2. start \in Contents /\ keys \subseteq Word /\ start[X0] = 0
  OBVIOUS
<1>3. TypeOK
  BY <1>1, <1>2 DEF TypeOK, Phase
<1>4. Traced(tracer, start, cont)
  BY <1>2, NewTraced
<1>5. StatesTelescope /\ ReadsAhead /\ ClockRuns
  BY DEF StatesTelescope, RowClock, Bit, ReadsAhead, ClockRuns
<1>6. QED
  BY <1>2, <1>3, <1>4, <1>5 DEF IInv, Bookkeeping, OutputsAnchored

\* A traced access of location l that leaves v there preserves the invariant; reads
\* leave the value they found.
LEMMA AccessStep ==
  ASSUME IInv, phase = "execute", NEW l \in Loc, NEW v \in Val, l = X0 => v = 0,
         tracer' = TraceAccess(tracer, l, cont[l], v),
         cont' = Put(cont, l, v),
         keys' \subseteq Word,
         UNCHANGED <<fixed, pc, phase>>
  PROVE  IInv'
<1>1. /\ tracer \in TracerType /\ cont \in Contents /\ start \in Contents
      /\ Traced(tracer, start, cont) /\ tracer.clock > 0
  BY DEF IInv, Bookkeeping, TypeOK, ClockRuns
<1>2. cont' \in Contents /\ \A k \in Loc : cont'[k] = IF k = l THEN v ELSE cont[k]
  BY <1>1, PutContents
<1>3. /\ tracer' \in TracerType
      /\ tracer'.clock = tracer.clock
      /\ tracer'.reads = tracer.reads /\ tracer'.rows = tracer.rows
      /\ tracer'.states = tracer.states
      /\ Traced(tracer', start, cont')
  BY <1>1, AccessTraced
<1>4. TypeOK'
  BY <1>1, <1>2, <1>3 DEF IInv, TypeOK, fixed
<1>5. cont'[X0] = 0
  BY <1>2, X0Assumption DEF IInv, Bookkeeping, Loc
<1>6. /\ Traced(tracer, start, cont)'
      /\ StatesTelescope' /\ ReadsAhead' /\ OutputsAnchored' /\ ClockRuns'
  BY <1>3 DEF IInv, Bookkeeping, StatesTelescope, ReadsAhead, RowClock,
       OutputsAnchored, ClockRuns, fixed
<1>7. QED
  BY <1>4, <1>5, <1>6 DEF IInv, Bookkeeping

\* What a step that touches neither the contents nor the access fields of the tracer
\* leaves of the invariant to show.
LEMMA NoAccess ==
  ASSUME IInv, TypeOK', UNCHANGED <<fixed, cont>>,
         tracer'.last = tracer.last, tracer'.initial = tracer.initial,
         tracer'.spans = tracer.spans, tracer'.ledger = tracer.ledger,
         tracer'.gaps = tracer.gaps, tracer'.clock >= tracer.clock
  PROVE  cont'[X0] = 0 /\ Traced(tracer, start, cont)'
<1>1. tracer \in TracerType /\ tracer' \in TracerType /\ Traced(tracer, start, cont)
  BY DEF IInv, TypeOK
<1>2. Traced(tracer', start, cont)
  BY <1>1, UntouchedTraced
<1>3. QED
  BY <1>2 DEF IInv, Bookkeeping, fixed

LEMMA FetchStep == IInv /\ Fetch => IInv'
<1> SUFFICES ASSUME IInv, Fetch PROVE IInv'
  OBVIOUS
<1>1. tracer \in TracerType /\ pc \in PC /\ tracer.clock \in Nat
  BY DEF IInv, Bookkeeping, TypeOK, TracerType, Clk
<1>2. PICK t : t = TraceInstr(tracer, pc)
  OBVIOUS
<1>3. /\ t \in TracerType
      /\ t.clock = tracer.clock /\ t.last = tracer.last /\ t.initial = tracer.initial
      /\ t.spans = tracer.spans /\ t.ledger = tracer.ledger
      /\ t.gaps = tracer.gaps
      /\ t.states = tracer.states /\ t.rows = tracer.rows
      /\ t.reads = [tracer.reads EXCEPT ![pc] = tracer.reads[pc] + 1]
  BY <1>1, <1>2, InstrFields
<1>4. tracer' = TickClock(t) /\ t.clock < MaxClock /\ phase = "loop"
  BY <1>2, <1>3 DEF Fetch
<1>5. /\ tracer' \in TracerType
      /\ tracer'.clock = tracer.clock + 1 /\ tracer'.last = tracer.last
      /\ tracer'.initial = tracer.initial
      /\ tracer'.spans = tracer.spans /\ tracer'.ledger = tracer.ledger
      /\ tracer'.gaps = tracer.gaps
      /\ tracer'.states = tracer.states /\ tracer'.rows = tracer.rows
      /\ tracer'.reads = [tracer.reads EXCEPT ![pc] = tracer.reads[pc] + 1]
  BY <1>3, <1>4, TickFields
<1>6. /\ UNCHANGED <<fixed, cont, keys, pc>> /\ phase' = "execute"
      /\ UNCHANGED <<role, given, start, pc0>>
  BY DEF Fetch, fixed
<1>7. TypeOK'
  BY <1>5, <1>6 DEF IInv, Bookkeeping, TypeOK, Phase
<1>8. /\ cont'[X0] = 0
      /\ Traced(tracer, start, cont)'
  BY <1>1, <1>5, <1>6, <1>7, NoAccess
<1>9. ClockRuns'
  BY <1>1, <1>5, <1>8 DEF ClockRuns
<1>10. StatesTelescope'
  BY <1>4, <1>5, <1>6 DEF IInv, Bookkeeping, StatesTelescope, RowClock
<1>11. ReadsAhead'
  <2>1. \A p \in PC : tracer.reads[p] = tracer.rows[p]
    BY <1>4 DEF IInv, Bookkeeping, ReadsAhead
  <2>2. \A p \in PC : tracer'.reads[p] = IF p = pc THEN tracer.reads[p] + 1
                                                    ELSE tracer.reads[p]
    BY <1>1, <1>5 DEF TracerType
  <2>3. QED
    BY <1>5, <1>6, <2>1, <2>2 DEF ReadsAhead
<1>12. QED
  BY <1>6, <1>7, <1>8, <1>9, <1>10, <1>11 DEF IInv, Bookkeeping, OutputsAnchored

LEMMA RetireStep == ASSUME NEW q \in PC PROVE IInv /\ Retire(q) => IInv'
<1> SUFFICES ASSUME IInv, Retire(q) PROVE IInv'
  OBVIOUS
<1>1. tracer \in TracerType /\ pc \in PC /\ tracer.clock \in Nat /\ phase = "execute"
  BY DEF IInv, Bookkeeping, TypeOK, TracerType, Clk, Retire
<1>2. /\ tracer' \in TracerType
      /\ tracer'.clock = tracer.clock /\ tracer'.last = tracer.last
      /\ tracer'.initial = tracer.initial
      /\ tracer'.spans = tracer.spans /\ tracer'.ledger = tracer.ledger
      /\ tracer'.gaps = tracer.gaps
      /\ tracer'.reads = tracer.reads
      /\ tracer'.rows = [tracer.rows EXCEPT ![pc] = tracer.rows[pc] + 1]
      /\ \A s \in State : tracer'.states[s] = tracer.states[s]
           - Bit(s = <<pc, tracer.clock>>) + Bit(s = <<q, tracer.clock + 1>>)
  <2>1. PICK u : u = PushRow(tracer, pc, q)
    OBVIOUS
  <2>2. /\ u \in TracerType
        /\ u.clock = tracer.clock /\ u.last = tracer.last /\ u.initial = tracer.initial
        /\ u.spans = tracer.spans /\ u.ledger = tracer.ledger /\ u.gaps = tracer.gaps
        /\ u.reads = tracer.reads
        /\ u.rows = [tracer.rows EXCEPT ![pc] = tracer.rows[pc] + 1]
        /\ \A s \in State : u.states[s] = tracer.states[s]
             - Bit(s = <<pc, tracer.clock>>) + Bit(s = <<q, tracer.clock + 1>>)
    BY <1>1, <2>1, RowFields
  <2>3. tracer' = u
    BY <2>1 DEF Retire
  <2>4. QED
    BY <2>2, <2>3
<1>3. /\ UNCHANGED <<fixed, cont, keys>> /\ phase' = "loop" /\ pc' = q
      /\ UNCHANGED <<role, given, start, pc0>>
  BY DEF Retire, fixed
<1>4. TypeOK'
  BY <1>2, <1>3 DEF IInv, Bookkeeping, TypeOK, Phase
<1>5. /\ cont'[X0] = 0
      /\ Traced(tracer, start, cont)'
  BY <1>1, <1>2, <1>3, <1>4, NoAccess
<1>6. ClockRuns'
  BY <1>3, <1>5 DEF ClockRuns
<1>7. StatesTelescope'
  <2> SUFFICES ASSUME NEW s \in State
               PROVE  tracer'.states[s] = Bit(s = <<q, tracer.clock + 1>>)
                                            - Bit(s = <<pc0, 1>>)
    BY <1>2, <1>3 DEF StatesTelescope, RowClock, fixed
  <2>1. tracer.states[s] = Bit(s = <<pc, tracer.clock>>) - Bit(s = <<pc0, 1>>)
    BY <1>1 DEF IInv, Bookkeeping, StatesTelescope, RowClock
  <2>2. QED
    BY <1>2, <2>1 DEF Bit
<1>8. ReadsAhead'
  <2>1. \A p \in PC : tracer.reads[p] = IF p = pc THEN tracer.rows[p] + 1
                                                   ELSE tracer.rows[p]
    BY <1>1 DEF IInv, Bookkeeping, ReadsAhead
  <2>2. \A p \in PC : tracer'.rows[p] = IF p = pc THEN tracer.rows[p] + 1
                                                   ELSE tracer.rows[p]
    BY <1>1, <1>2 DEF TracerType
  <2>3. QED
    BY <1>2, <1>3, <2>1, <2>2 DEF ReadsAhead
<1>9. QED
  BY <1>3, <1>4, <1>5, <1>6, <1>7, <1>8 DEF IInv, Bookkeeping, OutputsAnchored

LEMMA SentinelStep == IInv /\ Sentinel => IInv'
<1> SUFFICES ASSUME IInv, Sentinel PROVE IInv'
  OBVIOUS
<1>1. /\ tracer \in TracerType /\ pc \in PC /\ tracer.clock \in Nat
      /\ phase = "loop" /\ role.is_last
  BY DEF IInv, Bookkeeping, TypeOK, TracerType, Clk, Sentinel
<1>2. /\ tracer' \in TracerType
      /\ tracer'.clock = tracer.clock /\ tracer'.last = tracer.last
      /\ tracer'.initial = tracer.initial
      /\ tracer'.spans = tracer.spans /\ tracer'.ledger = tracer.ledger
      /\ tracer'.gaps = tracer.gaps
      /\ tracer'.states = tracer.states /\ tracer'.rows = tracer.rows
      /\ tracer'.reads = [tracer.reads EXCEPT ![pc] = tracer.reads[pc] + 1]
  <2>1. tracer' = TraceInstr(tracer, pc)
    BY DEF Sentinel
  <2>2. QED
    BY <1>1, <2>1, InstrFields
<1>3. /\ UNCHANGED <<fixed, cont, keys, pc>> /\ phase' = "sentinel"
      /\ UNCHANGED <<role, given, start, pc0>>
  BY DEF Sentinel, fixed
<1>4. TypeOK'
  BY <1>2, <1>3 DEF IInv, Bookkeeping, TypeOK, Phase
<1>5. /\ cont'[X0] = 0
      /\ Traced(tracer, start, cont)'
  BY <1>1, <1>2, <1>3, <1>4, NoAccess
<1>6. ClockRuns' /\ StatesTelescope'
  BY <1>1, <1>2, <1>3, <1>5 DEF IInv, Bookkeeping, ClockRuns, StatesTelescope, RowClock
<1>7. ReadsAhead'
  <2>1. \A p \in PC : tracer.reads[p] = tracer.rows[p]
    BY <1>1 DEF IInv, Bookkeeping, ReadsAhead
  <2>2. \A p \in PC : tracer'.reads[p] = IF p = pc THEN tracer.reads[p] + 1
                                                    ELSE tracer.reads[p]
    BY <1>1, <1>2 DEF TracerType
  <2>3. QED
    BY <1>1, <1>2, <1>3, <2>1, <2>2 DEF ReadsAhead
<1>8. QED
  BY <1>3, <1>4, <1>5, <1>6, <1>7 DEF IInv, Bookkeeping, OutputsAnchored

\* A step that changes nothing but the phase, from one outside an instruction to one
\* at the end of a segment.
LEMMA PhaseStep ==
  ASSUME IInv, UNCHANGED <<fixed, cont, keys, pc, tracer>>,
         phase # "execute", phase' \in {"closed", "public", "panicked"},
         phase' = "public" => ~Panics(tracer, cont, role)
  PROVE  IInv'
<1>1. UNCHANGED <<role, given, start, pc0>>
  BY DEF fixed
<1>2. TypeOK' /\ Traced(tracer, start, cont)' /\ cont'[X0] = 0
  BY <1>1 DEF IInv, Bookkeeping, TypeOK, Phase
<1>3. ClockRuns' /\ StatesTelescope' /\ ReadsAhead' /\ OutputsAnchored'
  BY <1>1 DEF IInv, Bookkeeping, ClockRuns, StatesTelescope, RowClock, ReadsAhead,
       OutputsAnchored
<1>4. QED
  BY <1>2, <1>3 DEF IInv, Bookkeeping

LEMMA NextIInv == IInv /\ [Next]_vars => IInv'
<1> SUFFICES ASSUME IInv, [Next]_vars PROVE IInv'
  OBVIOUS
<1>0. cont \in Contents /\ keys \subseteq Word /\ cont[X0] = 0
  BY DEF IInv, Bookkeeping, TypeOK
<1>1. ASSUME NEW r \in Reg, ReadReg(r) PROVE IInv'
  <2>1. r \in Loc /\ cont[r] \in Val /\ (r = X0 => cont[r] = 0)
    BY <1>0 DEF Loc, Contents
  <2>2. cont' = Put(cont, r, cont[r]) /\ keys' \subseteq Word
    BY <1>0, <1>1, <2>1, PutContents DEF ReadReg
  <2>3. QED
    BY <1>1, <2>1, <2>2, AccessStep DEF ReadReg
<1>2. ASSUME NEW r \in Reg, NEW v \in Val, WriteReg(r, v) PROVE IInv'
  <2>1. PICK next : next = IF r = X0 THEN 0 ELSE v
    OBVIOUS
  <2>2. r \in Loc /\ next \in Val /\ (r = X0 => next = 0)
    BY <2>1, TracerAssumption DEF Loc
  <2>3. /\ cont' = Put(cont, r, next) /\ keys' \subseteq Word
        /\ tracer' = TraceAccess(tracer, r, cont[r], next)
        /\ phase = "execute" /\ UNCHANGED <<fixed, pc, phase>>
    BY <1>0, <1>2, <2>1 DEF WriteReg, Put
  <2>4. QED
    BY <2>2, <2>3, AccessStep
<1>3. ASSUME NEW w \in Word, ReadWord(w) PROVE IInv'
  <2>1. w \in Loc /\ cont[w] \in Val /\ w # X0
    BY <1>0, TracerAssumption, X0Assumption DEF Loc, Contents
  <2>2. cont' = Put(cont, w, cont[w]) /\ keys' \subseteq Word
    BY <1>0, <1>3, <2>1, PutContents DEF ReadWord
  <2>3. QED
    BY <1>3, <2>1, <2>2, AccessStep DEF ReadWord
<1>4. ASSUME NEW w \in Word, NEW v \in Val, WriteWord(w, v) PROVE IInv'
  <2>1. w \in Loc /\ w # X0
    BY TracerAssumption, X0Assumption DEF Loc
  <2>2. /\ cont' = Put(cont, w, v) /\ keys' \subseteq Word
        /\ tracer' = TraceAccess(tracer, w, cont[w], v)
        /\ phase = "execute" /\ UNCHANGED <<fixed, pc, phase>>
    BY <1>0, <1>4 DEF WriteWord, Put
  <2>3. QED
    BY <2>1, <2>2, AccessStep
<1>5. CASE Close
  BY <1>5, PhaseStep DEF Close
<1>6. CASE Publish
  BY <1>6, PhaseStep DEF Publish
<1>7. CASE UNCHANGED vars
  BY <1>7 DEF vars, IInv, Bookkeeping, TypeOK, ClockRuns, StatesTelescope, RowClock,
       ReadsAhead, OutputsAnchored
<1>8. QED
  BY <1>1, <1>2, <1>3, <1>4, <1>5, <1>6, <1>7, FetchStep, RetireStep, SentinelStep
     DEF Next

LEMMA Invariance == Spec => []IInv
  BY InitIInv, NextIInv, PTL DEF Spec

-----------------------------------------------------------------------------
\* Every variable keeps its type, whatever the guest does.
THEOREM TypeCorrect == Spec => []TypeOK
<1>1. IInv => TypeOK
  BY DEF IInv, Bookkeeping
<1>2. QED
  BY <1>1, Invariance, PTL

\* The rows of memory_access always cancel down to the initial and the latest state
\* of each location, whatever gaps fill_gap bridged.
THEOREM LedgerTelescopesAlways == Spec => []LedgerTelescopes
<1>1. IInv => LedgerTelescopes
  BY DEF IInv, Traced, LedgerTelescopes
<1>2. QED
  BY <1>1, Invariance, PTL

\* No opcode row ever sends range_check_20 a difference outside its table.
THEOREM SpansFitAlways == Spec => []SpansFit
<1>1. IInv => SpansFit
  BY DEF IInv, Traced, SpansFit
<1>2. QED
  BY <1>1, Invariance, PTL

\* The tracer's mem_initial is the memory the segment began with.
THEOREM FirstValueKeptAlways == Spec => []FirstValueKept
<1>1. IInv => FirstValueKept
  BY DEF IInv, Traced, FirstValueKept
<1>2. QED
  BY <1>1, Invariance, PTL

\* registers_state of a published segment cancels.
THEOREM StateBalanceAlways == Spec => []StateBalance
<1>1. IInv => StateBalance
  <2> SUFFICES ASSUME IInv, phase \in {"closed", "public"}, NEW s \in State
               PROVE  tracer.states[s] + StateAnchor(s, tracer, pc0, pc) = 0
    BY DEF StateBalance
  <2>1. tracer.states[s] = Bit(s = <<pc, tracer.clock + 1>>) - Bit(s = <<pc0, 1>>)
    BY DEF IInv, Bookkeeping, StatesTelescope, RowClock
  <2>2. QED
    BY <2>1 DEF StateAnchor, Bit
<1>2. QED
  BY <1>1, Invariance, PTL

\* The program table's multiplicities exceed the executed rows at a sentinel's pc only.
THEOREM ProgramResidueAlways == Spec => []ProgramResidue
<1>1. IInv => ProgramResidue
  BY DEF IInv, Bookkeeping, ReadsAhead, ProgramResidue
<1>2. QED
  BY <1>1, Invariance, PTL

\* For every layout, role and guest: a published segment's memory_access relation
\* cancels, which its verifier requires, exactly when the guest touched nothing but
\* committed words and, in the first segment, all of the input and nothing of the
\* input region beyond it.
THEOREM MemoryBalance == Spec => []MemoryBalanceExact
<1>1. IInv => MemoryBalanceExact
  <2> SUFFICES ASSUME IInv, phase = "public"
               PROVE  (\A x \in Tuple : MemorySum(x, tracer, start, cont, keys, given, role) = 0)
                        <=> Anchorable(Touched(tracer), given, role)
    BY DEF MemoryBalanceExact
  <2>1. Published(tracer, start, cont, given, role)
    BY DEF IInv, TypeOK, Bookkeeping, OutputsAnchored, Published
  <2>2. QED
    BY <2>1, BalanceExact
<1>2. QED
  BY <1>1, Invariance, PTL
=============================================================================
