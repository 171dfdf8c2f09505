------------------------------- MODULE Runner --------------------------------
(***************************************************************************)
(* run_segments_with_input (crates/runner/src/lib.rs): the loop that       *)
(* fetches, executes and traces a guest, closes a segment every            *)
(* SegmentCycles cycles, and returns one result per segment.  A run        *)
(* without segmentation has SegmentCycles beyond MaxCycles.                *)
(*                                                                         *)
(* The guest is any program: Init picks its words and input, and every     *)
(* instruction may access and write what its kind allows (module Guest).   *)
(***************************************************************************)
EXTENDS Guest, FiniteSets

CONSTANTS
  Entry,         \* loaded.entry
  Loaded,        \* words that PT_LOAD segments cover
  Halt,          \* halt_flag_addr
  SegmentCycles, \* segment_cycles
  MaxCycles,     \* max_cycles
  MaxSegments    \* bound on the segments of the model

ASSUME RunnerAssumption ==
  /\ Entry \in PC
  /\ Loaded \subseteq Word
  /\ {CodeWord[p] : p \in Text} \subseteq Loaded
  /\ Halt \in RwWord \ Loaded
  /\ SegmentCycles \in Nat \ {0}
  /\ MaxCycles \in Nat
  /\ MaxClock > MaxCycles
  /\ MaxSegments \in Nat \ {0}

VARIABLES
  given,      \* input words the run was started with
  core,       \* cpu, mem and tracer
  cache,      \* InstCache
  segs,       \* segments
  completed,  \* completed_cycles
  seg,        \* seg_initial_pc, and the registers (seg_initial_regs) and memory then
  seen,       \* history: the contents the word at each pc has had
  status

vars == <<given, core, cache, segs, completed, seg, seen, status>>

\* Ok(segments) is "halted"; the others are the errors of RunError.
Status == {"running", "halted", "too_large", "invalid", "max", "commit"}

\* RunResult, as far as the prover's public data reads it, and what Result adds to it.
SegmentResult ==
  [ role : Role, cycles : Nat, initial_pc : PC, final_pc : PC,
    initial_regs : [Reg -> Val], final_regs : [Reg -> Val],
    program_root : [Text -> Val],
    initial_rw_root : [RwWord -> Val] \cup {NoRoot},
    final_rw_root : [RwWord -> Val] \cup {NoRoot},
    panics : BOOLEAN, gaps : Nat, accessed : SUBSET Word, executed : SUBSET PC,
    unmatched : SUBSET PC, balanced : BOOLEAN ]

TypeOK ==
  /\ given \subseteq InputWord
  /\ core \in Core
  /\ cache \in [PC -> Val \cup {NoVal}]
  /\ segs \in Seq(SegmentResult) /\ Len(segs) <= MaxSegments
  /\ completed \in Nat
  /\ seg \in [pc : PC, cont : Contents]
  /\ seen \in [PC -> SUBSET Val]
  /\ status \in Status

\* Loading the ELF and the input.  Registers are zeroed apart from sp and gp.
LoadedContents(inputs) ==
  {c \in Contents : /\ c[X0] = 0
                        /\ \A w \in Word \ (Loaded \cup inputs) : c[w] = 0}

\* An input longer than the region is refused before anything is written.
Init ==
  \E n \in 0 .. Len(InputSeq) + 1 :
    /\ given = IF n > Len(InputSeq) THEN {} ELSE {InputSeq[i] : i \in 1 .. n}
    /\ status = IF n > Len(InputSeq) THEN "too_large" ELSE "running"
    /\ core \in [pc : {Entry}, cont : LoadedContents(given), keys : {Loaded \cup given},
                 tracer : {NewTracer}]
    /\ cache = [p \in PC |-> NoVal]
    /\ segs = <<>>
    /\ completed = 0
    /\ seg = [pc |-> Entry, cont |-> core.cont]
    /\ seen = [p \in PC |-> {Fetched(p, core.cont)}]

-----------------------------------------------------------------------------
\* get_or_decode: the word's value as first decoded at pc.
Decoded(pc) == IF cache[pc] = NoVal THEN Fetched(pc, core.cont) ELSE cache[pc]

Regs(cont) == [r \in Reg |-> cont[r]]

\* Whether the segment's memory_access relation cancels.
Balanced(c, role) ==
  \A x \in Tuple : MemorySum(x, c.tracer, seg.cont, c.cont, c.keys, given, role) = 0

\* finalize_commitments_with_role, make_run_result, and the part of PublicData::new
\* that reads the result.  The last six fields are history: they summarise the
\* segment's tracer.  decoded is the decode cache when the segment closes.
Result(c, decoded, role) ==
  [ role           |-> role,
    cycles         |-> c.tracer.clock,
    initial_pc     |-> seg.pc,
    final_pc       |-> c.pc,
    initial_regs   |-> Regs(seg.cont),
    final_regs     |-> Regs(c.cont),
    program_root   |-> ProgramRoot(c.cont),
    initial_rw_root |-> InitialRoot(c.tracer, c.cont, c.keys, role),
    final_rw_root  |-> FinalRoot(c.tracer, c.cont, c.keys, role),
    panics         |-> Panics(c.tracer, c.cont, role),
    gaps           |-> c.tracer.gaps,
    accessed       |-> Touched(c.tracer),
    executed       |-> {p \in PC : c.tracer.rows[p] > 0},
    unmatched      |-> Unmatched(c.tracer, c.cont, decoded),
    balanced       |-> Balanced(c, role) ]

RoleNow(last) == [is_first |-> segs = <<>>, is_last |-> last]

\* The loop was left in state c: the final segment is closed, or committing to the
\* program fails.
Finish(c) ==
  /\ segs' = IF Committable(c.cont) THEN Append(segs, Result(c, cache', RoleNow(TRUE)))
             ELSE segs
  /\ status' = IF Committable(c.cont) THEN "halted" ELSE "commit"

\* The guest set its halt flag, which is read before anything else.
HaltFlag ==
  /\ status = "running"
  /\ core.cont[Halt] # 0
  /\ UNCHANGED <<given, core, cache, completed, seg, seen>>
  /\ Finish(core)

Running == status = "running" /\ core.cont[Halt] = 0

Full == core.tracer.clock >= SegmentCycles

\* Bug: the halt flag is read after the boundary.
BoundaryFirst == status = "running" /\ Full

\* The loop is at a segment's boundary.
Boundary == Running /\ Full

\* Bug: the new tracer keeps the clocks of the locations.
TakeClocks(t) == [NewTracer EXCEPT !.last = t.last]

\* Bug: the new tracer keeps the fetch counts.
TakeReads(t) == [NewTracer EXCEPT !.reads = t.reads]

\* Bug: the tracer is cloned and stays in place.
TakeNothing(t) == t

\* std::mem::take leaves Tracer::default().
TakeTracer(t) == NewTracer

\* Bug: seg_initial_regs is not renewed.
StartHereOldRegs(c) ==
  [pc |-> c.pc, cont |-> [l \in Loc |-> IF l \in Reg THEN seg.cont[l] ELSE c.cont[l]]]

\* Where the next segment starts.
StartHere(c) == [pc |-> c.pc, cont |-> c.cont]

\* The boundary: the tracer is taken and the next segment starts in its place.
CloseSegment ==
  /\ Boundary
  /\ Committable(core.cont)
  /\ Len(segs) < MaxSegments - 1
  /\ segs' = Append(segs, Result(core, cache, RoleNow(FALSE)))
  /\ completed' = completed + core.tracer.clock
  /\ core' = [core EXCEPT !.tracer = TakeTracer(@)]
  /\ seg' = StartHere(core)
  /\ UNCHANGED <<given, cache, seen, status>>

\* A word of the program range no longer decodes at a boundary.
CommitFails ==
  /\ Boundary
  /\ ~Committable(core.cont)
  /\ status' = "commit"
  /\ UNCHANGED <<given, core, cache, segs, completed, seg, seen>>

InvalidInstruction ==
  /\ Running
  /\ ~Full
  /\ Kind[Decoded(core.pc)] = "none"
  /\ status' = "invalid"
  /\ UNCHANGED <<given, core, cache, segs, completed, seg, seen>>

\* A self-loop is fetched and counted, not executed: `jal x0, 0`, or a jalr without a
\* link whose target is its own pc.
Sentinel ==
  /\ Running
  /\ ~Full
  /\ Kind[Decoded(core.pc)] \in {"sentinel", "jalr"}
  /\ cache' = [cache EXCEPT ![core.pc] = Decoded(core.pc)]
  /\ core' = [core EXCEPT !.tracer = TraceInstr(@, core.pc)]
  /\ Finish(core')
  /\ UNCHANGED <<given, completed, seg, seen>>

Executable == Kinds \ {"none", "sentinel"}

\* Bug: the cycles of the segments already closed are forgotten.
CyclesOfSegment(c) == c.tracer.clock

\* completed_cycles + tracer.clock.
Cycles(c) == completed + c.tracer.clock

\* One instruction is fetched, decoded, executed and traced.  An instruction that
\* leaves the pc where it was ends the run; only then is the limit looked at.
ExecuteStep ==
  /\ Running
  /\ ~Full
  /\ Kind[Decoded(core.pc)] \in Executable
  /\ cache' = [cache EXCEPT ![core.pc] = Decoded(core.pc)]
  /\ core' \in Execute(Kind[Decoded(core.pc)],
                       [core EXCEPT !.tracer = TickClock(TraceInstr(@, core.pc))])
  /\ seen' = [p \in PC |-> seen[p] \cup {Fetched(p, core'.cont)}]
  /\ IF core'.pc = core.pc
       THEN Finish(core')
       ELSE /\ status' = IF Cycles(core') > MaxCycles THEN "max" ELSE "running"
            /\ UNCHANGED segs
  /\ UNCHANGED <<given, completed, seg>>

Next ==
  \/ HaltFlag
  \/ CloseSegment
  \/ CommitFails
  \/ InvalidInstruction
  \/ Sentinel
  \/ ExecuteStep

Spec == Init /\ [][Next]_vars

\* One thread runs the loop and nothing in it waits: it always takes its next step.
FairSpec == Spec /\ WF_vars(Next)

-----------------------------------------------------------------------------
(***************************************************************************)
(* Properties.                                                             *)
(***************************************************************************)
Interior == 1 .. Len(segs) - 1

\* The guest kept to what its segment can anchor.
Kept(s) == Anchorable(s.accessed, given, s.role)

CpuChains(s, t) ==
  /\ s.final_pc = t.initial_pc
  /\ s.final_regs = t.initial_regs
  /\ s.program_root # t.program_root => ~Kept(s) \/ ~Kept(t)

\* Consecutive results chain on pc, registers and program from the entry point to where
\* the guest stopped, unless the guest stored into its program.
ChainsOnCpu ==
  /\ segs # <<>> => segs[1].initial_pc = Entry
  /\ \A i \in Interior : CpuChains(segs[i], segs[i + 1])
  /\ status = "halted" => segs[Len(segs)].final_pc = core.pc
                          /\ segs[Len(segs)].final_regs = Regs(core.cont)

\* The words a first segment's final tree lacks: the part of the input region it did
\* not access.
Unanchored(s) == IF s.role.is_first THEN InputWord \ s.accessed ELSE {}

RootChains(s, t) ==
  s.final_rw_root = t.initial_rw_root <=>
    /\ s.final_rw_root = NoRoot <=> t.initial_rw_root = NoRoot
    /\ t.initial_rw_root # NoRoot => \A w \in Unanchored(s) : t.initial_rw_root[w] = 0

\* Consecutive results chain on the read-write root exactly when both segments or
\* neither have a committed word, and every input word the first segment leaves
\* unread is 0.
ChainsOnRoot == \A i \in Interior : RootChains(segs[i], segs[i + 1])

\* A guest that sets its halt flag in the last cycle of a segment ends the run with that
\* segment: only a self-loop right at a boundary leaves a last segment without cycles
\* after another one.
HaltClosesOnce ==
  status = "halted" /\ core.cont[Halt] # 0 /\ Len(segs) > 1 => segs[Len(segs)].cycles > 0

\* Every segment but the last has SegmentCycles cycles, none has more, no cycle is
\* counted twice or lost, and none needs a clock-gap row when segments are no longer
\* than what a row bridges; a halt flag closes no empty segment after a full one.
SegmentLengths ==
  /\ \A i \in DOMAIN segs :
       /\ segs[i].cycles <= SegmentCycles
       /\ i < Len(segs) \/ ~segs[i].role.is_last => segs[i].cycles = SegmentCycles
       /\ SegmentCycles <= MaxDiff => segs[i].gaps = 0
  /\ completed = SegmentCycles * Cardinality({i \in DOMAIN segs : ~segs[i].role.is_last})
  /\ HaltClosesOnce

\* Each segment of a run balances on its own, and the guest's discipline alone decides
\* it: nothing of a segment's tracer or memory leaks into the next one's.
SegmentsBalance ==
  \A i \in DOMAIN segs : ~segs[i].panics => (segs[i].balanced <=> Kept(segs[i]))

\* The guest stopped at a self-loop in its program: the pc of the fetch left over.
Spins(s, p) ==
  s.role.is_last /\ p \in Text /\ p = s.final_pc /\ Kind[cache[p]] \in {"sentinel", "jalr"}

\* The pcs at which program_access does not cancel are those executed outside the
\* program range, all of them, and possibly that of a final self-loop.
ProgramBalances(s) ==
  /\ s.executed \ Text \subseteq s.unmatched
  /\ \A p \in s.unmatched : p \in s.executed \ Text \/ Spins(s, p)

\* Whatever the decode cache returns and wherever a run is cut, program_access holds a
\* segment to the program it commits to: no instruction of a provable segment is a stale
\* one or lies outside the program.  Where some segment stored into the program, that
\* segment has no proof.
CommittedIsExecuted ==
  (\A i \in DOMAIN segs : Kept(segs[i])) => \A i \in DOMAIN segs : ProgramBalances(segs[i])

\* Instructions executed since the run began.
Executed == completed + core.tracer.clock

\* A run is aborted in the first cycle beyond the limit, counted over all segments.  Only
\* a guest that spins in that very cycle gets away with it: the self-loop exit comes
\* before the limit is looked at.
CycleLimit ==
  /\ status = "running" => Executed <= MaxCycles
  /\ status = "halted" => Executed <= MaxCycles + 1
  /\ status = "max" => Executed = MaxCycles + 1

\* Every run comes to an end, whatever the guest does.
Termination == <>(status # "running")

\* Segmenting, tracing and caching change nothing of what the guest does.
Unsegmented ==
  INSTANCE Machine WITH pc <- core.pc, cont <- core.cont, text <- seen,
                        cycles <- Executed, status <- status

RefinesMachine == Unsegmented!Spec

-----------------------------------------------------------------------------
(***************************************************************************)
(* What makes the properties above inductive.                              *)
(***************************************************************************)
\* The segment's own numbers.
WellMade(s) ==
  /\ s.cycles <= SegmentCycles
  /\ ~s.role.is_last => s.cycles = SegmentCycles
  /\ SegmentCycles <= MaxDiff => s.gaps = 0
  /\ ~s.panics => (s.balanced <=> Kept(s))

Roles ==
  /\ status = "halted" => segs # <<>>
  /\ \A i \in DOMAIN segs :
       segs[i].role = [is_first |-> i = 1, is_last |-> status = "halted" /\ i = Len(segs)]

Counts ==
  /\ core.tracer.clock <= SegmentCycles
  /\ status = "running" => Len(segs) < MaxSegments
  /\ completed = SegmentCycles * (IF status = "halted" THEN Len(segs) - 1 ELSE Len(segs))

\* The memory a segment leaves: what its final root binds, when there is one.
Leaves(s, cont) ==
  s.final_rw_root # NoRoot =>
    \A w \in RwWord : s.final_rw_root[w] = IF w \in Unanchored(s) THEN 0 ELSE cont[w]

\* The running segment starts where the last one closed.
Resumes(s) ==
  /\ s.final_pc = seg.pc
  /\ s.final_regs = Regs(seg.cont)
  /\ s.program_root = ProgramRoot(seg.cont)
  /\ Leaves(s, seg.cont)

Links ==
  /\ segs = <<>> => seg.pc = Entry
  /\ segs # <<>> /\ status # "halted" => Resumes(segs[Len(segs)])

\* No segment closed so far touched its program.
Clean == \A i \in DOMAIN segs : segs[i].accessed \subseteq RwWord

\* The cache holds what the word at a pc once was and decodes, and while no store has hit
\* the program, what a program word is.
Cached ==
  /\ \A p \in PC : /\ cache[p] \in seen[p] \cup {NoVal}
                   /\ Fetched(p, core.cont) \in seen[p]
                   /\ cache[p] # NoVal => Kind[cache[p]] # "none"
                   /\ core.tracer.rows[p] > 0 => cache[p] # NoVal
  /\ Clean /\ Touched(core.tracer) \subseteq RwWord =>
       \A p \in Text : cache[p] \in {NoVal, Fetched(p, seg.cont)}

\* Between two instructions each fetch has its row.
Paired == status = "running" => core.tracer.reads = core.tracer.rows

\* The cycle that set the halt flag is in the running segment.
FlagRead == status = "running" /\ segs # <<>> /\ core.cont[Halt] # 0 => core.tracer.clock > 0

\* program_access of every segment closed so far, while the program is untouched.
Committed == Clean => \A i \in DOMAIN segs : ProgramBalances(segs[i])

\* The inductive invariant that the proofs of RunnerProofs use.
IInv ==
  /\ TypeOK
  /\ Sound(core, seg.cont)
  /\ \A i \in DOMAIN segs : WellMade(segs[i])
  /\ Roles
  /\ Counts
  /\ CycleLimit
  /\ Links
  /\ ChainsOnCpu
  /\ ChainsOnRoot
  /\ Cached
  /\ Paired
  /\ Committed
  /\ FlagRead
  /\ HaltClosesOnce

=============================================================================
