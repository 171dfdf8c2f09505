-------------------------------- MODULE Guest --------------------------------
(***************************************************************************)
(* Instructions of a guest program as the runner executes and traces them  *)
(* (crates/runner/src/cpu.rs, memory.rs, execute.rs and ops/).             *)
(*                                                                         *)
(* The opcodes are grouped by what they access and in which order; within  *)
(* a group, which registers and words are accessed and which values are    *)
(* written is left open.  Code is memory: the word at any pc holds a       *)
(* value, Kind tells what it decodes to, and a store may overwrite it.     *)
(* The program range, which the program root covers, is only part of it:   *)
(* loaded data, the stack and the I/O regions may be executed as well.     *)
(***************************************************************************)
EXTENDS Commitment

CONSTANTS
  X0,         \* the register hardwired to 0
  Text,       \* pcs in [program_base, program_end)
  CodeWord,   \* the memory word at each pc
  Kind        \* what a word's value decodes to

\* The groups of opcodes, the self-loop `jal x0, 0`, and a value that decodes to nothing.
Kinds ==
  {"r", "i", "u", "load", "store", "branch", "jal", "jalr", "sentinel", "none"}

ASSUME GuestAssumption ==
  /\ X0 \in Reg
  /\ PC \subseteq Nat /\ 0 \in PC
  /\ Text \subseteq PC
  /\ CodeWord \in [PC -> Word]
  /\ \A p, q \in PC : CodeWord[p] = CodeWord[q] => p = q
  /\ \A p \in Text : CodeWord[p] \notin RwWord
  /\ Kind \in [Val -> Kinds]
  /\ Kind[0] = "none"

\* The guest and its tracer: Cpu, Memory and Tracer.
Core == [pc : PC, cont : Contents, keys : SUBSET Word, tracer : TracerType]

\* Memory::read_u32 at a pc, inside the program range or not.
Fetched(pc, cont) == cont[CodeWord[pc]]

-----------------------------------------------------------------------------
\* Cpu::read_reg.
ReadReg(c, r) == [c EXCEPT !.tracer = TraceAccess(@, r, c.cont[r], c.cont[r])]

\* Bug: x0 can be written.
WriteRegAny(c, r, v) ==
  [c EXCEPT !.cont[r] = v, !.tracer = TraceAccess(@, r, c.cont[r], v)]

\* Cpu::write_reg: x0 keeps 0, and is traced as written with 0.
WriteReg(c, r, v) ==
  LET next == IF r = X0 THEN 0 ELSE v
  IN  [c EXCEPT !.cont[r] = next, !.tracer = TraceAccess(@, r, c.cont[r], next)]

\* Memory::read_*_traced.
ReadWord(c, w) == [c EXCEPT !.tracer = TraceAccess(@, w, c.cont[w], c.cont[w])]

\* Bug: the write is not traced.
WriteWordUntraced(c, w, v) == [c EXCEPT !.cont[w] = v, !.keys = @ \cup {w}]

\* Memory::write_*_traced: a narrow store leaves any value in its word.
WriteWord(c, w, v) ==
  [c EXCEPT !.cont[w] = v, !.keys = @ \cup {w},
            !.tracer = TraceAccess(@, w, c.cont[w], v)]

\* The row is pushed, and the pc is the next one.
Retire(c, next) == [c EXCEPT !.tracer = PushRow(@, c.pc, next), !.pc = next]

\* Cpu::advance_pc, wrapping at the end of the pcs as u32 wraps.
Advance(pc) == IF pc + 4 \in PC THEN pc + 4 ELSE 0

-----------------------------------------------------------------------------
\* ops/alu.rs, ops/muldiv.rs: rs1, rs2, rd.
RType(c) ==
  {Retire(WriteReg(ReadReg(ReadReg(c, rs1), rs2), rd, v), Advance(c.pc)) :
     rs1 \in Reg, rs2 \in Reg, rd \in Reg, v \in Val}

\* ops/alu_imm.rs: rs1, rd.
IType(c) ==
  {Retire(WriteReg(ReadReg(c, rs1), rd, v), Advance(c.pc)) :
     rs1 \in Reg, rd \in Reg, v \in Val}

\* ops/upper.rs: rd.
UType(c) == {Retire(WriteReg(c, rd, v), Advance(c.pc)) : rd \in Reg, v \in Val}

\* ops/load.rs: rs1, the word, rd.
Load(c) ==
  {Retire(WriteReg(ReadWord(ReadReg(c, rs1), w), rd, v), Advance(c.pc)) :
     rs1 \in Reg, w \in Word, rd \in Reg, v \in Val}

\* ops/store.rs: rs1, rs2, the word.
Store(c) ==
  {Retire(WriteWord(ReadReg(ReadReg(c, rs1), rs2), w, v), Advance(c.pc)) :
     rs1 \in Reg, rs2 \in Reg, w \in Word, v \in Val}

\* ops/branch.rs: rs1, rs2; taken to any pc, the branch itself included, or not taken.
Branch(c) ==
  {Retire(ReadReg(ReadReg(c, rs1), rs2), next) :
     rs1 \in Reg, rs2 \in Reg, next \in PC}

\* ops/jump.rs, jal: rd; only `jal rd, 0` with rd other than x0 keeps its pc.
Jal(c) ==
  {Retire(WriteReg(c, rd, v), next) :
     rd \in Reg, v \in Val, next \in PC} \ {Retire(WriteReg(c, X0, 0), c.pc)}

\* ops/jump.rs, jalr: rs1, rd; a jalr to itself without a link is a sentinel.
Jalr(c) ==
  {Retire(WriteReg(ReadReg(c, rs1), rd, v), next) :
     rs1 \in Reg, rd \in Reg, v \in Val, next \in PC}
  \ {Retire(WriteReg(ReadReg(c, rs1), X0, 0), c.pc) : rs1 \in Reg}

\* execute: the states an instruction of kind k may leave.
Execute(k, c) ==
  CASE k = "r"      -> RType(c)
    [] k = "i"      -> IType(c)
    [] k = "u"      -> UType(c)
    [] k = "load"   -> Load(c)
    [] k = "store"  -> Store(c)
    [] k = "branch" -> Branch(c)
    [] k = "jal"    -> Jal(c)
    [] k = "jalr"   -> Jalr(c)

-----------------------------------------------------------------------------
\* decode_program: words of 0 are skipped, any other must decode.
Committable(mem) ==
  \A p \in Text : Fetched(p, mem) # 0 => Kind[Fetched(p, mem)] # "none"

\* The program root binds the program's words; skipped ones are 0 like default leaves.
ProgramRoot(mem) == [p \in Text |-> Fetched(p, mem)]

\* What program_access adds up to on the instruction v at pc: push_program_rows emits a
\* word of the program range, when it is not 0, as often as its pc was fetched; each row
\* of an instruction consumes what was decoded for it, which is decoded[pc].
ProgramSum(pc, v, t, mem, decoded) ==
    (IF pc \in Text /\ v # 0 /\ v = Fetched(pc, mem) THEN t.reads[pc] ELSE 0)
  - (IF v = decoded[pc] THEN t.rows[pc] ELSE 0)

\* The pcs at which program_access does not cancel.
Unmatched(t, mem, decoded) ==
  {p \in PC : \E v \in Val : ProgramSum(p, v, t, mem, decoded) # 0}

-----------------------------------------------------------------------------
\* What holds between any two accesses of a segment that began with the contents start:
\* the tracer speaks of them, x0 is 0, and a word without bytes reads 0.
Sound(c, start) ==
  /\ c \in Core
  /\ Traced(c.tracer, start, c.cont)
  /\ c.cont[X0] = 0
  /\ \A w \in Word \ c.keys : c.cont[w] = 0
=============================================================================
