------------------------------ MODULE Opcodes ------------------------------
(***************************************************************************)
(* One decoded instruction is executed and pushes its row: the opcode      *)
(* functions of runner/src/ops (Ops) against the table of air/src/         *)
(* schema.rs the row goes to (Schema).  One action per table.              *)
(***************************************************************************)
EXTENDS Schema

CONSTANTS
  Opcodes,        \* the opcodes executed
  Words,          \* operand values
  MemWords,       \* values of the memory word addressed
  Imms,           \* I- and S-type immediates
  Offsets,        \* B- and J-type immediates
  UpperImms,      \* U-type immediates
  Pcs             \* program counters

ASSUME OperandAssumption ==
  /\ Words \cup MemWords \subseteq Word
  /\ Imms \subseteq -(ImmSize \div 2) .. ImmSize \div 2 - 1
  /\ Pcs \subseteq {4 * i : i \in 0 .. WordSize \div 4 - 1}

VARIABLES inst, row
vars == <<inst, row>>

NoRow == [op |-> "none"]

Jumps == {"jal", "jalr"}
Upper == {"lui", "auipc"}
ReadsRs2 == BaseAlu \cup Shifts \cup Lt \cup BranchEq \cup BranchLt \cup {"mul"} \cup MulHigh \cup Div
ITypeOrS == BaseAluImm \cup LtImm \cup Loads \cup Stores \cup {"jalr"}

\* The row trace_op! pushes.
Row(x) ==
  [op |-> x.op, pc |-> x.pc, next_pc |-> NextPc(x),
   rd |-> x.rd, rs1_idx |-> x.rs1_idx, rs2_idx |-> x.rs2_idx,
   r2_idx |-> IF x.op \in Stores THEN x.rs2_idx ELSE x.rd,
   imm_felt |-> x.imm % M31_P,
   rs1 |-> Limbs(x.rs1), rs2 |-> Limbs(x.rs2),
   src |-> Limbs(IF x.op \in Loads THEN x.mem ELSE x.rs2),
   dst |-> Limbs(Recorded(x)),
   cmp_result |-> IF x.op \in BranchEq \cup BranchLt THEN Bit(Taken(x)) ELSE Result(x),
   w |-> Witness(x)]

\* The immediates an opcode can be decoded with.
ImmsOf(op) ==
  CASE op \in ShiftsImm -> 0 .. ShiftRange - 1
    [] op \in Upper -> UpperImms
    [] op \in BranchEq \cup BranchLt \cup {"jal"} -> Offsets
    [] op \in ITypeOrS -> Imms
    [] OTHER -> {0}

\* The debug assertions of memory.rs: an access is aligned to its width.
Aligned(x) == x.op \in Loads \cup Stores => Address(x) % Width(x.op) = 0

Instructions(op) ==
  {x \in [op : {op}, pc : IF op \in {"auipc"} \cup Jumps \cup BranchEq \cup BranchLt THEN Pcs ELSE {8},
          rd : IF op \in BranchEq \cup BranchLt \cup Stores THEN {0} ELSE {0, 5},
          rs1_idx : {6}, rs2_idx : {7},
          rs1 : IF op \in Upper \cup {"jal"} THEN {0} ELSE Words,
          rs2 : IF op \in Stores THEN MemWords ELSE IF op \in ReadsRs2 THEN Words ELSE {0},
          imm : ImmsOf(op),
          mem : IF op \in Loads \cup Stores THEN MemWords ELSE {0}] : Aligned(x)}

Init ==
  /\ \E op \in Opcodes : inst \in Instructions(op)
  /\ row = NoRow

Push(table) ==
  /\ row = NoRow
  /\ inst.op \in table
  /\ row' = Row(inst)
  /\ UNCHANGED inst

PushBaseAluReg == Push(BaseAlu)
PushBaseAluImm == Push(BaseAluImm)
PushShiftsReg == Push(Shifts)
PushShiftsImm == Push(ShiftsImm)
PushLtReg == Push(Lt)
PushLtImm == Push(LtImm)
PushBranchEq == Push(BranchEq)
PushBranchLt == Push(BranchLt)
PushLui == Push({"lui"})
PushAuipc == Push({"auipc"})
PushJalr == Push({"jalr"})
PushJal == Push({"jal"})
PushLoadStore == Push(Loads \cup Stores)
PushMul == Push({"mul"})
PushMulh == Push(MulHigh)
PushDiv == Push(Div)

Next ==
  \/ PushBaseAluReg \/ PushBaseAluImm \/ PushShiftsReg \/ PushShiftsImm
  \/ PushLtReg \/ PushLtImm \/ PushBranchEq \/ PushBranchLt
  \/ PushLui \/ PushAuipc \/ PushJalr \/ PushJal
  \/ PushLoadStore \/ PushMul \/ PushMulh \/ PushDiv

Spec == Init /\ [][Next]_vars

-----------------------------------------------------------------------------
Pushed == row # NoRow

\* A word auipc, jal and load_store accept as an M31.
IsM31(n) == n < WordSize \div 2 /\ ~(Limb(n, 0) = Base - 1 /\ Limb(n, 3) = Base \div 2 - 1)

InRange(n) == n \in Word

\* x0 holds the opcode's result only if that is 0.
Kept(x) == x.rd # 0 \/ Result(x) = 0

\* The sign of a mulh operand is added to a limb that already has it, so each negative
\* signed operand counts as 2^31 too large.  The 64-bit product exceeds the right one by
\* 2^31 times Excess; mulh's row holds if what is recorded is off by just that.
Excess(x) ==
  LET a == IF x.op \in {"mulh", "mulhsu"} THEN I32(x.rs1) ELSE x.rs1
      b == IF x.op = "mulh" THEN I32(x.rs2) ELSE x.rs2
  IN  Bit(a < 0) * b + Bit(b < 0) * a + Bit(a < 0 /\ b < 0) * (WordSize \div 2)

\* What the tables need of an execution, said of the instruction alone.
Provable(x) ==
  CASE x.op \in BranchEq \cup BranchLt -> Taken(x) => InRange(x.pc + x.imm)
    [] x.op = "auipc" -> IF x.rd = 0 THEN x.pc + x.imm = 0
                         ELSE InRange(x.pc + x.imm) /\ IsM31(x.pc + x.imm)
    [] x.op = "jal" -> InRange(x.pc + x.imm) /\ (x.rd = 0 \/ IsM31(x.pc + 4))
    [] x.op = "jalr" -> InRange(x.rs1 + x.imm) /\ IsM31(x.rs1) /\ (x.rd = 0 \/ IsM31(x.pc + 4))
    [] x.op \in Loads \cup Stores ->
         /\ x.op \in Loads => Kept(x)
         /\ IsM31(x.rs1)
         /\ x.rs1 + x.imm \in 0 .. 4 * 2 ^ RangeBits - 1
    [] x.op \in MulHigh -> Excess(x) % 2 = 0 /\ U32(Result(x) + Excess(x) \div 2) = Recorded(x)
    [] OTHER -> Kept(x)

\* The row an opcode function pushes satisfies the constraints, range checks and bitwise
\* lookups of its table exactly if the execution is one the table can express: the witness
\* of every other execution is right (ops/*.rs against schema.rs).
ProvableExactly == Pushed => (Satisfied(row) <=> Provable(inst))

\* What a row consumes from program_access is what decode_program_word put in the program
\* table for its word: operand order, immediates as felts or as unsigned fields.
FetchMatches == Pushed => Fetched(row) = ProgramValues(inst)

\* mulh and mulhsu compute the high word of a signed product (airs.md:1360), and a guest
\* that uses them can be proved.
MulhProvable == Pushed /\ inst.op \in MulHigh /\ Kept(inst) => Satisfied(row)
=============================================================================
