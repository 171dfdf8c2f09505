-------------------------------- MODULE Ops --------------------------------
(***************************************************************************)
(* runner/src/ops: what each opcode computes, and the columns of the row   *)
(* it pushes.  A word has four limbs of LimbBits bits (8 in the code; the  *)
(* runs use 4, so that every product fits TLC's integers).  The felt of a  *)
(* negative number is that negative number, the field being Z mod M31_P;   *)
(* an inverse is represented by what it is the inverse of.                 *)
(***************************************************************************)
EXTENDS Integers, Bitwise, TLC

CONSTANT LimbBits

ASSUME LimbAssumption == LimbBits \in {4, 8}

Base == 2 ^ LimbBits
WordSize == Base * Base * Base * Base
Word == 0 .. WordSize - 1
M31_P == WordSize \div 2 - 1
LimbIndex == 0 .. 3

\* The width of a shift amount, of a signed I-type immediate's part above its first
\* limb, and the step of a U-type immediate: 5 bits, 3 bits and a sign, 12 bits.
ShiftRange == 4 * LimbBits
ImmHigh == 8
ImmSize == 2 * ImmHigh * Base
UpperStep == Base * 2 ^ (LimbBits \div 2)

Bit(b) == IF b THEN 1 ELSE 0
U32(n) == n % WordSize
I32(w) == IF w >= WordSize \div 2 THEN w - WordSize ELSE w
Limb(w, i) == (w \div Base ^ i) % Base
Limbs(w) == [i \in LimbIndex |-> Limb(w, i)]
OneHot(S, k) == [i \in S |-> Bit(i = k)]
TopBit(w) == w \div (WordSize \div 2)

\* The highest limb in which f and g differ; -1 if they are equal.
HighestDifference(f, g) ==
  LET D == {i \in LimbIndex : f[i] # g[i]}
  IN  IF D = {} THEN -1 ELSE CHOOSE i \in D : \A j \in D : j <= i

BaseAlu == {"add", "sub", "xor", "or", "and"}
BaseAluImm == {"addi", "xori", "ori", "andi"}
Shifts == {"sll", "srl", "sra"}
ShiftsImm == {"slli", "srli", "srai"}
Lt == {"slt", "sltu"}
LtImm == {"slti", "sltiu"}
BranchEq == {"beq", "bne"}
BranchLt == {"blt", "bltu", "bge", "bgeu"}
Loads == {"lb", "lh", "lw", "lbu", "lhu"}
Stores == {"sb", "sh", "sw"}
MulHigh == {"mulh", "mulhsu", "mulhu"}
Div == {"div", "divu", "rem", "remu"}
Signed == {"slt", "slti", "blt", "bge", "div", "rem"}

-----------------------------------------------------------------------------
\* The instruction and what it reads: pc, register indices, the values rs1 and rs2 of
\* the registers, the immediate, and the memory word `mem' a load or store addresses.

Address(x) == U32(x.rs1 + x.imm)
Width(op) ==
  CASE op \in {"lb", "lbu", "sb"} -> 1
    [] op \in {"lh", "lhu", "sh"} -> 2
    [] OTHER -> 4

\* The Width(op) limbs of w that start at the addressed one.
Extract(op, w, offset) == (w \div Base ^ offset) % Base ^ Width(op)
SignExtend(v, width) == IF v >= Base ^ width \div 2 THEN U32(v - Base ^ width) ELSE v

\* write_u8, write_u16, write_u32: the word with those limbs replaced.
Stored(x) ==
  LET offset == Address(x) % 4
      n == Base ^ Width(x.op)
  IN  x.mem + ((x.rs2 % n) - Extract(x.op, x.mem, offset)) * Base ^ offset

\* The 64-bit product of two numbers as <<high, low>> words.
Product(a, b) ==
  LET Half == Base * Base
      upper == a * (b \div Half) + (a * (b % Half)) \div Half
      lower == (a * (b % Half)) % Half
  IN  <<U32(upper \div Half), (upper % Half) * Half + lower>>

Abs(n) == IF n < 0 THEN -n ELSE n
\* wrapping_div and wrapping_rem truncate toward zero.
Quot(a, b) == IF (a < 0) = (b < 0) THEN Abs(a) \div Abs(b) ELSE -(Abs(a) \div Abs(b))
Rem(a, b) == a - b * Quot(a, b)

Overflow(x) == x.rs1 = WordSize \div 2 /\ x.rs2 = WordSize - 1

DivResult(x) ==
  CASE x.rs2 = 0 -> IF x.op \in {"div", "divu"} THEN WordSize - 1 ELSE x.rs1
    [] x.op = "div" -> IF Overflow(x) THEN x.rs1 ELSE U32(Quot(I32(x.rs1), I32(x.rs2)))
    [] x.op = "rem" -> IF Overflow(x) THEN 0 ELSE U32(Rem(I32(x.rs1), I32(x.rs2)))
    [] x.op = "divu" -> x.rs1 \div x.rs2
    [] x.op = "remu" -> x.rs1 % x.rs2
    [] OTHER -> 0

\* i32 or u32 comparison, by opcode.
Less(op, a, b) == IF op \in Signed THEN I32(a) < I32(b) ELSE a < b

\* The second operand of an ALU opcode.
Operand(x) == IF x.op \in BaseAluImm \cup LtImm \cup ShiftsImm THEN U32(x.imm) ELSE x.rs2
Shamt(x) == Operand(x) % ShiftRange

AluResult(x) ==
  LET b == Operand(x) IN
  CASE x.op \in {"add", "addi"} -> U32(x.rs1 + b)
    [] x.op = "sub" -> U32(x.rs1 - b)
    [] x.op \in {"xor", "xori"} -> x.rs1 ^^ b
    [] x.op \in {"or", "ori"} -> x.rs1 | b
    [] x.op \in {"and", "andi"} -> x.rs1 & b
    [] x.op \in {"sll", "slli"} -> U32(x.rs1 * 2 ^ Shamt(x))
    [] x.op \in {"srl", "srli"} -> x.rs1 \div 2 ^ Shamt(x)
    [] x.op \in {"sra", "srai"} -> U32(I32(x.rs1) \div 2 ^ Shamt(x))
    [] OTHER -> Bit(Less(x.op, x.rs1, b))

MulResult(x) ==
  CASE x.op = "mul" -> Product(I32(x.rs1), I32(x.rs2))[2]
    [] x.op = "mulh" -> Product(I32(x.rs1), I32(x.rs2))[1]
    [] x.op = "mulhsu" -> Product(I32(x.rs1), x.rs2)[1]
    [] OTHER -> Product(x.rs1, x.rs2)[1]

LoadResult(x) ==
  LET v == Extract(x.op, x.mem, Address(x) % 4)
  IN  IF x.op \in {"lb", "lh"} THEN SignExtend(v, Width(x.op)) ELSE v

\* The value an opcode computes for its destination: rd, or the word a store addresses.
Result(x) ==
  CASE x.op \in Loads -> LoadResult(x)
    [] x.op \in Stores -> Stored(x)
    [] x.op \in MulHigh \cup {"mul"} -> MulResult(x)
    [] x.op \in Div -> DivResult(x)
    [] x.op \in {"jal", "jalr"} -> U32(x.pc + 4)
    [] x.op = "lui" -> U32(x.imm)
    [] x.op = "auipc" -> U32(x.pc + x.imm)
    [] OTHER -> AluResult(x)

\* What write_reg records for rd: x0 stays 0.
Recorded(x) == IF x.op \notin Stores /\ x.rd = 0 THEN 0 ELSE Result(x)

Taken(x) ==
  CASE x.op = "beq" -> x.rs1 = x.rs2
    [] x.op = "bne" -> x.rs1 # x.rs2
    [] x.op \in {"blt", "bltu"} -> Less(x.op, x.rs1, x.rs2)
    [] x.op \in {"bge", "bgeu"} -> ~Less(x.op, x.rs1, x.rs2)
    [] OTHER -> FALSE

NextPc(x) ==
  CASE x.op = "jalr" -> 2 * (Address(x) \div 2)
    [] x.op = "jal" \/ Taken(x) -> U32(x.pc + x.imm)
    [] OTHER -> U32(x.pc + 4)

-----------------------------------------------------------------------------
\* The witness columns.

ShiftWitness(x) ==
  LET amount == Shamt(x)
      bit == amount % LimbBits
  IN  [rs1_sign |-> IF x.op \in {"sra", "srai"} THEN TopBit(x.rs1) ELSE 0,
       bit_shift_marker |-> OneHot(0 .. LimbBits - 1, bit),
       limb_shift_marker |-> OneHot(LimbIndex, amount \div LimbBits),
       bit_shift_carry |-> [i \in LimbIndex |->
         IF x.op \in {"sll", "slli"} THEN Limb(x.rs1, i) \div 2 ^ (LimbBits - bit)
                                     ELSE Limb(x.rs1, i) % 2 ^ bit]]

\* byte_to_signed_felt under a signed opcode.
Msl(op, w) == IF op \in Signed THEN I32(w) \div Base ^ 3 ELSE Limb(w, 3)

\* Bug: the difference of the deciding limbs is not oriented by the comparison's outcome.
LtWitnessUnoriented(op, a, b) ==
  LET f == [Limbs(a) EXCEPT ![3] = Msl(op, a)]
      g == [Limbs(b) EXCEPT ![3] = Msl(op, b)]
      k == HighestDifference(f, g)
  IN  [rs1_msl_felt |-> f[3], rs2_msl_felt |-> g[3], diff_marker |-> OneHot(LimbIndex, k),
       diff_val |-> IF k = -1 THEN 0 ELSE f[k] - g[k]]

LtWitness(op, a, b) ==
  LET f == [Limbs(a) EXCEPT ![3] = Msl(op, a)]
      g == [Limbs(b) EXCEPT ![3] = Msl(op, b)]
      k == HighestDifference(f, g)
  IN  [rs1_msl_felt |-> f[3], rs2_msl_felt |-> g[3],
       diff_marker |-> OneHot(LimbIndex, k),
       diff_val |-> IF k = -1 THEN 0 ELSE IF Less(op, a, b) THEN g[k] - f[k] ELSE f[k] - g[k]]

\* The inverse of the lowest differing limb's difference, in that limb's column.
BranchEqWitness(a, b) ==
  LET D == {i \in LimbIndex : Limb(a, i) # Limb(b, i)}
  IN  [i \in LimbIndex |-> IF i \in D /\ \A j \in D : i <= j THEN Limb(a, i) - Limb(b, i) ELSE 0]

MulhWitness(x) ==
  [rd_high |-> Limbs(CASE x.op = "mulh" -> Product(I32(x.rs1), I32(x.rs2))[2]
                       [] x.op = "mulhsu" -> Product(I32(x.rs1), x.rs2)[2]
                       [] OTHER -> Product(x.rs1, x.rs2)[2]),
   rs1_sign |-> IF x.op \in {"mulh", "mulhsu"} THEN TopBit(x.rs1) ELSE 0,
   rs2_sign |-> IF x.op = "mulh" THEN TopBit(x.rs2) ELSE 0]

DivWitness(x) ==
  LET signed == x.op \in Signed
      zero_divisor == x.rs2 = 0
      overflow == signed /\ Overflow(x)
      q == DivResult([x EXCEPT !.op = IF signed THEN "div" ELSE "divu"])
      r == DivResult([x EXCEPT !.op = IF signed THEN "rem" ELSE "remu"])
      b_sign == IF signed THEN TopBit(x.rs1) ELSE 0
      c_sign == IF signed THEN TopBit(x.rs2) ELSE 0
      sign_xor == (b_sign + c_sign) % 2
      r_abs == Limbs(IF sign_xor = 1 THEN U32(-r) ELSE r)
      k == IF zero_divisor \/ r = 0 \/ overflow THEN -1
           ELSE HighestDifference(Limbs(x.rs2), r_abs)
  IN  [zero_divisor |-> Bit(zero_divisor), r_zero |-> Bit(r = 0 /\ ~zero_divisor),
       q |-> Limbs(q), r |-> Limbs(r), b_sign |-> b_sign, c_sign |-> c_sign,
       q_sign |-> IF ~signed \/ overflow THEN 0 ELSE IF zero_divisor THEN 1 ELSE TopBit(q),
       sign_xor |-> sign_xor, r_abs |-> r_abs,
       r_inv |-> [i \in LimbIndex |-> r_abs[i] - Base],
       lt_marker |-> OneHot(LimbIndex, k),
       lt_diff |-> IF k = -1 THEN 0
                   ELSE IF c_sign = 1 THEN r_abs[k] - Limb(x.rs2, k) ELSE Limb(x.rs2, k) - r_abs[k]]

LoadStoreWitness(x) ==
  LET offset == Address(x) % 4
      shift_amount == IF Width(x.op) = 1 THEN offset ELSE IF Width(x.op) = 2 THEN 2 * (offset \div 2) ELSE 0
  IN  [shift_amount |-> shift_amount,
       marker |-> CASE Width(x.op) = 1 -> OneHot(LimbIndex, offset)
                    [] Width(x.op) = 2 -> [i \in LimbIndex |-> Bit(i \div 2 = offset \div 2)]
                    [] OTHER -> [i \in LimbIndex |-> 0],
       src_msb |-> CASE x.op \in {"lb", "lh"} ->
                          Extract(x.op, x.mem, offset) \div (Base ^ Width(x.op) \div 2)
                     [] x.op \in Stores -> (x.rs2 % Base ^ Width(x.op)) \div (Base ^ Width(x.op) \div 2)
                     [] OTHER -> TopBit(x.mem),
       mem_selector |-> Address(x) - shift_amount]

\* decode_imm_limbs and the limbs lui splits its immediate into.
ImmLimbs(imm) ==
  LET u == imm % ImmSize
  IN  [imm_0 |-> u % Base, imm_1 |-> (u \div Base) % ImmHigh, imm_msb |-> u \div (ImmHigh * Base)]
UpperLimbs(imm) ==
  LET u == U32(imm) \div UpperStep
      low == WordSize \div (UpperStep * Base * Base)
  IN  [imm_0 |-> u % low, imm_1 |-> (u \div low) % Base, imm_2 |-> (u \div (low * Base)) % Base]

Witness(x) ==
  CASE x.op \in Shifts -> ShiftWitness(x)
    [] x.op \in ShiftsImm -> [imm_truncated |-> Shamt(x)] @@ ShiftWitness(x)
    [] x.op \in BaseAluImm -> ImmLimbs(x.imm)
    [] x.op \in Lt -> LtWitness(x.op, x.rs1, x.rs2)
    [] x.op \in LtImm -> ImmLimbs(x.imm) @@ LtWitness(x.op, x.rs1, U32(x.imm))
    [] x.op \in BranchLt -> [cmp_lt |-> Bit(Less(x.op, x.rs1, x.rs2))] @@ LtWitness(x.op, x.rs1, x.rs2)
    [] x.op \in BranchEq -> [diff_inv_marker |-> BranchEqWitness(x.rs1, x.rs2)]
    [] x.op \in MulHigh -> MulhWitness(x)
    [] x.op \in Div -> DivWitness(x)
    [] x.op \in Loads \cup Stores -> LoadStoreWitness(x)
    [] x.op = "lui" -> UpperLimbs(x.imm)
    [] x.op = "jalr" -> [to_pc_over_two |-> Address(x) \div 2, to_pc_lsb |-> Address(x) % 2]
    [] OTHER -> [none |-> 0]

\* Bug: a load's destination before its base register.
ProgramValuesSwapped(x) ==
  IF x.op \in Loads THEN <<x.op, x.rd, x.rs1_idx, x.imm % M31_P>>
  ELSE <<x.op, x.rd, x.rs1_idx, x.rs2_idx>>

\* The four values of the program table's row for an instruction.
ProgramValues(x) ==
  CASE x.op \in BaseAlu \cup Shifts \cup Lt \cup {"mul"} \cup MulHigh \cup Div ->
         <<x.op, x.rd, x.rs1_idx, x.rs2_idx>>
    [] x.op \in Stores -> <<x.op, x.rs1_idx, x.rs2_idx, x.imm % M31_P>>
    [] x.op \in Loads -> <<x.op, x.rs1_idx, x.rd, x.imm % M31_P>>
    [] x.op \in ShiftsImm -> <<x.op, x.rd, x.rs1_idx, x.imm % ShiftRange>>
    [] x.op \in BaseAluImm \cup LtImm -> <<x.op, x.rd, x.rs1_idx, x.imm % ImmSize>>
    [] x.op = "jalr" -> <<x.op, x.rd, x.rs1_idx, x.imm % M31_P>>
    [] x.op = "lui" -> <<x.op, x.rd, U32(x.imm) \div UpperStep, 0>>
    [] x.op \in {"auipc", "jal"} -> <<x.op, x.rd, x.imm % M31_P, 0>>
    [] OTHER -> <<x.op, x.rs1_idx, x.rs2_idx, x.imm % M31_P>>
=============================================================================
