------------------------------- MODULE Schema -------------------------------
(***************************************************************************)
(* air/src/schema.rs: which rows of the opcode tables satisfy their        *)
(* constraints and range lookups.  r.rs1, r.rs2, r.src are the limbs read, *)
(* r.dst the limbs recorded as written, r.w the witness columns.  A        *)
(* product of factors vanishes iff a factor does, the field having no zero *)
(* divisors; a quotient by Base is a small felt iff the division is exact. *)
(* LogUp of clocks and of the accesses themselves is in Tracer.            *)
(***************************************************************************)
EXTENDS Ops, FiniteSetsExt

CONSTANT RangeBits      \* width of range_check_20

ASSUME RangeAssumption == RangeBits \in 1 .. 20

SumFn(f) == MapThenSumSet(LAMBDA i : f[i], DOMAIN f)
Felt(limbs) == SumFn([i \in LimbIndex |-> limbs[i] * Base ^ i])
Congruent(a, b) == (a - b) % M31_P = 0

\* The preprocessed tables.
Byte == 0 .. Base - 1
RangeCheck20 == 0 .. 2 ^ RangeBits - 1
Carry11 == 0 .. 8 * Base - 1
Nibble == 0 .. 15
RangeCheckM31 == Byte \X (0 .. Base \div 2 - 1) \ {<<Base - 1, Base \div 2 - 1>>}
BitwiseTable(a, b, id) == CASE id = 0 -> a & b [] id = 1 -> a | b [] id = 2 -> a ^^ b

-----------------------------------------------------------------------------
\* sums[k] is what a limb equation accumulates before its carry comes in.  Every carry
\* is (sums[k] + the carry before) / Base, and lies in S.
CarriesIn(S, sums) ==
  LET total[k \in DOMAIN sums] == sums[k] + IF k = 0 THEN 0 ELSE total[k - 1] \div Base
  IN  \A k \in DOMAIN sums : total[k] % Base = 0 /\ total[k] \div Base \in S

\* Limb k of the schoolbook product of two equally long numbers.
Convolution(a, b, k) == MapThenSumSet(LAMBDA i : a[i] * b[k - i], 0 .. k)

\* Four limbs, and the fill above them.
Extend(limbs, fill) == [i \in 0 .. 7 |-> IF i < 4 THEN limbs[i] ELSE fill]

BytesOk(limbs) == \A i \in LimbIndex : limbs[i] \in Byte

\* auipc, jalr, jal and load_store accept a word as an M31 by its outer limbs.
M31Ok(limbs) == <<limbs[0], limbs[3]>> \in RangeCheckM31 /\ limbs[1] \in Byte /\ limbs[2] \in Byte

SignExtendedImm(w) ==
  <<w.imm_0, w.imm_1 + (Base - ImmHigh) * w.imm_msb, (Base - 1) * w.imm_msb, (Base - 1) * w.imm_msb>>
ImmOperand(w) == [i \in LimbIndex |-> SignExtendedImm(w)[i + 1]]
ImmOk(w) == w.imm_msb \in {0, 1} /\ w.imm_0 \in Byte /\ Base * w.imm_1 \in Carry11

\* dst = a op b.
AluRow(kind, a, b, dst) ==
  /\ BytesOk(dst)
  /\ CASE kind = "add" -> CarriesIn({0, 1}, [i \in LimbIndex |-> a[i] + b[i] - dst[i]])
       [] kind = "sub" -> CarriesIn({0, 1}, [i \in LimbIndex |-> dst[i] + b[i] - a[i]])
       [] OTHER -> LET id == IF kind = "and" THEN 0 ELSE IF kind = "or" THEN 1 ELSE 2
                   IN  \A i \in LimbIndex : dst[i] = BitwiseTable(a[i], b[i], id)

base_alu_reg(r) == AluRow(r.op, r.rs1, r.rs2, r.dst)

base_alu_imm(r) ==
  LET kind == CASE r.op = "addi" -> "add" [] r.op = "xori" -> "xor"
                [] r.op = "ori" -> "or" [] OTHER -> "and"
  IN  ImmOk(r.w) /\ AluRow(kind, r.rs1, ImmOperand(r.w), r.dst)

-----------------------------------------------------------------------------
IsOneHot(f) == (\A i \in DOMAIN f : f[i] \in {0, 1}) /\ SumFn(f) = 1
Weighted(f) == SumFn([i \in DOMAIN f |-> i * f[i]])
ShiftAmount(w) == LimbBits * Weighted(w.limb_shift_marker) + Weighted(w.bit_shift_marker)

\* The limb equations of a shift by whole limbs and then by bits, either way.
shift_equations(left, r) ==
  LET w == r.w
      limbs == Weighted(w.limb_shift_marker)
      multiplier == 2 ^ Weighted(w.bit_shift_marker)
      carry == w.bit_shift_carry
  IN  /\ w.rs1_sign \in {0, 1}
      /\ IsOneHot(w.bit_shift_marker) /\ IsOneHot(w.limb_shift_marker)
      /\ \A i \in LimbIndex : multiplier - 1 - carry[i] \in Byte
      /\ BytesOk(r.dst)
      /\ left =>
           /\ w.rs1_sign = 0
           /\ \A i \in LimbIndex :
                r.dst[i] = IF i < limbs THEN 0
                           ELSE r.rs1[i - limbs] * multiplier - Base * carry[i - limbs]
                                + IF i = limbs THEN 0 ELSE carry[i - limbs - 1]
      /\ ~left =>
           \A i \in LimbIndex :
             LET k == i + limbs
             IN  IF k > 3 THEN r.dst[i] = w.rs1_sign * (Base - 1)
                 ELSE r.dst[i] * multiplier = r.rs1[k] - carry[k]
                        + Base * IF k = 3 THEN w.rs1_sign * (multiplier - 1) ELSE carry[k + 1]

\* The amount is the low bits of rs2: the quotient of what is above them is small.
shifts_reg(r) ==
  LET above == r.rs2[0] - ShiftAmount(r.w)
  IN  /\ shift_equations(r.op = "sll", r)
      /\ above % ShiftRange = 0
      /\ 2 ^ LimbBits \div ShiftRange - 1 - above \div ShiftRange \in RangeCheck20

shifts_imm(r) == shift_equations(r.op = "slli", r) /\ r.w.imm_truncated = ShiftAmount(r.w)

-----------------------------------------------------------------------------
\* The comparison scan: a < b is cmp.  The top limbs are signed or not.
Scan(a, b, w, cmp) ==
  LET diff == [i \in LimbIndex |-> IF cmp = 1 THEN b[i] - a[i] ELSE a[i] - b[i]]
      m == w.diff_marker
      fired(i) == \E j \in i .. 3 : m[j] = 1
  IN  /\ cmp \in {0, 1}
      /\ \A i \in LimbIndex : m[i] \in {0, 1}
      /\ SumFn(m) \in {0, 1}
      /\ \A i \in LimbIndex : IF m[i] = 1 THEN w.diff_val = diff[i] ELSE fired(i) \/ diff[i] = 0
      /\ IF fired(0) THEN w.diff_val - 1 \in RangeCheck20 ELSE cmp = 0

\* The limb, or the limb less Base, read as signed where the opcode compares signed.
MslOk(limb, msl, signed) ==
  limb - msl \in {0, Base} /\ msl + (IF signed THEN Base \div 2 ELSE 0) \in Byte

WithTop(limbs, msl) == [limbs EXCEPT ![3] = msl]

compare_registers(r, cmp) ==
  /\ MslOk(r.rs1[3], r.w.rs1_msl_felt, r.op \in Signed)
  /\ MslOk(r.rs2[3], r.w.rs2_msl_felt, r.op \in Signed)
  /\ Scan(WithTop(r.rs1, r.w.rs1_msl_felt), WithTop(r.rs2, r.w.rs2_msl_felt), r.w, cmp)

\* lt_reg and lt_imm write the single limb cmp_result.
WritesBit(r) == r.dst = [i \in LimbIndex |-> IF i = 0 THEN r.cmp_result ELSE 0]

lt_reg(r) == compare_registers(r, r.cmp_result) /\ WritesBit(r)

lt_imm(r) ==
  LET imm == ImmOperand(r.w)
      top == IF r.op \in Signed THEN -r.w.imm_msb ELSE imm[3]
  IN  /\ r.w.imm_msb \in {0, 1} /\ r.w.imm_0 \in Byte /\ 2 * r.w.imm_1 \in Nibble
      /\ MslOk(r.rs1[3], r.w.rs1_msl_felt, r.op \in Signed)
      /\ Scan(WithTop(r.rs1, r.w.rs1_msl_felt), WithTop(imm, top), r.w, r.cmp_result)
      /\ WritesBit(r)

Target(r, taken) == r.pc + IF taken THEN r.imm_felt ELSE 4

branch_eq(r) ==
  LET equal == IF r.op = "beq" THEN r.cmp_result = 1 ELSE r.cmp_result = 0
      inv == r.w.diff_inv_marker
  IN  /\ r.cmp_result \in {0, 1}
      /\ equal => r.rs1 = r.rs2
      \* Each non-zero inverse contributes 1 to a sum that must be 1.
      /\ Cardinality({i \in LimbIndex : inv[i] # 0 /\ inv[i] = r.rs1[i] - r.rs2[i]}) + Bit(equal) = 1
      /\ Congruent(r.next_pc, Target(r, r.cmp_result = 1))

branch_lt(r) ==
  LET lt == IF r.op \in {"blt", "bltu"} THEN r.cmp_result ELSE 1 - r.cmp_result
  IN  /\ compare_registers(r, r.w.cmp_lt)
      /\ r.w.cmp_lt = lt
      /\ Congruent(r.next_pc, Target(r, r.cmp_result = 1))

-----------------------------------------------------------------------------
lui(r) ==
  /\ r.w.imm_1 \in Byte /\ r.w.imm_2 \in Byte /\ r.w.imm_0 \in Nibble
  /\ r.dst = [i \in LimbIndex |->
                <<0, r.w.imm_0 * (UpperStep \div Base), r.w.imm_1, r.w.imm_2>>[i + 1]]

auipc(r) == M31Ok(r.dst) /\ Congruent(Felt(r.dst), r.pc + r.imm_felt)

\* rd = pc + 4 unless rd is x0.
Links(r) == M31Ok(r.dst) /\ (r.rd = 0 \/ Congruent(Felt(r.dst), r.pc + 4))

jalr(r) ==
  /\ r.w.to_pc_lsb \in {0, 1}
  /\ Congruent(2 * r.w.to_pc_over_two + r.w.to_pc_lsb, Felt(r.rs1) + r.imm_felt)
  /\ <<r.rs1[0], r.rs1[3]>> \in RangeCheckM31
  /\ Congruent(r.next_pc, 2 * r.w.to_pc_over_two)
  /\ Links(r)

jal(r) == Congruent(r.next_pc, r.pc + r.imm_felt) /\ Links(r)

\* Limb i of a load's destination or of a store's destination word is limb j of its source.
Moves(r) ==
  LET shift == r.w.shift_amount
      n == Width(r.op)
  IN  IF r.op \in Loads
      THEN \A i \in LimbIndex : r.dst[i] = IF i < n THEN r.src[i + shift]
                                           ELSE IF r.op \in {"lb", "lh"} THEN r.w.src_msb * (Base - 1) ELSE 0
      ELSE \A i \in 0 .. n - 1 : r.dst[i + shift] = r.src[i]

load_store(r) ==
  LET w == r.w
      shift_id == Weighted(w.marker)
      markers == SumFn(w.marker)
      address == Felt(r.rs1) + r.imm_felt - w.shift_amount
  IN  /\ \A i \in LimbIndex : w.marker[i] \in {0, 1}
      /\ CASE Width(r.op) = 1 -> markers = 1 /\ w.shift_amount = shift_id
           [] Width(r.op) = 2 -> markers = 2 /\ shift_id \in {1, 5} /\ 2 * w.shift_amount = shift_id - 1
           [] OTHER -> w.shift_amount = 0
      /\ Congruent(w.mem_selector, address)
      /\ (\E quarter \in RangeCheck20 : w.mem_selector = 4 * quarter)
      /\ <<r.rs1[0], r.rs1[3]>> \in RangeCheckM31
      /\ Moves(r)

-----------------------------------------------------------------------------
mul(r) ==
  LET sums == [k \in LimbIndex |-> Convolution(r.rs1, r.rs2, k) - r.dst[k]]
  IN  BytesOk(r.dst) /\ CarriesIn(Carry11, sums)

\* The sign bit goes on top of limb 3 as it stands.
mulh(r) ==
  LET w == r.w
      Signed64(limbs, sign) == Extend([limbs EXCEPT ![3] = @ + sign * (Base \div 2)], sign * (Base - 1))
      a == Signed64(r.rs1, w.rs1_sign)
      b == Signed64(r.rs2, w.rs2_sign)
      sums == [k \in 0 .. 7 |-> Convolution(a, b, k) - IF k < 4 THEN w.rd_high[k] ELSE r.dst[k - 4]]
  IN  /\ w.rs1_sign \in {0, 1} /\ w.rs2_sign \in {0, 1}
      /\ r.op # "mulh" => w.rs2_sign = 0
      /\ r.op = "mulhu" => w.rs1_sign = 0
      /\ BytesOk(r.dst) /\ BytesOk(w.rd_high)
      /\ CarriesIn(Carry11, sums)

\* r + |r| is 0 limb by limb up to the first limb of r that is not, and carries from there.
Negates(r, r_abs) ==
  LET total[k \in LimbIndex] == r[k] + r_abs[k] + IF k = 0 THEN 0 ELSE total[k - 1] \div Base
      carry == [k \in LimbIndex |-> total[k] \div Base]
  IN  \A k \in LimbIndex :
        /\ total[k] % Base = 0
        /\ carry[k] = 1 \/ carry[k] = (IF k = 0 THEN 0 ELSE carry[k - 1])
        /\ carry[k] = 1 \/ r_abs[k] = 0

\* |r| < |c|, by a scan like a comparison's that the special cases skip.
DivScan(r, special) ==
  LET w == r.w
      diff == [i \in LimbIndex |-> (1 - 2 * w.c_sign) * (r.rs2[i] - w.r_abs[i])]
      fired(i) == special = 1 \/ \E j \in i .. 3 : w.lt_marker[j] = 1
  IN  /\ \A i \in LimbIndex :
           /\ w.lt_marker[i] \in {0, 1}
           /\ IF w.lt_marker[i] = 1 THEN w.lt_diff = diff[i] ELSE fired(i) \/ diff[i] = 0
      /\ special + SumFn(w.lt_marker) = 1
      /\ special = 0 => w.lt_diff - 1 \in RangeCheck20

\* rs1 = rs2 * q + r on 64 bits, limb by limb, with the signs rs1 and rs2 have.
DivIdentity(r) ==
  LET w == r.w
      quotient == Extend(w.q, (Base - 1) * w.q_sign)
      divisor == Extend(r.rs2, (Base - 1) * w.c_sign)
      dividend == Extend(r.rs1, (Base - 1) * w.b_sign)
      remainder == Extend(w.r, (Base - 1) * w.b_sign * (1 - w.r_zero))
  IN  /\ BytesOk(w.q) /\ BytesOk(w.r)
      /\ CarriesIn(Carry11, [k \in 0 .. 7 |->
                     Convolution(divisor, quotient, k) + remainder[k] - dividend[k]])
      /\ r.op \in Signed => /\ 2 * (r.rs1[3] - w.b_sign * (Base \div 2)) \in Byte
                           /\ 2 * (r.rs2[3] - w.c_sign * (Base \div 2)) \in Byte

div(r) ==
  LET w == r.w
      special == w.zero_divisor + w.r_zero
      c_sum == SumFn(r.rs2)
  IN  /\ {w.zero_divisor, w.r_zero, w.b_sign, w.c_sign, w.q_sign, w.sign_xor, special} \subseteq {0, 1}
      /\ w.zero_divisor = 1 => c_sum = 0 /\ \A i \in LimbIndex : w.q[i] = Base - 1
      /\ w.zero_divisor = 0 => c_sum # 0
      /\ w.r_zero = 1 => \A i \in LimbIndex : w.r[i] = 0
      /\ special = 0 => SumFn(w.r) # 0
      /\ r.op \notin Signed => w.b_sign = 0 /\ w.c_sign = 0
      /\ w.sign_xor = (w.b_sign + w.c_sign) % 2
      /\ w.zero_divisor = 0 =>
           (SumFn(w.q) = 0 \/ w.q_sign = w.sign_xor) /\ (w.q_sign = w.sign_xor \/ w.q_sign = 0)
      /\ IF w.sign_xor = 0 THEN w.r_abs = w.r
         ELSE Negates(w.r, w.r_abs) /\ \A i \in LimbIndex : w.r_inv[i] = w.r_abs[i] - Base /\ w.r_inv[i] # 0
      /\ DivScan(r, special)
      /\ DivIdentity(r)
      /\ r.dst = IF r.op \in {"div", "divu"} THEN w.q ELSE w.r

-----------------------------------------------------------------------------
\* Every opcode but the jumps and the branches steps the pc by 4.
Steps(r) == Congruent(r.next_pc, r.pc + 4)

\* The row satisfies its table.
Satisfied(r) ==
  CASE r.op \in BaseAlu -> base_alu_reg(r) /\ Steps(r)
    [] r.op \in BaseAluImm -> base_alu_imm(r) /\ Steps(r)
    [] r.op \in Shifts -> shifts_reg(r) /\ Steps(r)
    [] r.op \in ShiftsImm -> shifts_imm(r) /\ Steps(r)
    [] r.op \in Lt -> lt_reg(r) /\ Steps(r)
    [] r.op \in LtImm -> lt_imm(r) /\ Steps(r)
    [] r.op \in BranchEq -> branch_eq(r)
    [] r.op \in BranchLt -> branch_lt(r)
    [] r.op = "lui" -> lui(r) /\ Steps(r)
    [] r.op = "auipc" -> auipc(r) /\ Steps(r)
    [] r.op = "jalr" -> jalr(r)
    [] r.op = "jal" -> jal(r)
    [] r.op \in Loads \cup Stores -> load_store(r) /\ Steps(r)
    [] r.op = "mul" -> mul(r) /\ Steps(r)
    [] r.op \in MulHigh -> mulh(r) /\ Steps(r)
    [] r.op \in Div -> div(r) /\ Steps(r)

\* The tuple the row consumes from program_access, its first field apart.
Fetched(r) ==
  LET imm == r.w.imm_0 + Base * r.w.imm_1 + ImmHigh * Base * r.w.imm_msb IN
  CASE r.op \in BaseAluImm \cup LtImm -> <<r.op, r.rd, r.rs1_idx, imm>>
    [] r.op \in ShiftsImm -> <<r.op, r.rd, r.rs1_idx, r.w.imm_truncated>>
    [] r.op \in BranchEq \cup BranchLt -> <<r.op, r.rs1_idx, r.rs2_idx, r.imm_felt>>
    [] r.op = "lui" -> <<r.op, r.rd,
         r.w.imm_0 + 2 ^ (LimbBits \div 2) * (r.w.imm_1 + Base * r.w.imm_2), 0>>
    [] r.op \in {"auipc", "jal"} -> <<r.op, r.rd, r.imm_felt, 0>>
    [] r.op = "jalr" -> <<r.op, r.rd, r.rs1_idx, r.imm_felt>>
    [] r.op \in Loads \cup Stores -> <<r.op, r.rs1_idx, r.r2_idx, r.imm_felt>>
    [] OTHER -> <<r.op, r.rd, r.rs1_idx, r.rs2_idx>>
=============================================================================
