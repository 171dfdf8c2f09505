------------------------------- MODULE Tower -------------------------------
(***************************************************************************)
(* recursion/src/lib.rs: the limb constraints of the recursion AIR's       *)
(* arithmetic tables, over the tower QM31 = CM31[u] / (u^2 - (2 + i)),     *)
(* CM31 = F[i] / (i^2 + 1), F the integers modulo FieldP.  A value is its  *)
(* four limbs.  Q.. operators are stwo's arithmetic, the oracle of every   *)
(* push function; the limb constraints are the code's own expansion.       *)
(***************************************************************************)
EXTENDS Integers, SequencesExt

CONSTANT FieldP      \* stands for 2^31 - 1; i^2 = -1 and u^2 = 2 + i must stay irreducible

ASSUME FieldAssumption == FieldP \in Nat /\ FieldP % 4 = 3

Limb == 0 .. 3
F == 0 .. FieldP - 1
QM31 == [Limb -> F]
Q(a, b, c, d) == [k \in Limb |-> <<a, b, c, d>>[k + 1] % FieldP]

\* CM31 pairs, reduced at the end.
CAdd(x, y) == <<x[1] + y[1], x[2] + y[2]>>
CMul(x, y) == <<x[1] * y[1] - x[2] * y[2], x[1] * y[2] + x[2] * y[1]>>
First(x) == <<x[0], x[1]>>
Second(x) == <<x[2], x[3]>>

QZero == Q(0, 0, 0, 0)
QOne == Q(1, 0, 0, 0)
QConst(n) == Q(n, 0, 0, 0)
QAdd(x, y) == [k \in Limb |-> (x[k] + y[k]) % FieldP]
QSub(x, y) == [k \in Limb |-> (x[k] - y[k]) % FieldP]
QNeg(x) == QSub(QZero, x)
QMul(x, y) ==
  LET one == CAdd(CMul(First(x), First(y)), CMul(<<2, 1>>, CMul(Second(x), Second(y))))
      u == CAdd(CMul(First(x), Second(y)), CMul(Second(x), First(y)))
  IN  Q(one[1], one[2], u[1], u[2])
FInverse(n) == CHOOSE m \in F : (n * m) % FieldP = 1
CInverse(x) == LET norm == FInverse((x[1] * x[1] + x[2] * x[2]) % FieldP) IN <<x[1] * norm, -x[2] * norm>>
\* Conjugate over norm; callers keep x from zero, on which the code panics.
ConjugateBy(x, norm) ==
  LET one == CMul(First(x), norm)
      u == CMul(Second(x), norm)
  IN  Q(one[1], one[2], -u[1], -u[2])
QInverse(x) ==
  ConjugateBy(x, CInverse(CAdd(CMul(First(x), First(x)), CMul(<<-2, -1>>, CMul(Second(x), Second(x))))))

-----------------------------------------------------------------------------
\* A constraint list holds when every polynomial of it vanishes.
Vanish(s) == \A k \in DOMAIN s : s[k] % FieldP = 0

\* Bug: the real part of the second limbs' product enters the imaginary limb twice.
LimbProductSwapped(a, b) ==
  << a[0] * b[0] - a[1] * b[1] + 2 * (a[2] * b[2] - a[3] * b[3]) - (a[2] * b[3] + a[3] * b[2]),
     a[0] * b[1] + a[1] * b[0] + 2 * (a[2] * b[2] - a[3] * b[3]) + (a[2] * b[3] + a[3] * b[2]),
     a[0] * b[2] - a[1] * b[3] + a[2] * b[0] - a[3] * b[1],
     a[0] * b[3] + a[1] * b[2] + a[2] * b[1] + a[3] * b[0] >>

\* Limb k of a product: Re(AC) + Re((2 + i) BD), its Im, Re and Im of AD + BC.
LimbProduct(a, b) ==
  << a[0] * b[0] - a[1] * b[1] + 2 * (a[2] * b[2] - a[3] * b[3]) - (a[2] * b[3] + a[3] * b[2]),
     a[0] * b[1] + a[1] * b[0] + (a[2] * b[2] - a[3] * b[3]) + 2 * (a[2] * b[3] + a[3] * b[2]),
     a[0] * b[2] - a[1] * b[3] + a[2] * b[0] - a[3] * b[1],
     a[0] * b[3] + a[1] * b[2] + a[2] * b[1] + a[3] * b[0] >>

\* The same with b = a, as circle_double writes it.
LimbSquare(p) ==
  << p[0] * p[0] - p[1] * p[1] + 2 * (p[2] * p[2] - p[3] * p[3]) - 2 * (p[2] * p[3]),
     2 * (p[0] * p[1]) + (p[2] * p[2] - p[3] * p[3]) + 4 * (p[2] * p[3]),
     2 * (p[0] * p[2]) - 2 * (p[1] * p[3]),
     2 * (p[0] * p[3]) + 2 * (p[1] * p[2]) >>

Wiring(r) == <<r.in_circuit * (1 - r.in_circuit), r.in_circuit * (1 - r.enabler)>>

qm31_mul(r) == Wiring(r) \o [k \in 1 .. 4 |-> LimbProduct(r.a, r.b)[k] - r.out[k - 1]]

qm31_inv(r) ==
  Wiring(r) \o [k \in 1 .. 4 |-> LimbProduct(r.a, r.out)[k] - IF k = 1 THEN r.enabler ELSE 0]

\* Bug: the last limb of the result is left free.
linear_opsShort(r) ==
  <<r.is_add * (1 - r.is_add), r.is_sub * (1 - r.is_sub), r.is_neg * (1 - r.is_neg),
    r.is_add + r.is_sub + r.is_neg - r.enabler>> \o
  [k \in 1 .. 3 |-> r.is_add * (r.a[k - 1] + r.b[k - 1]) + r.is_sub * (r.a[k - 1] - r.b[k - 1])
                    - r.is_neg * r.a[k - 1] - r.out[k - 1]]

linear_ops(r) ==
  <<r.is_add * (1 - r.is_add), r.is_sub * (1 - r.is_sub), r.is_neg * (1 - r.is_neg),
    r.is_add + r.is_sub + r.is_neg - r.enabler>> \o
  [k \in 1 .. 4 |-> r.is_add * (r.a[k - 1] + r.b[k - 1]) + r.is_sub * (r.a[k - 1] - r.b[k - 1])
                    - r.is_neg * r.a[k - 1] - r.out[k - 1]]

fri_fold_line(r) ==
  <<r.x * r.x_inv - r.enabler>> \o
  [k \in 1 .. 4 |-> (r.f_x[k - 1] - r.f_neg_x[k - 1]) * r.x_inv - r.t[k - 1]] \o
  [k \in 1 .. 4 |-> r.f_x[k - 1] + r.f_neg_x[k - 1] + LimbProduct(r.alpha, r.t)[k] - r.out[k - 1]]

circle_double(r) ==
  [k \in 1 .. 4 |-> 2 * LimbSquare(r.p_x)[k] - (IF k = 1 THEN r.enabler ELSE 0) - r.out[k - 1]] \o
  [k \in 1 .. 4 |-> 2 * LimbProduct(r.p_x, r.p_y)[k] - r.r_y[k - 1]]

\* Every table's rows also carry the derived constraint enabler * (1 - enabler).
RowHolds(r) ==
  /\ r.enabler \in {0, 1}
  /\ Vanish(CASE r.table = "qm31_mul" -> qm31_mul(r)
              [] r.table = "qm31_inv" -> qm31_inv(r)
              [] r.table = "linear_ops" -> linear_ops(r)
              [] r.table = "fri_fold_line" -> fri_fold_line(r)
              [] r.table = "circle_double" -> circle_double(r)
              [] r.table = "logup_sum" -> <<>>)

\* logup_sum has no polynomial constraint: a row adds enabler / (term + (1 - enabler)).
SumShare(r) == QMul(QConst(r.enabler), QInverse(QAdd(r.out, QConst(1 - r.enabler))))
=============================================================================
