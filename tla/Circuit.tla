------------------------------ MODULE Circuit ------------------------------
(***************************************************************************)
(* recursion/src/recorder.rs, circuit.rs and binding.rs: an inner AIR's    *)
(* evaluate() run over recording handles leaves an arena of operations;    *)
(* the arena is lowered into rows of the arithmetic tables, wired by the   *)
(* op_def and wire relations to a public side the verifier recomputes.     *)
(*                                                                         *)
(* evaluate() is any sequence of the calls the EvalAtRow interface offers. *)
(* In mode "rows" the tables are filled by their push functions instead.   *)
(***************************************************************************)
EXTENDS Tower, FiniteSetsExt

CONSTANTS
  Masks,            \* sampled masks: for each interaction, its values in column order
  Sums,             \* cumulative-sum shifts of the inner components
  Coefficients,     \* alpha, and the components' denominators
  Operands,         \* operands of the push functions
  Budgets,          \* how many calls of each kind an evaluate() may make
  MaxLive           \* how many of its latest values it may still use

VARIABLES
  mode,             \* "circuit" or "rows"
  budget,
  recorder,         \* Recorder: arena, mask cursor, handles
  calls,            \* history: the calls made on the recorder
  weighted,         \* history: <<denom_inverse, constraint>> of every constraint, as values
  traces,           \* the rows of RecursionTraces
  claim             \* CircuitClaim, or NoClaim before lower_arena
vars == <<mode, budget, recorder, calls, weighted, traces, claim>>

NoClaim == [output |-> -1]
CircuitId == 1

-----------------------------------------------------------------------------
\* Rec: a constant, or node `id` of the arena.
Const(v) == [id |-> -1, value |-> v]
IsConst(r) == r.id = -1

\* Node: op over the ids of earlier nodes, and its value.  Ids count from 0.
PushNode(arena, op, args, v) ==
  [arena |-> Append(arena, [op |-> op, args |-> args, value |-> v]), rec |-> [id |-> Len(arena), value |-> v]]
Ops(arena) == [i \in DOMAIN arena |-> <<arena[i].op, arena[i].args>>]
ArenaValue(arena, id) == arena[id + 1].value

Fold(op, v, w) ==
  CASE op = "Add" -> QAdd(v, w) [] op = "Sub" -> QSub(v, w) [] op = "Mul" -> QMul(v, w)
    [] op = "Neg" -> QNeg(v) [] op = "Inverse" -> QInverse(v)

\* node_id, over the operands in order: a constant operand becomes a Const node of its own.
Materialized(arena, recs) ==
  FoldLeft(LAMBDA a, r : IF IsConst(r) THEN PushNode(a, "Const", <<>>, r.value).arena ELSE a, arena, recs)

\* Bug: a constant operand stands for the last node there was.
NodeIdsLast(arena, recs) == [k \in DOMAIN recs |-> IF IsConst(recs[k]) THEN Len(arena) - 1 ELSE recs[k].id]

NodeIds(arena, recs) ==
  [k \in DOMAIN recs |-> IF IsConst(recs[k]) THEN Len(Materialized(arena, SubSeq(recs, 1, k - 1))) ELSE recs[k].id]

\* Bug: a product with a factor of zero is folded.
BinaryShort(arena, op, lhs, rhs) ==
  IF (IsConst(lhs) /\ IsConst(rhs)) \/ (op = "Mul" /\ QZero \in {lhs.value, rhs.value})
  THEN [arena |-> arena, rec |-> Const(Fold(op, lhs.value, rhs.value))]
  ELSE PushNode(Materialized(arena, <<lhs, rhs>>), op, NodeIds(arena, <<lhs, rhs>>), Fold(op, lhs.value, rhs.value))

\* Two constants fold without a record.
Binary(arena, op, lhs, rhs) ==
  IF IsConst(lhs) /\ IsConst(rhs) THEN [arena |-> arena, rec |-> Const(Fold(op, lhs.value, rhs.value))]
  ELSE PushNode(Materialized(arena, <<lhs, rhs>>), op, NodeIds(arena, <<lhs, rhs>>), Fold(op, lhs.value, rhs.value))

\* Operations in a row, each on the result of the one before and another operand.
Chain(arena, first, steps) ==
  FoldLeft(LAMBDA m, s : Binary(m.arena, s[1], m.rec, s[2]), [arena |-> arena, rec |-> first], steps)

Unary(arena, op, r) ==
  IF IsConst(r) THEN [arena |-> arena, rec |-> Const(Fold(op, r.value, r.value))]
  ELSE PushNode(arena, op, <<r.id>>, Fold(op, r.value, r.value))

\* One Input node per value, in order.
Inputs(arena, vs) ==
  FoldLeft(LAMBDA m, v : LET n == PushNode(m.arena, "Input", <<>>, v)
                         IN  [arena |-> n.arena, recs |-> Append(m.recs, n.rec)],
           [arena |-> arena, recs |-> <<>>], vs)

-----------------------------------------------------------------------------
\* Recorder::new and next_component; a component brings its mask and starts its columns over.
Interactions == 0 .. 2      \* preprocessed, trace, LogUp
NewLogup(sum) == [fracs |-> <<>>, finalized |-> TRUE, cumsum_shift |-> sum]
StartComponent(rec, mask, sum) ==
  [rec EXCEPT !.mask = mask, !.col_index = [i \in Interactions |-> 0], !.logup = NewLogup(sum),
              !.handles = <<Const(QConst(2))>>]

NewRecorder(mask, alpha, denom_inverse, sum) ==
  LET in == Inputs(<<>>, <<alpha, denom_inverse>>)
  IN  StartComponent([arena |-> in.arena, alpha |-> in.recs[1], denom_inverse |-> in.recs[2],
                      accumulation |-> Const(QZero), mask |-> mask, col_index |-> <<>>,
                      logup |-> <<>>, handles |-> <<>>], mask, sum)

NextComponent(rec, mask, denom_inverse, sum) ==
  LET in == Inputs(rec.arena, <<denom_inverse>>)
  IN  StartComponent([rec EXCEPT !.arena = in.arena, !.denom_inverse = in.recs[1]], mask, sum)

\* next_interaction_mask, n values at a time.
NextMask(rec, interaction, n) ==
  LET at == rec.col_index[interaction]
      in == Inputs(rec.arena, SubSeq(rec.mask[interaction], at + 1, at + n))
  IN  [rec |-> [rec EXCEPT !.arena = in.arena, !.col_index[interaction] = at + n], recs |-> in.recs]

Accumulated(rec, sum) == [rec EXCEPT !.arena = sum.arena, !.accumulation = sum.rec]
WithTerm(rec, w) == Accumulated(rec, Chain(w.arena, rec.accumulation, << <<"Mul", rec.alpha>>, <<"Add", w.rec>> >>))

\* Bug: a constraint is weighted after the accumulation is scaled.
AddConstraintLate(rec, constraint) ==
  Accumulated(rec, Chain(rec.arena, rec.accumulation,
                         << <<"Add", constraint>>, <<"Mul", rec.denom_inverse>>, <<"Mul", rec.alpha>> >>))

\* acc = acc * alpha + denom_inverse * constraint.
AddConstraint(rec, constraint) == WithTerm(rec, Binary(rec.arena, "Mul", rec.denom_inverse, constraint))

Basis == <<Q(0, 1, 0, 0), Q(0, 0, 1, 0), Q(0, 0, 0, 1)>>

Plus(rec, p) == Binary(p.arena, "Add", rec, p.rec)
CombineEf(arena, v) ==
  FoldLeft(LAMBDA m, k : Plus(m.rec, Binary(m.arena, "Mul", v[k + 1], Const(Basis[k]))),
           [arena |-> arena, rec |-> v[1]], <<1, 2, 3>>)

\* stwo's next_extension_interaction_mask: four base columns read at n offsets, combined
\* offset by offset.
WithRec(m, e) == [rec |-> [m.rec EXCEPT !.arena = e.arena], recs |-> Append(m.recs, e.rec)]
CombineMask(in, n) ==
  FoldLeft(LAMBDA m, o : WithRec(m, CombineEf(m.rec.arena, [c \in 1 .. 4 |-> in.recs[(c - 1) * n + o]])),
           [rec |-> in.rec, recs |-> <<>>], [o \in 1 .. n |-> o])
ExtensionMask(rec, n) == CombineMask(NextMask(rec, 2, 4 * n), n)

\* stwo's sum of fractions, in the order it multiplies.
Numerator(m, f) ==
  LET x == Binary(m.arena, "Mul", f.den, m.frac.num)
  IN  Plus(x.rec, Binary(x.arena, "Mul", m.frac.den, f.num))
OverDen(num, den) == [arena |-> den.arena, frac |-> [num |-> num.rec, den |-> den.rec]]
AddFraction(m, f) ==
  LET num == Numerator(m, f) IN OverDen(num, Binary(num.arena, "Mul", m.frac.den, f.den))
SumFractions(arena, fracs) == FoldLeft(AddFraction, [arena |-> arena, frac |-> Head(fracs)], Tail(fracs))

\* finalize_logup_batched on one batch: its fractions against the step of the cumulative
\* sum.  The last batch steps from the previous row, and takes the shift.
CloseBatch(mask, prev_col_cumsum, frac, last) ==
  LET cur == mask.recs[Len(mask.recs)]
      steps == IF last THEN << <<"Sub", mask.recs[1]>>, <<"Sub", prev_col_cumsum>>,
                               <<"Add", Const(mask.rec.logup.cumsum_shift)>> >>
                       ELSE << <<"Sub", prev_col_cumsum>> >>
      constraint == Chain(mask.rec.arena, cur, steps \o << <<"Mul", frac.den>>, <<"Sub", frac.num>> >>)
  IN  [rec |-> AddConstraint([mask.rec EXCEPT !.arena = constraint.arena], constraint.rec), cumsum |-> cur]

FinalizeBatch(rec, prev_col_cumsum, fracs, last) ==
  LET sum == SumFractions(rec.arena, fracs)
  IN  CloseBatch(ExtensionMask([rec EXCEPT !.arena = sum.arena], IF last THEN 2 ELSE 1),
                 prev_col_cumsum, sum.frac, last)

\* finalize_logup_in_pairs: fraction n goes to batch n / 2.
InPairs(fracs) ==
  [b \in 1 .. (Len(fracs) + 1) \div 2 |->
     SubSeq(fracs, 2 * b - 1, IF 2 * b > Len(fracs) THEN Len(fracs) ELSE 2 * b)]

FinalizeInPairs(rec) ==
  LET batches == InPairs(rec.logup.fracs)
      done == FoldLeft(LAMBDA m, b : FinalizeBatch(m.rec, m.cumsum, batches[b], b = Len(batches)),
                       [rec |-> rec, cumsum |-> Const(QZero)], [b \in DOMAIN batches |-> b])
  IN  [done.rec EXCEPT !.logup.fracs = <<>>, !.logup.finalized = TRUE]

-----------------------------------------------------------------------------
\* The calls evaluate() may make next; operands are positions in handles.
Call(kind, op, args) == [kind |-> kind, op |-> op, args |-> args]
CallsOf(rec) ==
  LET hs == {h \in DOMAIN rec.handles : Len(rec.handles) - h < MaxLive}
      room(i, n) == rec.col_index[i] + n <= Len(rec.mask[i])
      columns == 4 * (Len(InPairs(rec.logup.fracs)) + 1)
  IN  {Call("mask", "", <<i>>) : i \in {i \in {0, 1} : room(i, 1)}}
      \cup {Call("binary", op, <<l, r>>) : op \in {"Add", "Sub", "Mul"}, l \in hs, r \in hs}
      \cup {Call("unary", "Neg", <<h>>) : h \in hs}
      \cup {Call("unary", "Inverse", <<h>>) : h \in {h \in hs : rec.handles[h].value # QZero}}
      \cup {Call("constraint", "", <<h>>) : h \in hs}
      \cup {Call("frac", "", <<n, d>>) : n \in hs, d \in hs}
      \cup {Call("finalize", "", <<>>) : x \in {x \in {1} : ~rec.logup.finalized /\ room(2, columns)}}

Apply(rec, c) ==
  LET h(i) == rec.handles[c.args[i]]
      keep(b) == [rec EXCEPT !.arena = b.arena, !.handles = Append(@, b.rec)]
  IN  CASE c.kind = "mask" -> LET m == NextMask(rec, c.args[1], 1)
                              IN  [m.rec EXCEPT !.handles = @ \o m.recs]
        [] c.kind = "binary" -> keep(Binary(rec.arena, c.op, h(1), h(2)))
        [] c.kind = "unary" -> keep(Unary(rec.arena, c.op, h(1)))
        [] c.kind = "constraint" -> AddConstraint(rec, h(1))
        [] c.kind = "frac" -> [rec EXCEPT !.logup.fracs = Append(@, [num |-> h(1), den |-> h(2)]),
                                          !.logup.finalized = FALSE]
        [] c.kind = "finalize" -> FinalizeInPairs(rec)

-----------------------------------------------------------------------------
\* Bug: the public consumption of the output is not counted.
UseCountsInner(arena, output) ==
  [id \in 0 .. Len(arena) - 1 |->
     Cardinality({p \in {<<i, k>> : i \in DOMAIN arena, k \in {1, 2}} :
                    p[2] \in DOMAIN arena[p[1]].args /\ arena[p[1]].args[p[2]] = id})]

\* How often a node is an operand, and once more for the output.
UseCounts(arena, output) ==
  [id \in 0 .. Len(arena) - 1 |->
     Cardinality({p \in {<<i, k>> : i \in DOMAIN arena, k \in {1, 2}} :
                    p[2] \in DOMAIN arena[p[1]].args /\ arena[p[1]].args[p[2]] = id})
     + IF id = output THEN 1 ELSE 0]

\* lower_arena: a row per arithmetic node, wired by circuit_id, node_id, lhs_id and rhs_id.
Arithmetic(node) == node.op \notin {"Input", "Const"}
TableOf(op) == CASE op = "Mul" -> "qm31_mul" [] op = "Inverse" -> "qm31_inv" [] OTHER -> "linear_ops"
Flag(b) == IF b THEN 1 ELSE 0

LoweredRow(arena, id, uses) ==
  LET node == arena[id + 1]
      operand(k) == IF k \in DOMAIN node.args THEN ArenaValue(arena, node.args[k]) ELSE QZero
      base == [table |-> TableOf(node.op), enabler |-> 1, circuit_id |-> CircuitId, node_id |-> id,
               lhs_id |-> node.args[1], rhs_id |-> IF Len(node.args) = 2 THEN node.args[2] ELSE 0,
               a |-> operand(1), b |-> operand(2), out |-> node.value, uses |-> uses]
  IN  IF base.table = "linear_ops"
      THEN [is_add |-> Flag(node.op = "Add"), is_sub |-> Flag(node.op = "Sub"), is_neg |-> Flag(node.op = "Neg")]
           @@ base
      ELSE [in_circuit |-> 1] @@ base

LoweredRows(arena, output) ==
  LET uses == UseCounts(arena, output)
      ids == SelectSeq([i \in DOMAIN arena |-> i - 1], LAMBDA id : Arithmetic(arena[id + 1]))
  IN  [k \in DOMAIN ids |-> LoweredRow(arena, ids[k], uses[ids[k]])]

ClaimOf(arena, output) ==
  [circuit_id |-> CircuitId,
   inputs |-> SelectSeq([i \in DOMAIN arena |-> i - 1], LAMBDA id : arena[id + 1].op = "Input"),
   output |-> output, value |-> ArenaValue(arena, output)]

-----------------------------------------------------------------------------
\* LogUp entries: a tuple of a relation and its multiplicity.
Entry(rel, tuple, mult) == [tuple |-> <<rel>> \o tuple, mult |-> mult]
OpKind(op) == CASE op = "Add" -> 1 [] op = "Sub" -> 2 [] op = "Mul" -> 3 [] op = "Neg" -> 4 [] op = "Inverse" -> 5

\* evaluate() of the three circuit components, in its order.
LinearKind(r) == r.is_add * OpKind("Add") + r.is_sub * OpKind("Sub") + r.is_neg * OpKind("Neg")
Def(r, kind, mult) == Entry("op_def", <<r.circuit_id, r.node_id, kind, r.lhs_id, r.rhs_id>>, mult)
Lhs(r, mult) == Entry("wire", <<r.circuit_id, r.lhs_id, r.a>>, mult)
Rhs(r, mult) == Entry("wire", <<r.circuit_id, r.rhs_id, r.b>>, mult)
Out(r, mult) == Entry("wire", <<r.circuit_id, r.node_id, r.out>>, mult)
LinearEntries(r) == <<Def(r, LinearKind(r), -r.enabler), Lhs(r, -r.enabler), Rhs(r, -(r.is_add + r.is_sub)), Out(r, r.uses)>>
MulEntries(r) == <<Def(r, OpKind("Mul"), -r.in_circuit), Lhs(r, -r.in_circuit), Rhs(r, -r.in_circuit), Out(r, r.uses * r.in_circuit)>>
InvEntries(r) == <<Def(r, OpKind("Inverse"), -r.in_circuit), Lhs(r, -r.in_circuit), Out(r, r.uses * r.in_circuit)>>
AirEntries(r) ==
  CASE r.table = "linear_ops" -> LinearEntries(r) [] r.table = "qm31_mul" -> MulEntries(r) [] OTHER -> InvEntries(r)

\* Bug: the columns take the fractions from the last to the first.
WitnessColumnsReversed(r) == InPairs(Reverse(AirEntries(r)))

\* gen_interaction_trace of the same components: each column holds the fractions of a
\* write_pair or a write_col.
LinearColumns(r) ==
  << <<Def(r, LinearKind(r), -r.enabler), Lhs(r, -r.enabler)>>, <<Rhs(r, -(r.is_add + r.is_sub)), Out(r, r.uses)>> >>
MulColumns(r) ==
  << <<Def(r, OpKind("Mul"), -r.in_circuit), Lhs(r, -r.in_circuit)>>, <<Rhs(r, -r.in_circuit), Out(r, r.uses * r.in_circuit)>> >>
InvColumns(r) == << <<Def(r, OpKind("Inverse"), -r.in_circuit), Lhs(r, -r.in_circuit)>>, <<Out(r, r.uses * r.in_circuit)>> >>
WitnessColumns(r) ==
  CASE r.table = "linear_ops" -> LinearColumns(r) [] r.table = "qm31_mul" -> MulColumns(r) [] OTHER -> InvColumns(r)

\* public_circuit_terms, over the arena the verifier recorded.
PublicEntries(c, arena, output) ==
  LET uses == UseCounts(arena, output)
      term(id) == LET node == arena[id + 1]
                  IN  IF Arithmetic(node)
                      THEN <<Entry("op_def", <<c.circuit_id, id, OpKind(node.op), node.args[1],
                                               IF Len(node.args) = 2 THEN node.args[2] ELSE 0>>, 1)>>
                      ELSE IF uses[id] > 0
                      THEN <<Entry("wire", <<c.circuit_id, id, node.value>>, uses[id])>>
                      ELSE <<>>
  IN  FoldLeft(LAMBDA es, i : es \o term(i - 1), <<Entry("wire", <<c.circuit_id, c.output, c.value>>, -1)>>,
               [i \in DOMAIN arena |-> i])

\* What remains of every tuple: the sum of its multiplicities.
Net(entries) ==
  LET tuples == {entries[i].tuple : i \in DOMAIN entries}
      sum(t) == MapThenSumSet(LAMBDA i : entries[i].mult, {i \in DOMAIN entries : entries[i].tuple = t})
  IN  [t \in {t \in tuples : sum(t) # 0} |-> sum(t)]

\* verify_recursion, circuits only: the claimed output is the canonical circuit's, every row
\* satisfies its table, and the LogUp sums cancel.
Accepts(c, arena, output, rows) ==
  /\ ArenaValue(arena, output) = c.value
  /\ \A i \in DOMAIN rows : RowHolds(rows[i])
  /\ Net(FoldLeft(LAMBDA es, r : es \o AirEntries(r), PublicEntries(c, arena, output), rows)) = <<>>

-----------------------------------------------------------------------------
\* push_mul, push_inv, push_fold_line, push_double and push_term: a row outside any circuit.
Unwired(table, cols) ==
  cols @@ [table |-> table, enabler |-> 1, in_circuit |-> 0, circuit_id |-> 0, node_id |-> 0,
           lhs_id |-> 0, rhs_id |-> 0, uses |-> 0]

MulRow(a, b) == Unwired("qm31_mul", [a |-> a, b |-> b, out |-> QMul(a, b)])
InvRow(a) == Unwired("qm31_inv", [a |-> a, out |-> QInverse(a)])
FoldRow(f, g, x, alpha) ==
  LET x_inv == QInverse(QConst(x))[0]
      t == QMul(QSub(f, g), QConst(x_inv))
  IN  Unwired("fri_fold_line", [x |-> x, x_inv |-> x_inv, f_x |-> f, f_neg_x |-> g, t |-> t, alpha |-> alpha,
                                out |-> QAdd(QAdd(f, g), QMul(alpha, t))])
\* CirclePoint::double is stwo's addition of the point to itself.
DoubleRow(p, q) ==
  Unwired("circle_double", [p_x |-> p, p_y |-> q, out |-> QSub(QMul(p, p), QMul(q, q)),
                            r_y |-> QAdd(QMul(p, q), QMul(q, p))])
TermRow(v) == Unwired("logup_sum", [out |-> v])
LimbColumns == {"a", "b", "out", "f_x", "f_neg_x", "t", "alpha", "p_x", "p_y", "r_y"}
PaddingRow(row) ==
  [c \in DOMAIN row |-> IF c = "table" THEN row[c] ELSE IF c \in LimbColumns THEN QZero ELSE 0]

-----------------------------------------------------------------------------
Init ==
  /\ \/ /\ mode = "circuit" /\ budget \in Budgets
        /\ \E mask \in Masks, alpha, denom_inverse \in Coefficients, sum \in Sums :
             recorder = NewRecorder(mask, alpha, denom_inverse, sum)
     \/ /\ mode = "rows" /\ budget = <<>>
        /\ recorder = NewRecorder([i \in Interactions |-> <<>>], QOne, QOne, QZero)
  /\ calls = <<>>
  /\ weighted = <<>>
  /\ traces = <<>>
  /\ claim = NoClaim

\* The constraint of a LogUp batch, from its fractions as values: its numerator over its
\* denominator is what the cumulative sum must step by.
BatchConstraint(fracs, step) ==
  LET is == DOMAIN fracs
      others(i) == FoldLeft(LAMBDA v, j : IF i = j THEN v ELSE QMul(v, fracs[j].den.value), QOne,
                            [j \in is |-> j])
      numerator == FoldLeft(LAMBDA v, i : QAdd(v, QMul(fracs[i].num.value, others(i))), QZero, [i \in is |-> i])
  IN  QSub(QMul(step, others(0)), numerator)

\* Column b of the LogUp trace at one of its n offsets, put together from its four parts.
Column(rec, at, n, o) ==
  LET v(c) == rec.mask[2][rec.col_index[2] + at + (c - 1) * n + o]
  IN  QAdd(v(1), QAdd(QMul(v(2), Basis[1]), QAdd(QMul(v(3), Basis[2]), QMul(v(4), Basis[3]))))

LogupConstraints(rec) ==
  LET batches == InPairs(rec.logup.fracs)
      n == Len(batches)
      prev(b) == IF b = 1 THEN QZero ELSE Column(rec, 4 * (b - 2), 1, 1)
      step(b) == IF b < n THEN QSub(Column(rec, 4 * (b - 1), 1, 1), prev(b))
                 ELSE QAdd(QSub(QSub(Column(rec, 4 * (n - 1), 2, 2), Column(rec, 4 * (n - 1), 2, 1)), prev(n)),
                           rec.logup.cumsum_shift)
  IN  [b \in 1 .. n |-> BatchConstraint(batches[b], step(b))]

ConstraintsOf(rec, c) ==
  CASE c.kind = "constraint" -> <<rec.handles[c.args[1]].value>>
    [] c.kind = "finalize" -> LogupConstraints(rec)
    [] OTHER -> <<>>

Recording == mode = "circuit" /\ claim = NoClaim
Affordable(kind) == Cardinality({i \in DOMAIN calls : calls[i].kind = kind}) < budget[kind]

Evaluate ==
  /\ Recording
  /\ \E c \in {c \in CallsOf(recorder) : Affordable(c.kind)} :
       /\ recorder' = Apply(recorder, c)
       /\ calls' = Append(calls, c)
       /\ weighted' = weighted \o [k \in DOMAIN ConstraintsOf(recorder, c) |->
                                    <<recorder.denom_inverse.value, ConstraintsOf(recorder, c)[k]>>]
  /\ UNCHANGED <<mode, budget, traces, claim>>

\* CompositionRecorder::visit, from the second component on.
Visit ==
  /\ Recording /\ Affordable("component")
  /\ \E mask \in Masks, denom_inverse \in Coefficients, sum \in Sums :
       recorder' = NextComponent(recorder, mask, denom_inverse, sum)
  /\ calls' = Append(calls, Call("component", "", <<>>))
  /\ UNCHANGED <<mode, budget, weighted, traces, claim>>

\* The callers panic on a composition that accumulated to a constant.
LowerArena ==
  /\ Recording /\ ~IsConst(recorder.accumulation)
  /\ traces' = LoweredRows(recorder.arena, recorder.accumulation.id)
  /\ claim' = ClaimOf(recorder.arena, recorder.accumulation.id)
  /\ UNCHANGED <<mode, budget, recorder, calls, weighted>>

Pushing == mode = "rows" /\ traces = <<>>
Pushed(row) == traces' = <<row>> /\ UNCHANGED <<mode, budget, recorder, calls, weighted, claim>>
PushMul == Pushing /\ \E a, b \in Operands : Pushed(MulRow(a, b))
PushInv == Pushing /\ \E a \in Operands \ {QZero} : Pushed(InvRow(a))
PushFoldLine == Pushing /\ \E f, g, alpha \in Operands, x \in F \ {0} : Pushed(FoldRow(f, g, x, alpha))
PushDouble == Pushing /\ \E p, q \in Operands : QAdd(QMul(p, p), QMul(q, q)) = QOne /\ Pushed(DoubleRow(p, q))
PushTerm == Pushing /\ \E v \in Operands \ {QZero} : Pushed(TermRow(v))

Next == \/ Evaluate \/ Visit \/ LowerArena
        \/ PushMul \/ PushInv \/ PushFoldLine \/ PushDouble \/ PushTerm

Spec == Init /\ [][Next]_vars

-----------------------------------------------------------------------------
\* Every node's operands are earlier nodes, and its value is its operation on theirs: what
\* an eager handle returned is what the recorded structure computes.
ArenaSound ==
  \A i \in DOMAIN recorder.arena :
    LET node == recorder.arena[i]
        v(k) == ArenaValue(recorder.arena, node.args[k])
    IN  /\ \A k \in DOMAIN node.args : node.args[k] \in 0 .. i - 2
        /\ CASE node.op \in {"Input", "Const"} -> node.args = <<>>
             [] node.op \in {"Neg", "Inverse"} -> Len(node.args) = 1 /\ node.value = Fold(node.op, v(1), v(1))
             [] OTHER -> Len(node.args) = 2 /\ node.value = Fold(node.op, v(1), v(2))

\* recorder.rs: the recorded composition is the random linear combination of all
\* constraints of all components, each over its own component's denominator, LogUp
\* constraints of every batch included, the first constraint under the highest power of
\* alpha; and the arena computes it.
RecordsComposition ==
  /\ ArenaSound
  /\ recorder.accumulation.value =
       FoldLeft(LAMBDA v, w : QAdd(QMul(v, recorder.alpha.value), QMul(w[1], w[2])), QZero, weighted)

\* The mask the verifier rebuilds from the inputs of a claim: after alpha and the
\* denominator, they fill interaction by interaction, column by column.
Reads(cs) ==
  FoldLeft(LAMBDA m, c : CASE c.kind = "mask" -> [m EXCEPT ![c.args[1]] = @ + 1]
                           [] c.kind = "frac" -> [m EXCEPT ![3] = @ + 1]
                           [] c.kind = "finalize" -> [m EXCEPT ![2] = @ + 4 * ((m[3] + 1) \div 2 + 1), ![3] = 0]
                           [] OTHER -> m,
           [i \in 0 .. 3 |-> 0], cs)
\* Bug: the mask starts at the denominator.
MaskFromClaimEarly(arena, c, cs) ==
  LET n == Reads(cs)
      from(i) == 2 + SumFunctionOnSet(n, 0 .. i - 1)
  IN  [i \in Interactions |-> [k \in 1 .. n[i] |-> ArenaValue(arena, c.inputs[from(i) + k - 1])]]

MaskFromClaim(arena, c, cs) ==
  LET n == Reads(cs)
      from(i) == 3 + SumFunctionOnSet(n, 0 .. i - 1)
  IN  [i \in Interactions |-> [k \in 1 .. n[i] |-> ArenaValue(arena, c.inputs[from(i) + k - 1])]]

\* record_from_claim: run evaluate() again over the claim's inputs.
Replay(rec, cs) == FoldLeft(LAMBDA r, c : Apply(r, c), rec, cs)
RecordFromClaim(rec, c, cs) ==
  Replay(NewRecorder(MaskFromClaim(rec.arena, c, cs), ArenaValue(rec.arena, c.inputs[1]),
                     ArenaValue(rec.arena, c.inputs[2]), rec.logup.cumsum_shift), cs)

Lowered == claim # NoClaim
SingleComponent == \A i \in DOMAIN calls : calls[i].kind # "component"

\* evaluate() reads no column of an interaction before one it has begun.
ReadsInOrder ==
  LET of(c) == CASE c.kind = "mask" -> c.args[1] [] c.kind = "finalize" -> 2 [] OTHER -> 0
  IN  \A i, j \in DOMAIN calls :
        i < j /\ calls[j].kind \in {"mask", "finalize"} => of(calls[i]) <= of(calls[j])

\* circuit.rs, binding.rs: re-recording from a claim's inputs gives the arena the prover
\* lowered, when evaluate() reads its interactions in order; and the structure of a circuit
\* does not depend on the values of its mask.
SameArena == RecordFromClaim(recorder, claim, calls).arena = recorder.arena
StructureFixed ==
  LET other == [i \in Interactions |-> [k \in DOMAIN recorder.mask[i] |-> QAdd(recorder.mask[i][k], QOne)]]
  IN  Ops(Replay(NewRecorder(other, QOne, QOne, QOne), calls).arena) = Ops(recorder.arena)
Rerecords == Lowered /\ SingleComponent => StructureFixed /\ (ReadsInOrder => SameArena)

\* The fractions a component's interaction trace is built from are those of its AIR, in
\* the same pairs.
FractionsAgree == Lowered => \A i \in DOMAIN traces : InPairs(AirEntries(traces[i])) = WitnessColumns(traces[i])

\* circuit.rs, linear_ops.rs, qm31_mul.rs, qm31_inv.rs: an honest lowering is accepted:
\* every row satisfies its table, every wire is emitted as often as it is consumed, every
\* operation defined is implemented once.  Of one lowered row, another result is refused by
\* its table; another value in any other column its operation uses, by the table or by sums
\* that no longer cancel.
Altered(row, c) ==
  IF c \in LimbColumns
  THEN {[row EXCEPT ![c][k] = (@ + d) % FieldP] : k \in Limb, d \in F \ {0}}
  ELSE {[row EXCEPT ![c] = @ + d] : d \in {-1, 1}}
Unread(row) ==
  {"table"} \cup (IF row.table = "qm31_inv" THEN {"b", "rhs_id"} ELSE {})
            \cup (IF row.table = "linear_ops" /\ row.is_neg = 1 THEN {"b"} ELSE {})
AlterationShows ==
  \A i \in DOMAIN traces : \A c \in DOMAIN traces[i] \ Unread(traces[i]) :
    \A row \in Altered(traces[i], c) :
      RowHolds(row) => c # "out" /\ Net(AirEntries(row)) # Net(AirEntries(traces[i]))
LoweredExactly == Lowered => Accepts(claim, recorder.arena, recorder.accumulation.id, traces) /\ AlterationShows

\* A row a push function writes satisfies its table, and no other result does; nor does
\* padding add to the sum of inverses.
Results == {"out", "t", "x_inv", "r_y"}
PushedExactly ==
  mode = "rows" => \A i \in DOMAIN traces :
    LET row == traces[i]
    IN  /\ RowHolds(row) /\ RowHolds(PaddingRow(row))
        /\ IF row.table = "logup_sum"
           THEN QMul(SumShare(row), row.out) = QOne /\ SumShare(PaddingRow(row)) = QZero
           ELSE \A c \in Results \cap DOMAIN row : \A other \in Altered(row, c) : ~RowHolds(other)
=============================================================================
