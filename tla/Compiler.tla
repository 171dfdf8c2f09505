------------------------------ MODULE Compiler ------------------------------
(***************************************************************************)
(* stwo-macros/src/air_fns.rs: define_air_fns! lowers functions over felts *)
(* to AIR tables.  A function is a table, an activation a row; the degree  *)
(* budget decides which products become columns.  The same lowered cells   *)
(* are run over concrete values to fill the rows, and evaluated over the   *)
(* row to give its constraints and its lookup entries.                     *)
(*                                                                         *)
(* A source expression and a lowered one are trees <<op, leaf, operands>>. *)
(* The parser is abstracted to the trees it builds.                        *)
(***************************************************************************)
EXTENDS Integers, SequencesExt

CONSTANTS
  P,                \* the field has P elements
  RoundConstants,   \* what `constant(CONSTS[i])` names in the invoking crate
  Programs,         \* inputs of the macro
  Inputs,           \* values the host activates a function with
  MaxActivations,   \* how often the host activates one
  MaxAltered        \* how many values of a row an alteration changes

ASSUME FieldAssumption == P \in Nat \ {0, 1} /\ Inputs \subseteq 0 .. P - 1

VARIABLES
  program,      \* AirFnsInput
  lowered,      \* LoweredFn of every table-backed function lowered so far
  status,       \* "compiling", "compiled", "rejected" or "altered"
  tables,       \* Tables: for each function its rows
  activations   \* the public activations
vars == <<program, lowered, status, tables, activations>>

Num(n) == <<"num", n, <<>> >>
Name(x) == <<"name", x, <<>> >>
At(x, i) == <<"at", x, <<i>> >>
Op(op, a, b) == <<op, "", <<a, b>> >>

-----------------------------------------------------------------------------
\* Compile-time evaluation.  NoConst where the code returns an error.
NoConst == -1

\* const_eval folds integer subtrees in the field.
RECURSIVE ConstEval(_)
ConstEval(e) ==
  LET v == [k \in DOMAIN e[3] |-> ConstEval(e[3][k])]
  IN  CASE e[1] = "num" -> e[2] % P
        [] e[1] \notin {"add", "sub", "mul"} \/ NoConst \in Range(v) -> NoConst
        [] e[1] = "add" -> (v[1] + v[2]) % P
        [] e[1] = "sub" -> (v[1] + P - v[2]) % P
        [] e[1] = "mul" -> (v[1] * v[2]) % P

\* index_eval is integer arithmetic.
RECURSIVE IndexEval(_)
IndexEval(e) ==
  LET v == [k \in DOMAIN e[3] |-> IndexEval(e[3][k])]
  IN  CASE e[1] = "num" -> e[2]
        [] e[1] \notin {"add", "sub", "mul", "div", "rem"} \/ NoConst \in Range(v) -> NoConst
        [] e[1] = "add" -> v[1] + v[2]
        [] e[1] = "sub" -> IF v[2] > v[1] THEN NoConst ELSE v[1] - v[2]
        [] e[1] = "mul" -> v[1] * v[2]
        [] e[1] = "div" -> v[1] \div v[2]
        [] e[1] = "rem" -> v[1] % v[2]

RECURSIVE Substitute(_, _, _)
Substitute(e, var, n) ==
  IF e = Name(var) THEN Num(n) ELSE <<e[1], e[2], [k \in DOMAIN e[3] |-> Substitute(e[3][k], var, n)]>>

\* A statement is a let, an assert or a for.
LetStmt(names, value) == [kind |-> "let", names |-> names, value |-> value]
AssertStmt(lhs, rhs) == [kind |-> "assert", lhs |-> lhs, rhs |-> rhs]
ForStmt(var, lo, hi, body) == [kind |-> "for", var |-> var, lo |-> lo, hi |-> hi, body |-> body]

RECURSIVE SubstituteStmt(_, _, _)
SubstituteStmt(s, var, n) ==
  CASE s.kind = "let" -> [s EXCEPT !.value = Substitute(@, var, n)]
    [] s.kind = "assert" -> [s EXCEPT !.lhs = Substitute(@, var, n), !.rhs = Substitute(@, var, n)]
    [] s.kind = "for" -> [s EXCEPT !.body = [k \in DOMAIN @ |-> SubstituteStmt(@[k], var, n)]]

\* expect_range, as the positions lo .. hi - 1 in order.
Positions(lo, hi) == [k \in 1 .. hi - lo |-> lo + k - 1]
RangeOf(e) == Positions(IndexEval(e[3][1]), IndexEval(e[3][2]))

-----------------------------------------------------------------------------
\* The Lowerer.  Errors stop the expansion: `ok` goes FALSE and stays so.
Scalar(cell, degree) == [kind |-> "scalar", cell |-> cell, degree |-> degree]
Array(elements) == [kind |-> "array", elements |-> elements]
Flatten(value) == IF value.kind = "scalar" THEN <<value>> ELSE value.elements
IsArray(scope, x) == x \in DOMAIN scope /\ scope[x].kind = "array"

NewLowerer(fn, max_degree) ==
  [fn |-> fn, max_degree |-> max_degree, used |-> <<>>, extra |-> <<>>, derived |-> <<>>,
   constraints |-> <<>>, fill |-> <<>>, calls |-> <<>>, cse |-> <<>>, ok |-> TRUE]

Fail(l) == [l EXCEPT !.ok = FALSE]
Lowered(l, x, d) == [l |-> l, x |-> x, d |-> d]
Failed(l) == Lowered(Fail(l), Num(0), 0)

\* Bug: shadowed names are not versioned.
FreshUnversioned(l, base) == [l |-> l, cell |-> base]

\* fresh: a name used before gets a version.
Fresh(l, base) ==
  LET n == IF base \in DOMAIN l.used THEN l.used[base] + 1 ELSE 1
  IN  [l |-> [l EXCEPT !.used = (base :> n) @@ @],
       cell |-> IF n = 1 THEN base ELSE base \o "_v" \o ToString(n)]

Updated(s, i, v) == [k \in DOMAIN s |-> IF k = i + 1 THEN v ELSE s[k]]
Indexed(x, k) == x \o "_" \o ToString(k)

\* A committed column beyond the arguments.
Extra(f) == [l |-> [f.l EXCEPT !.extra = Append(@, f.cell)], cell |-> f.cell]
RegisterExtra(l, base) == Extra(Fresh(l, base))

Derived(f, x) ==
  [l |-> [f.l EXCEPT !.derived = Append(@, <<f.cell, x>>), !.fill = Append(@, [cell |-> f.cell, x |-> x])],
   cell |-> f.cell]
RegisterDerived(l, base, x) == Derived(Fresh(l, base), x)

\* What an expression, a callee's output or a returned value adds to the ones before it.
Collected(m, c) == [l |-> c.l, values |-> Append(m.values, c.value)]
CollectedCell(m, c) == [l |-> c.l, cells |-> Append(m.cells, c.cell)]

\* Bug: the column is filled but no equality pins it.
CommittedFree(f, x) ==
  Lowered([f.l EXCEPT !.fill = Append(@, [cell |-> f.cell, x |-> x]), !.cse = (x :> f.cell) @@ @], Name(f.cell), 1)

Committed(f, x) ==
  Lowered([f.l EXCEPT !.constraints = Append(@, Op("sub", Name(f.cell), x)),
                      !.fill = Append(@, [cell |-> f.cell, x |-> x]),
                      !.cse = (x :> f.cell) @@ @],
          Name(f.cell), 1)

\* materialize: one column and one equality per distinct expression; its degree drops to 1.
Materialize(l, x) ==
  IF x \in DOMAIN l.cse THEN Lowered(l, Name(l.cse[x]), 1)
  ELSE Committed(RegisterExtra(l, l.fn \o "_t" \o ToString(Cardinality(DOMAIN l.cse))), x)

\* Bug: a product one above the budget is let through.
RECURSIVE LowerProductLoose(_, _, _, _)
LowerProductLoose(l, left, right, budget) ==
  IF left.d + right.d <= budget + 1 THEN Lowered(l, Op("mul", left.x, right.x), left.d + right.d)
  ELSE IF left.d >= right.d THEN LET m == Materialize(l, left.x) IN LowerProductLoose(m.l, m, right, budget)
       ELSE LET m == Materialize(l, right.x) IN LowerProductLoose(m.l, left, m, budget)

\* Bug: only the left operand of a product is ever materialized.
RECURSIVE LowerProductLeft(_, _, _, _)
LowerProductLeft(l, left, right, budget) ==
  CASE left.d + right.d <= budget -> Lowered(l, Op("mul", left.x, right.x), left.d + right.d)
    [] left.d > 1 -> LET m == Materialize(l, left.x) IN LowerProductLeft(m.l, m, right, budget)
    [] OTHER -> Failed(l)

\* lower_product: the operand of higher degree is materialized until the product fits.
RECURSIVE LowerProduct(_, _, _, _)
LowerProduct(l, left, right, budget) ==
  CASE ConstEval(left.x) = 1 -> Lowered(l, right.x, right.d)
    [] ConstEval(right.x) = 1 -> Lowered(l, left.x, left.d)
    [] left.d + right.d <= budget -> Lowered(l, Op("mul", left.x, right.x), left.d + right.d)
    [] left.d >= right.d /\ left.d > 1 -> LET m == Materialize(l, left.x) IN LowerProduct(m.l, m, right, budget)
    [] right.d > 1 -> LET m == Materialize(l, right.x) IN LowerProduct(m.l, left, m, budget)
    [] OTHER -> Failed(l)

\* lower_pow: square and multiply, from the low bit, in the frame `power` is in; `result` is
\* empty until a bit is set.
RECURSIVE LowerPow(_, _, _, _)
LowerPow(power, result, remaining, budget) ==
  LET acc == CASE remaining % 2 = 0 -> [result EXCEPT !.l = power.l]
               [] result.x = <<>> -> power
               [] OTHER -> LowerProduct(power.l, result, power, budget)
  IN  IF remaining <= 1 THEN acc
      ELSE LowerPow(LowerProduct(acc.l, power, power, budget), acc, remaining \div 2, budget)

\* lower: a scalar expression over the names in scope, as an expression over cells.
RECURSIVE Lower(_, _, _, _)
Lower(l, e, scope, budget) ==
  LET left == Lower(l, e[3][1], scope, budget)
      right == Lower(left.l, e[3][2], scope, budget)
      deeper == IF left.d > right.d THEN left.d ELSE right.d
      index == IndexEval(e[3][1])
      exponent == IndexEval(e[3][2])
      Term(m, n) == LET t == Lower(m.l, Substitute(e[3][3], e[2], n), scope, budget)
                    IN  IF m.x = <<>> THEN t ELSE Lowered(t.l, Op("add", m.x, t.x), IF m.d > t.d THEN m.d ELSE t.d)
  IN  CASE ConstEval(e) # NoConst -> Lowered(l, e, 0)
        [] e[1] = "name" -> IF e[2] \in DOMAIN scope /\ ~IsArray(scope, e[2])
                            THEN Lowered(l, Name(scope[e[2]].cell), scope[e[2]].degree) ELSE Failed(l)
        [] e[1] = "at" -> IF IsArray(scope, e[2]) /\ index \in 0 .. Len(scope[e[2]].elements) - 1
                          THEN LET v == scope[e[2]].elements[index + 1] IN Lowered(l, Name(v.cell), v.degree)
                          ELSE Failed(l)
        [] e[1] = "constant" -> Lowered(l, e, 0)
        [] e[1] = "sum" -> IF RangeOf(e) = <<>> THEN Failed(l)
                           ELSE FoldLeft(Term, [l |-> l, x |-> <<>>, d |-> 0], RangeOf(e))
        [] e[1] \in {"add", "sub"} -> Lowered(right.l, Op(e[1], left.x, right.x), deeper)
        [] e[1] = "mul" -> LowerProduct(right.l, left, right, budget)
        [] e[1] = "pow" -> IF exponent = 0 THEN Lowered(l, Num(1), 0)
                           ELSE LowerPow(left, Lowered(l, <<>>, 0), exponent, budget)
        [] e[1] = "neg" -> Lowered(left.l, <<"neg", "", <<left.x>> >>, left.d)
        [] OTHER -> Failed(l)      \* a call may only be bound by a let

\* One derived cell for an expression.
CellOf(c, degree) == [l |-> c.l, value |-> Scalar(c.cell, degree)]
DerivedCell(r, base) == CellOf(RegisterDerived(r.l, base, r.x), r.d)
LowerCell(l, base, e, scope, budget) == DerivedCell(Lower(l, e, scope, budget), base)

\* Array literals and map: one derived cell per element.
LowerElements(l, base, es, scope, budget) ==
  FoldLeft(LAMBDA m, k : Collected(m, LowerCell(m.l, Indexed(base, k - 1), es[k], scope, budget)),
           [l |-> l, values |-> <<>>], [k \in DOMAIN es |-> k])

\* bind_rets: one binder takes everything, or one binder per returned value.
BindRets(l, names, rets) ==
  CASE Len(names) = 1 /\ Len(rets) = 1 -> [l |-> l, values |-> rets]
    [] Len(names) = 1 -> [l |-> l, values |-> <<Array(FlattenSeq([k \in DOMAIN rets |-> Flatten(rets[k])]))>>]
    [] Len(names) = Len(rets) -> [l |-> l, values |-> rets]
    [] OTHER -> [l |-> Fail(l), values |-> <<>>]

\* An activation: arguments become cells, returned values columns the relation brings.
LowerArg(m, a, callee, scope, budget) ==
  IF a[1] = "name" /\ IsArray(scope, a[2])
  THEN [m EXCEPT !.values = @ \o scope[a[2]].elements]
  ELSE Collected(m, LowerCell(m.l, callee \o "_a" \o ToString(Len(m.values)), a, scope, budget))
LowerArgs(l, callee, args, scope, budget) ==
  FoldLeft(LAMBDA m, a : LowerArg(m, a, callee, scope, budget), [l |-> l, values |-> <<>>], args)

Activated(passed, bases, asArray, callee) ==
  LET returned == FoldLeft(LAMBDA m, b : CollectedCell(m, RegisterExtra(m.l, b)), [l |-> passed.l, cells |-> <<>>], bases)
      values == [k \in DOMAIN returned.cells |-> Scalar(returned.cells[k], 1)]
      call == [callee |-> callee, args |-> [k \in DOMAIN passed.values |-> passed.values[k].cell], rets |-> returned.cells]
  IN  [l |-> [returned.l EXCEPT !.fill = Append(@, call), !.calls = Append(@, call)],
       values |-> IF asArray THEN <<Array(values)>> ELSE values]

LowerActivation(l, names, callee, args, scope, budget, arities) ==
  LET passed == LowerArgs(l, callee, args, scope, budget)
      arity == arities[callee]
      asArray == Len(names) = 1 /\ arity.rets > 1
      bases == IF asArray THEN [k \in 1 .. arity.rets |-> Indexed(names[1], k - 1)] ELSE names
  IN  IF callee \notin DOMAIN arities \/ Len(passed.values) # arity.args \/ Len(bases) # arity.rets
      THEN [l |-> Fail(l), values |-> <<>>]
      ELSE Activated(passed, bases, asArray, callee)

\* What a function sees of the others: the inline ones and the arities of the tables lowered before.
InlineFns == { k \in DOMAIN program.fns : program.fns[k].inline }
InlineNamed(f) == { k \in InlineFns : program.fns[k].name = f }
Arities == [f \in { lowered[k].name : k \in DOMAIN lowered } |->
              LET k == CHOOSE j \in DOMAIN lowered : lowered[j].name = f
              IN  [args |-> lowered[k].n_args, rets |-> Len(lowered[k].ret_cells)]]

RECURSIVE LowerValue(_, _, _, _, _), LowerBlock(_, _, _, _), LowerSplice(_, _, _, _, _, _)

\* lower_ret, over the returned expressions in order.
LowerRets(l, rets, scope, budget) ==
  FoldLeft(LAMBDA m, r : IF r[1] = "name" /\ IsArray(scope, r[2]) THEN [m EXCEPT !.values = Append(@, scope[r[2]])]
                         ELSE Collected(m, LowerCell(m.l, l.fn \o "_ret", r, scope, budget)),
           [l |-> l, values |-> <<>>], rets)

\* An inline fn is spliced into the frame: fresh scope, same columns, CSE and fill.
BoundScalar(m, p, c) == [l |-> c.l, scope |-> (p.name :> c.value) @@ m.scope]
BindParam(m, f, p, a, scope, budget) ==
  CASE p.size = 0 -> BoundScalar(m, p, LowerCell(m.l, f.name \o "_" \o p.name, a, scope, budget))
    [] p.size # 0 /\ a[1] = "name" /\ IsArray(scope, a[2]) /\ Len(scope[a[2]].elements) = p.size ->
         [m EXCEPT !.scope = (p.name :> scope[a[2]]) @@ @]
    [] OTHER -> [m EXCEPT !.l = Fail(@)]
BoundRets(rets, names) == BindRets(rets.l, names, rets.values)
Returning(body, names, f, budget) ==
  IF body.l.ok THEN BoundRets(LowerRets(body.l, f.rets, body.scope, budget), names) ELSE [l |-> body.l, values |-> <<>>]
Spliced(bound, names, f, budget) ==
  IF bound.l.ok THEN Returning(LowerBlock(bound.l, f.body, bound.scope, budget), names, f, budget)
  ELSE [l |-> bound.l, values |-> <<>>]
LowerSplice(l, names, f, args, scope, budget) ==
  IF Len(args) # Len(f.params) THEN [l |-> Fail(l), values |-> <<>>]
  ELSE Spliced(FoldLeft(LAMBDA m, k : BindParam(m, f, f.params[k], args[k], scope, budget),
                        [l |-> l, scope |-> <<>>], [k \in DOMAIN args |-> k]), names, f, budget)

\* lower_value: the right-hand side of a let.
Elements(e) == IF e[1] = "array" THEN e[3]
               ELSE [k \in DOMAIN RangeOf(e) |-> Substitute(e[3][3], e[2], RangeOf(e)[k])]
AsArray(m) == [l |-> m.l, values |-> <<Array(m.values)>>]
AsUpdate(c, elements, index) == [l |-> c.l, values |-> <<Array(Updated(elements, index, c.value))>>]
LowerValue(l, names, e, scope, budget) ==
  LET index == IndexEval(e[3][1])
      inline == InlineNamed(e[2])
  IN  CASE e[1] \in {"array", "map"} -> AsArray(LowerElements(l, names[1], Elements(e), scope, budget))
        [] e[1] = "update" ->
             IF ~IsArray(scope, e[2]) \/ index \notin 0 .. Len(scope[e[2]].elements) - 1
             THEN [l |-> Fail(l), values |-> <<>>]
             ELSE AsUpdate(LowerCell(l, Indexed(names[1], index), e[3][2], scope, budget), scope[e[2]].elements, index)
        [] e[1] = "call" -> IF inline = {} THEN LowerActivation(l, names, e[2], e[3], scope, budget, Arities)
                            ELSE LowerSplice(l, names, program.fns[CHOOSE k \in inline : TRUE], e[3], scope, budget)
        [] Len(names) # 1 -> [l |-> Fail(l), values |-> <<>>]
        [] OTHER -> Collected([values |-> <<>>], LowerCell(l, names[1], e, scope, budget))

\* lower_block: a let binds, shadowing; an assert is a constraint; a for unrolls.
Bind(m, names, r) ==
  [l |-> r.l, scope |-> FoldLeft(LAMBDA sc, k : (names[k] :> r.values[k]) @@ sc, m.scope, [k \in DOMAIN r.values |-> k])]
Constrain(m, r) == [m EXCEPT !.l = [r.l EXCEPT !.constraints = Append(@, r.x)]]
Unrolled(s) ==
  FlattenSeq([k \in DOMAIN Positions(s.lo, s.hi) |->
    [j \in DOMAIN s.body |-> SubstituteStmt(s.body[j], s.var, Positions(s.lo, s.hi)[k])]])
LowerBlock(l, body, scope, budget) ==
  FoldLeft(
    LAMBDA m, s :
      CASE ~m.l.ok -> m
        [] s.kind = "let" -> Bind(m, s.names, LowerValue(m.l, s.names, s.value, m.scope, budget))
        [] s.kind = "assert" -> Constrain(m, Lower(m.l, Op("sub", s.lhs, s.rhs), m.scope, l.max_degree - 1))
        [] s.kind = "for" -> LowerBlock(m.l, Unrolled(s), m.scope, budget),
    [l |-> l, scope |-> scope], body)

\* The parameters, as registered columns: arrays flatten to name_k.
WithParam(m, p, r) ==
  LET values == [k \in DOMAIN r.cells |-> Scalar(r.cells[k], 1)]
  IN  [l |-> r.l, cells |-> m.cells \o r.cells,
       scope |-> (p.name :> IF p.size = 0 THEN values[1] ELSE Array(values)) @@ m.scope]
LowerParams(l, params) ==
  FoldLeft(LAMBDA m, p :
             WithParam(m, p, FoldLeft(LAMBDA n, b : CollectedCell(n, Fresh(n.l, b)), [l |-> m.l, cells |-> <<>>],
                                      IF p.size = 0 THEN <<p.name>> ELSE [k \in 1 .. p.size |-> Indexed(p.name, k - 1)])),
           [l |-> l, cells |-> <<>>, scope |-> <<>>], params)

\* The returned cells; an embedded function commits those that are not columns.
ReturnedCells(rets, materialize_rets) ==
  FoldLeft(LAMBDA m, v : IF materialize_rets /\ v.degree > 1
                         THEN LET c == Materialize(m.l, Name(v.cell)) IN [l |-> c.l, cells |-> Append(m.cells, c.x[2])]
                         ELSE [m EXCEPT !.cells = Append(@, v.cell)],
           [l |-> rets.l, cells |-> <<>>], FlattenSeq([k \in DOMAIN rets.values |-> Flatten(rets.values[k])]))

\* lower_fn, with one degree kept for the enabler and the running sum.
LoweredFn(function, params, returned) ==
  LET l == returned.l
  IN  [name |-> function.name, n_args |-> Len(params.cells), fields |-> params.cells \o l.extra,
       derived |-> l.derived, constraints |-> l.constraints, calls |-> l.calls, fill |-> l.fill,
       ret_cells |-> returned.cells, ok |-> l.ok]
LowerBody(function, params, body, max_degree, materialize_rets) ==
  IF ~body.l.ok THEN [ok |-> FALSE]
  ELSE LoweredFn(function, params,
                 ReturnedCells(LowerRets(body.l, function.rets, body.scope, max_degree - 1), materialize_rets))
LowerFn(function, max_degree, materialize_rets) ==
  LET params == LowerParams(NewLowerer(function.name, max_degree), function.params)
  IN  LowerBody(function, params, LowerBlock(params.l, function.body, params.scope, max_degree - 1),
                max_degree, materialize_rets)

-----------------------------------------------------------------------------
\* A lowered expression over cell values: concrete_expr for the fill, air_expr for the AIR.
RECURSIVE Eval(_, _)
Eval(x, cells) ==
  CASE ConstEval(x) # NoConst -> ConstEval(x)
    [] x[1] = "name" -> cells[x[2]]
    [] x[1] = "constant" -> RoundConstants[IndexEval(x[3][1]) + 1] % P
    [] x[1] = "add" -> (Eval(x[3][1], cells) + Eval(x[3][2], cells)) % P
    [] x[1] = "sub" -> (Eval(x[3][1], cells) - Eval(x[3][2], cells)) % P
    [] x[1] = "mul" -> (Eval(x[3][1], cells) * Eval(x[3][2], cells)) % P
    [] x[1] = "neg" -> (-Eval(x[3][1], cells)) % P

\* evaluation(): the derived cells once each in order, then the constraints and the entries.
Columns(f) == <<"enabler">> \o f.fields
Cells(f, row) ==
  FoldLeft(LAMBDA cells, d : IF d[1] \in Range(Columns(f)) THEN cells ELSE (d[1] :> Eval(d[2], cells)) @@ cells,
           row, f.derived)

Constraints(f, row) ==
  LET cells == Cells(f, row)
  IN  <<(row["enabler"] * (1 - row["enabler"])) % P>>
        \o [k \in DOMAIN f.constraints |-> (row["enabler"] * Eval(f.constraints[k], cells)) % P]

\* The activation tuples: the own one consumed, one emitted per call made.
Tuple(cells, names) == [k \in DOMAIN names |-> cells[names[k]]]
OwnTuple(f) == SubSeq(f.fields, 1, f.n_args) \o f.ret_cells
Entries(f, row) ==
  LET cells == Cells(f, row)
  IN  << [relation |-> f.name, multiplicity |-> -row["enabler"], tuple |-> Tuple(cells, OwnTuple(f))] >>
        \o [k \in DOMAIN f.calls |-> [relation |-> f.calls[k].callee, multiplicity |-> row["enabler"],
                                      tuple |-> Tuple(cells, f.calls[k].args \o f.calls[k].rets)]]

Flags == {"wide", "io"}
\* Bug: the two flags may be set together.
FlagConstraintsLoose(row) == << (row["wide"] * (1 - row["wide"])) % P, (row["io"] * (1 - row["io"])) % P >>

\* The embedded component's own constraints on its flags, and its entries.
FlagConstraints(row) == << (row["wide"] * (1 - row["wide"])) % P, (row["io"] * (1 - row["io"])) % P,
                           (row["wide"] * row["io"]) % P >>

EmbeddedEntries(f, row) ==
  LET t == Entries(f, row)[1].tuple
      input == SubSeq(t, 1, f.n_args)
      output == SubSeq(t, f.n_args + 1, Len(t))
      on == row["enabler"]
      Entry(r, m, tuple) == [relation |-> r, multiplicity |-> m % P, tuple |-> tuple]
  IN  << Entry("poseidon2", -(on * (1 - row["io"])), input),
         Entry("poseidon2", on * (1 - row["wide"] - row["io"]), SubSeq(output, 1, 1)),
         Entry("poseidon2", on * row["wide"], SubSeq(output, 1, Len(output) \div 2)),
         Entry("poseidon2_io", on * row["io"], t) >>

-----------------------------------------------------------------------------
\* call_<fn> and <fn>_fill: run the cells, activate the callees, push the row, return the outputs.
FnNamed(f) == lowered[CHOOSE k \in DOMAIN lowered : lowered[k].name = f]

\* An embedded row also holds the flags; a row of a call has none, and zeros stand for them here.
PushedRow(f, cells, flags) == [c \in Range(f.fields) |-> cells[c]] @@ ("enabler" :> 1) @@ flags

RECURSIVE Call(_, _, _, _)
Call(ts, name, args, flags) ==
  LET f == FnNamed(name)
      Step(m, s) ==
        IF "callee" \in DOMAIN s
        THEN LET r == Call(m.tables, s.callee, Tuple(m.cells, s.args), flags)
             IN  [tables |-> r.tables,
                  cells |-> [c \in Range(s.rets) |-> r.outputs[CHOOSE k \in DOMAIN s.rets : s.rets[k] = c]] @@ m.cells]
        ELSE [m EXCEPT !.cells = (s.cell :> Eval(s.x, m.cells)) @@ @]
      start == [k \in { f.fields[j] : j \in 1 .. f.n_args } |-> args[CHOOSE j \in 1 .. f.n_args : f.fields[j] = k]]
      run == FoldLeft(Step, [tables |-> ts, cells |-> start], f.fill)
  IN  [tables |-> [run.tables EXCEPT ![name] = Append(@, PushedRow(f, run.cells, flags))],
       outputs |-> Tuple(run.cells, f.ret_cells)]

-----------------------------------------------------------------------------
\* verify_air_fns over the tables: padding rows are all zero.
Padding(f) == [c \in Range(Columns(f)) \cup Flags |-> 0]
RowsOf(f) == Range(tables[f.name]) \cup {Padding(f)}
AllZero(s) == Range(s) \subseteq {0}
Emitted == FlattenSeq(FlattenSeq([k \in DOMAIN lowered |->
             [j \in DOMAIN tables[lowered[k].name] |-> Entries(lowered[k], tables[lowered[k].name][j])]]))
\* public_activation_terms: the host emits what it asked for.
PublicTerms == [k \in DOMAIN activations |->
  [relation |-> activations[k].fn, multiplicity |-> 1, tuple |-> activations[k].inputs \o activations[k].outputs]]
Balanced(entries) ==
  \A e \in Range(entries) :
    FoldLeft(LAMBDA n, x : IF x.relation = e.relation /\ x.tuple = e.tuple THEN n + x.multiplicity ELSE n,
             0, entries) % P = 0
ConstraintsHold(f, row) == AllZero(Constraints(f, row)) /\ (program.embedded => AllZero(FlagConstraints(row)))
RowsHold == \A k \in DOMAIN lowered : \A row \in RowsOf(lowered[k]) : ConstraintsHold(lowered[k], row)
Accepted == RowsHold /\ Balanced(Emitted \o PublicTerms)

-----------------------------------------------------------------------------
Init ==
  /\ program \in Programs
  /\ lowered = <<>> /\ status = "compiling" /\ tables = <<>> /\ activations = <<>>

\* define_air_fns: table-backed functions in declaration order.
Backed == SelectSeq(program.fns, LAMBDA f : ~f.inline)
Expanded(f) == IF f.ok THEN lowered' = Append(lowered, f) /\ status' = status
               ELSE status' = "rejected" /\ lowered' = lowered
LowerNext ==
  /\ status = "compiling" /\ Len(lowered) < Len(Backed)
  /\ Expanded(LowerFn(Backed[Len(lowered) + 1], program.max_degree, program.embedded))
  /\ UNCHANGED <<program, tables, activations>>

\* generate_embedded takes exactly one function, which makes no call.
Generate ==
  /\ status = "compiling" /\ Len(lowered) = Len(Backed)
  /\ status' = IF program.embedded /\ (Len(lowered) # 1 \/ lowered[1].calls # <<>>) THEN "rejected" ELSE "compiled"
  /\ tables' = [f \in { lowered[k].name : k \in DOMAIN lowered } |-> <<>>]
  /\ UNCHANGED <<program, lowered, activations>>

\* The host activates a function and keeps the tuple as a public activation.
Activate ==
  /\ status = "compiled" /\ Len(activations) < MaxActivations
  /\ \E k \in DOMAIN lowered : \E inputs \in [1 .. lowered[k].n_args -> Inputs] :
     \E flags \in IF program.embedded THEN {<<0, 0>>, <<1, 0>>, <<0, 1>>} ELSE {<<0, 0>>} :
       LET r == Call(tables, lowered[k].name, inputs, [wide |-> flags[1], io |-> flags[2]])
       IN  /\ tables' = r.tables
           /\ activations' = Append(activations, [fn |-> lowered[k].name, inputs |-> inputs, outputs |-> r.outputs])
  /\ UNCHANGED <<program, lowered, status>>

\* What a proof may hold instead: other values in some columns of a row beyond its arguments, a row dropped or
\* repeated, or another claimed output.
Alter ==
  /\ status = "compiled" /\ activations # <<>> /\ status' = "altered"
  /\ \/ \E k \in DOMAIN lowered : LET f == lowered[k] free == (Range(Columns(f)) \ { f.fields[j] : j \in 1 .. f.n_args })
                                                                \cup IF program.embedded THEN Flags ELSE {}
        IN  \E j \in DOMAIN tables[f.name] : \E cells \in kSubset(MaxAltered, free) : \E values \in [cells -> 0 .. P - 1] :
              tables' = [tables EXCEPT ![f.name][j] = values @@ @] /\ UNCHANGED activations
     \/ \E k \in DOMAIN lowered : LET f == lowered[k] IN
        \E j \in DOMAIN tables[f.name] :
          \/ tables' = [tables EXCEPT ![f.name] = RemoveAt(@, j)] /\ UNCHANGED activations
          \/ tables' = [tables EXCEPT ![f.name] = Append(@, @[j])] /\ UNCHANGED activations
     \/ \E j \in DOMAIN activations : \E i \in DOMAIN activations[j].outputs : \E v \in 0 .. P - 1 :
          /\ v # activations[j].outputs[i] /\ activations' = [activations EXCEPT ![j].outputs[i] = v]
          /\ UNCHANGED tables
  /\ UNCHANGED <<program, lowered>>

Next == LowerNext \/ Generate \/ Activate \/ Alter
Spec == Init /\ [][Next]_vars

-----------------------------------------------------------------------------
(***************************************************************************)
(* The language, by direct interpretation: values instead of cells.  A     *)
(* value is a felt or an array of felts; Undefined where a name, an index  *)
(* or an arity is wrong.                                                   *)
(***************************************************************************)
Undefined == -1
Felt(v) == [array |-> FALSE, v |-> <<v>>]
Felts(vs) == [array |-> TRUE, v |-> vs]
FlatOf(values) == FlattenSeq([k \in DOMAIN values |-> values[k].v])

RECURSIVE Power(_, _)
Power(v, n) == IF n = 0 THEN 1 ELSE (v * Power(v, n - 1)) % P

RECURSIVE Meaning(_, _)
Meaning(e, env) ==
  LET v == [k \in DOMAIN e[3] |-> Meaning(e[3][k], env)]
      index == IndexEval(e[3][1])
      terms == [k \in DOMAIN RangeOf(e) |-> Meaning(Substitute(e[3][3], e[2], RangeOf(e)[k]), env)]
  IN  CASE e[1] = "num" -> e[2] % P
        [] e[1] = "name" -> IF e[2] \in DOMAIN env /\ ~env[e[2]].array THEN env[e[2]].v[1] ELSE Undefined
        [] e[1] = "at" -> IF e[2] \in DOMAIN env /\ env[e[2]].array /\ index \in 0 .. Len(env[e[2]].v) - 1
                          THEN env[e[2]].v[index + 1] ELSE Undefined
        [] e[1] = "constant" -> RoundConstants[index + 1] % P
        [] e[1] = "sum" -> IF terms = <<>> \/ Undefined \in Range(terms) THEN Undefined
                           ELSE FoldLeft(LAMBDA a, b : (a + b) % P, 0, terms)
        [] e[1] = "pow" -> IF Meaning(e[3][1], env) = Undefined THEN Undefined
                           ELSE Power(Meaning(e[3][1], env), IndexEval(e[3][2]))
        [] e[1] \notin {"add", "sub", "mul", "neg"} \/ Undefined \in Range(v) -> Undefined
        [] e[1] = "add" -> (v[1] + v[2]) % P
        [] e[1] = "sub" -> (v[1] - v[2]) % P
        [] e[1] = "mul" -> (v[1] * v[2]) % P
        [] e[1] = "neg" -> (-v[1]) % P

\* A value bound by a let, a block, and a function: what it returns, and whether its asserts hold.
RECURSIVE Bound(_, _, _), Block(_, _), Returns(_, _)
Results(e, env) ==
  IF e[1] = "name" /\ e[2] \in DOMAIN env THEN env[e[2]] ELSE Felt(Meaning(e, env))
BoundCall(names, called) ==
  [values |-> CASE Len(names) = Len(called.rets) -> called.rets
                [] Len(names) = 1 -> <<Felts(FlatOf(called.rets))>>
                [] OTHER -> [k \in DOMAIN names |-> Felt(Undefined)],
   holds |-> called.holds]
Bound(names, e, env) ==
  LET index == IndexEval(e[3][1])
      One(v) == [values |-> <<v>>, holds |-> TRUE]
  IN  CASE e[1] = "array" -> One(Felts([k \in DOMAIN e[3] |-> Meaning(e[3][k], env)]))
        [] e[1] = "map" -> One(Felts([k \in DOMAIN RangeOf(e) |-> Meaning(Substitute(e[3][3], e[2], RangeOf(e)[k]), env)]))
        [] e[1] = "update" -> One(IF e[2] \in DOMAIN env /\ env[e[2]].array /\ index \in 0 .. Len(env[e[2]].v) - 1
                                  THEN Felts(Updated(env[e[2]].v, index, Meaning(e[3][2], env))) ELSE Felt(Undefined))
        [] e[1] = "call" -> BoundCall(names, Returns(e[2], [k \in DOMAIN e[3] |-> Results(e[3][k], env)]))
        [] OTHER -> One(Felt(Meaning(e, env)))

Then(m, r) == [env |-> r.env, holds |-> m.holds /\ r.holds, defined |-> m.defined /\ r.defined]
BoundIn(m, names, r) ==
  Then(m, [env |-> [x \in Range(names) |-> r.values[CHOOSE k \in DOMAIN names : names[k] = x]] @@ m.env,
           holds |-> r.holds, defined |-> Undefined \notin Range(FlatOf(r.values))])
Block(body, env) ==
  FoldLeft(
    LAMBDA m, s :
      CASE s.kind = "let" -> BoundIn(m, s.names, Bound(s.names, s.value, m.env))
        [] s.kind = "assert" -> LET l == Meaning(s.lhs, m.env) r == Meaning(s.rhs, m.env)
                                IN  [m EXCEPT !.holds = @ /\ l = r, !.defined = @ /\ Undefined \notin {l, r}]
        [] s.kind = "for" -> FoldLeft(LAMBDA n, i : Then(n, Block([j \in DOMAIN s.body |-> SubstituteStmt(s.body[j], s.var, i)], n.env)),
                                      m, Positions(s.lo, s.hi)),
    [env |-> env, holds |-> TRUE, defined |-> TRUE], body)

Sizes(params) == [k \in DOMAIN params |-> IF params[k].size = 0 THEN 1 ELSE params[k].size]
Before(params, k) == FoldLeft(LAMBDA n, s : n + s, 0, SubSeq(Sizes(params), 1, k - 1))
EnvOf(params, flat) ==
  [x \in { params[k].name : k \in DOMAIN params } |->
     LET k == CHOOSE j \in DOMAIN params : params[j].name = x
     IN  IF params[k].size = 0 THEN Felt(flat[Before(params, k) + 1])
         ELSE Felts(SubSeq(flat, Before(params, k) + 1, Before(params, k + 1)))]
\* An inline function takes arrays for arrays; another takes the felts in a row.
Fits(f, args) ==
  IF f.inline THEN [k \in DOMAIN args |-> <<args[k].array, Len(args[k].v)>>]
                     = [k \in DOMAIN f.params |-> <<f.params[k].size # 0, Sizes(f.params)[k]>>]
  ELSE Len(FlatOf(args)) = Before(f.params, Len(f.params) + 1)
Outcome(f, rets, block) ==
  [rets |-> CASE ~block.defined -> <<Felt(Undefined)>>
              [] f.inline -> rets
              [] OTHER -> [k \in DOMAIN FlatOf(rets) |-> Felt(FlatOf(rets)[k])],
   holds |-> block.holds]
Ran(f, block) == Outcome(f, [k \in DOMAIN f.rets |-> Results(f.rets[k], block.env)], block)
Returns(name, args) ==
  LET known == { k \in DOMAIN program.fns : program.fns[k].name = name }
      f == program.fns[CHOOSE k \in known : TRUE]
  IN  IF known = {} \/ ~Fits(f, args) \/ Undefined \in Range(FlatOf(args))
      THEN [rets |-> <<Felt(Undefined)>>, holds |-> TRUE]
      ELSE Ran(f, Block(f.body, EnvOf(f.params, FlatOf(args))))

IsOutcome(r, outputs) == r.holds /\ outputs = FlatOf(r.rets)
Correct(a) == IsOutcome(Returns(a.fn, [k \in DOMAIN a.inputs |-> Felt(a.inputs[k])]), a.outputs)

-----------------------------------------------------------------------------
\* The degree of a lowered expression in the columns, derived cells expanded.
RECURSIVE Degree(_, _)
Degree(x, degrees) ==
  LET d == [k \in DOMAIN x[3] |-> Degree(x[3][k], degrees)]
      deepest == FoldLeft(LAMBDA a, b : IF a > b THEN a ELSE b, 0, d)
  IN  CASE x[1] = "name" -> degrees[x[2]] [] x[1] = "mul" -> d[1] + d[2] [] OTHER -> deepest
Degrees(f) ==
  FoldLeft(LAMBDA m, d : (d[1] :> Degree(d[2], m)) @@ m, [c \in Range(Columns(f)) |-> 1], f.derived)

\* Every constraint, its enabler counted, and every fraction's constraint stay within max_degree:
\* a singleton multiplies the tuple by a running sum, an embedded one is paired with another.
DegreesFit ==
  \A k \in DOMAIN lowered :
    LET f == lowered[k] degrees == Degrees(f)
    IN  /\ \A j \in DOMAIN f.constraints : 1 + Degree(f.constraints[j], degrees) <= program.max_degree
        /\ \A j \in DOMAIN f.calls : \A c \in Range(f.calls[j].args \o f.calls[j].rets) : 1 + degrees[c] <= program.max_degree
        /\ \A c \in Range(OwnTuple(f)) : degrees[c] <= IF program.embedded THEN 1 ELSE program.max_degree - 1

\* The fill is a witness: the host's rows satisfy the constraints and balance the activations
\* exactly when every assert of every function run holds, and return what the language means.
FillsWitness ==
  status = "compiled" =>
    /\ \A k \in DOMAIN activations :
         activations[k].outputs = FlatOf(Returns(activations[k].fn, [j \in DOMAIN activations[k].inputs |-> Felt(activations[k].inputs[j])]).rets)
    /\ ~program.embedded => (Accepted <=> \A k \in DOMAIN activations : Correct(activations[k]))

\* The constraints leave no choice: whatever the rows, an accepted proof claims only outputs of the
\* functions.
ForcesOutputs == status \in {"compiled", "altered"} /\ ~program.embedded /\ Accepted => \A k \in DOMAIN activations : Correct(activations[k])

\* At degree 3 a program that has a meaning compiles: a product always fits after materialization.
CompilesWhatRuns ==
  status = "rejected" /\ program.max_degree >= 3 /\ ~program.embedded =>
    \E k \in DOMAIN Backed : LET f == Backed[k] IN
      Undefined \in Range(FlatOf(Returns(f.name, [j \in DOMAIN f.params |-> IF f.params[j].size = 0 THEN Felt(0)
                                                      ELSE Felts([i \in 1 .. f.params[j].size |-> 0])]).rets))

\* An embedded row that satisfies the constraints plays one part: it exchanges its input for a narrow
\* or for a wide digest, or emits its whole tuple, or nothing; and the digest is the function's.
EmbeddedShapes ==
  program.embedded /\ status \in {"compiled", "altered"} =>
    \A k \in DOMAIN lowered : \A row \in RowsOf(lowered[k]) : ConstraintsHold(lowered[k], row) =>
      LET f == lowered[k]
          live == { j \in 1 .. 4 : EmbeddedEntries(f, row)[j].multiplicity # 0 }
          inputs == [j \in 1 .. f.n_args |-> row[f.fields[j]]]
          outputs == Tuple(Cells(f, row), f.ret_cells)
      IN  /\ live \in {{}, {1, 2}, {1, 3}, {4}}
          /\ live # {} => Correct([fn |-> f.name, inputs |-> inputs, outputs |-> outputs])
=============================================================================
