------------------------------ MODULE MCCircuit ------------------------------
(***************************************************************************)
(* Circuit over the tower of the field of three elements.                  *)
(***************************************************************************)
EXTENDS Circuit

MCCoefficients == {Q(2, 1, 0, 2)}
MCOperands == {Q(a, 0, b, 1) : a, b \in F} \cup {QZero, QOne, Q(0, 1, 0, 0), Q(0, 2, 1, 1)}
MCMask(s) == [i \in Interactions |->
  [k \in 1 .. IF i = 2 THEN 12 ELSE 2 |-> Q(s + k, i, s * k, (k + i) \div 2)]]
MCMasks == {MCMask(1)}
MCSums == {Q(0, 1, 1, 0)}

Kinds == {"mask", "binary", "unary", "constraint", "frac", "finalize", "component"}
Only(f) == f @@ [k \in Kinds |-> 0]
\* Two columns and arithmetic; one column and an inverse or a negation; fractions in one
\* batch and in two; two components.
MCBudgets ==
  {Only([mask |-> 2, binary |-> 1, constraint |-> 1]),
   Only([mask |-> 1, binary |-> 1, unary |-> 1, constraint |-> 1]),
   Only([mask |-> 1, frac |-> 2, finalize |-> 1, constraint |-> 1]),
   Only([unary |-> 1, frac |-> 3, finalize |-> 1]),
   Only([mask |-> 1, constraint |-> 2, component |-> 1])}
=============================================================================
