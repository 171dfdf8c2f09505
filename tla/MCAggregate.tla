----------------------------- MODULE MCAggregate -----------------------------
(***************************************************************************)
(* A small instance of Aggregate, any chain of up to three proofs over two *)
(* programs, and of four and five over one; or of FinalProof, one to three *)
(* segments over trees of height two and three and two FRI layers.         *)
(***************************************************************************)
EXTENDS Aggregate, FinalProof

MCColumns == <<<<2, 1>>, <<3, 2>>>>
Item(q, a, b, c) == [positions |-> q, entry |-> a, exit |-> b, cancels |-> c, program |-> 0]
\* One segment at every one or two of the positions; two and three segments that chain or
\* not, with sums that cancel or not.
MCPositions == {s \in SUBSET (0 .. 7) : Cardinality(s) \in 1 .. 2}
MCPairs == {<<Item({0, 5}, 0, 1, c), Item({1, 2, 3}, e, 2, d)>> : c, d \in BOOLEAN, e \in {0, 1}}
MCTriples == {<<Item({2}, 0, 0, TRUE), Item({2}, 0, 1, c), [Item({7}, e, 0, TRUE) EXCEPT !.program = p]>> :
                c \in BOOLEAN, e, p \in {0, 1}}
MCTampered == {<<Item({0, 2}, 0, 1, TRUE)>>, <<Item({0, 5}, 0, 1, TRUE), Item({1, 2, 3}, 1, 2, TRUE)>>}
MCBatches == {<<>>} \cup {<<Item(s, 0, 1, TRUE)>> : s \in MCPositions} \cup MCPairs \cup MCTriples \cup MCTampered
MCRedraws == {{0, 2}, {0, 5}, {1, 2, 3}, {1, 4}, {7}}

\* Of the two ways to a single verdict one has segments: FinalProof beside an empty list of
\* proofs, or Aggregate beside an empty batch.
MCInit ==
  \/ Init /\ (Count > 3 => \A i \in 1 .. Count : proofs[i].program = "p") /\ batch = <<>> /\ FinalInit
  \/ proofs = <<>> /\ Init /\ FinalInit
MCNext ==
  \/ Next /\ UNCHANGED finalVars
  \/ FinalNext /\ UNCHANGED vars

MCSpec == MCInit /\ [][MCNext]_<<vars, finalVars>> /\ WF_vars(VerifySegments) /\ WF_vars(AggregateSegments)
=============================================================================
