------------------------------ MODULE Aggregate ------------------------------
(***************************************************************************)
(* The two host-side verifiers of a segmented execution                    *)
(* (crates/prover/src/recursion): verify_segments checks each pair of      *)
(* neighbours from left to right, then every proof; aggregate_segments     *)
(* checks every proof, then folds their boundaries up a 2-to-1 tree.       *)
(*                                                                         *)
(* A machine state (pc, register file, read-write root) is one value, so   *)
(* the three comparisons at a boundary are one.  The proofs are arbitrary. *)
(* A node of the tree also records which segments it covers (lo, hi).      *)
(***************************************************************************)
EXTENDS Integers, Sequences

CONSTANTS
  State,      \* (pc, regs, rw_root) at a boundary
  Program,    \* program roots
  MaxProofs   \* bound on the number of segments

ASSUME MaxProofsAssumption == MaxProofs \in Nat

VARIABLES
  proofs,
  linear,     \* where verify_segments stands
  at,         \* the pair or proof it looks at
  tree,       \* where aggregate_segments stands
  leaf,       \* the proof it verifies
  level,
  next,
  depth,
  report      \* prev and next of its SegmentChainMismatch, counted from 0

linearVars == <<linear, at>>
treeVars == <<tree, leaf, level, next, depth, report>>
vars == <<proofs, linearVars, treeVars>>

\* verify_rv32im of a proof is abstracted to whether it succeeds.
Proof == [entry : State, exit : State, program : Program, valid : BOOLEAN]

Node == [entry : State, exit : State, program : Program, lo : Nat, hi : Nat]

Count == Len(proofs)

\* Boundary::of_segment.
OfSegment(i) ==
  [ entry |-> proofs[i].entry, exit |-> proofs[i].exit,
    program |-> proofs[i].program, lo |-> i, hi |-> i ]

\* Boundary::chain, and the comparison verify_segments makes.
Chains(left, right) == left.exit = right.entry /\ left.program = right.program

\* Bug: the exit is the left child's.
JoinLeft(left, right) ==
  [ entry |-> left.entry, exit |-> left.exit, program |-> left.program,
    lo |-> left.lo, hi |-> right.hi ]

Join(left, right) ==
  [ entry |-> left.entry, exit |-> right.exit, program |-> left.program,
    lo |-> left.lo, hi |-> right.hi ]

Init ==
  /\ \E n \in 0 .. MaxProofs : proofs \in [1 .. n -> Proof]
  /\ linear = "chain" /\ at = 1
  /\ tree = IF Count = 0 THEN "panicked" ELSE "verify"
  /\ leaf = 1
  /\ level = [i \in 1 .. Count |-> OfSegment(i)]
  /\ next = <<>>
  /\ depth = 0
  /\ report = <<0, 0>>

-----------------------------------------------------------------------------
\* verify_segments, one pair of windows(2).
CheckPair ==
  /\ linear = "chain" /\ at < Count
  /\ IF Chains(proofs[at], proofs[at + 1])
       THEN at' = at + 1 /\ UNCHANGED linear
       ELSE linear' = "mismatch" /\ UNCHANGED at
  /\ UNCHANGED <<proofs, treeVars>>

\* Bug: the last pair is not looked at.
PairsCheckedEarly ==
  /\ linear = "chain" /\ at >= Count - 1
  /\ linear' = "verify" /\ at' = 1
  /\ UNCHANGED <<proofs, treeVars>>

PairsChecked ==
  /\ linear = "chain" /\ at >= Count
  /\ linear' = "verify" /\ at' = 1
  /\ UNCHANGED <<proofs, treeVars>>

CheckProof ==
  /\ linear = "verify"
  /\ IF at > Count THEN linear' = "ok" /\ UNCHANGED at
     ELSE IF proofs[at].valid THEN at' = at + 1 /\ UNCHANGED linear
     ELSE linear' = "invalid" /\ UNCHANGED at
  /\ UNCHANGED <<proofs, treeVars>>

\* Bug: the same leaf is verified again and again.
VerifyLeafAgain ==
  /\ tree = "verify"
  /\ IF leaf > Count THEN tree' = "fold" /\ UNCHANGED leaf
     ELSE IF proofs[leaf].valid THEN UNCHANGED <<tree, leaf>>
     ELSE tree' = "invalid" /\ UNCHANGED leaf
  /\ UNCHANGED <<proofs, linearVars, level, next, depth, report>>

\* aggregate_segments, one leaf.
VerifyLeaf ==
  /\ tree = "verify"
  /\ IF leaf > Count THEN tree' = "fold" /\ UNCHANGED leaf
     ELSE IF proofs[leaf].valid THEN leaf' = leaf + 1 /\ UNCHANGED tree
     ELSE tree' = "invalid" /\ UNCHANGED leaf
  /\ UNCHANGED <<proofs, linearVars, level, next, depth, report>>

\* The first node of the chunk that comes next: each chunk before it left one node.
Left == 2 * Len(next) + 1

FoldPair ==
  /\ tree = "fold" /\ Len(level) > 1 /\ Left < Len(level)
  /\ IF Chains(level[Left], level[Left + 1])
       THEN next' = Append(next, Join(level[Left], level[Left + 1]))
            /\ UNCHANGED <<tree, report>>
       ELSE /\ tree' = "mismatch"
            /\ report' = <<2 * Len(next) * 2 ^ depth, (2 * Len(next) + 1) * 2 ^ depth>>
            /\ UNCHANGED next
  /\ UNCHANGED <<proofs, linearVars, leaf, level, depth>>

\* An odd node is carried up unchanged.
CarryOdd ==
  /\ tree = "fold" /\ Len(level) > 1 /\ Left = Len(level)
  /\ next' = Append(next, level[Left])
  /\ UNCHANGED <<proofs, linearVars, tree, leaf, level, depth, report>>

NextLevel ==
  /\ tree = "fold" /\ Len(level) > 1 /\ Left > Len(level)
  /\ level' = next /\ next' = <<>> /\ depth' = depth + 1
  /\ UNCHANGED <<proofs, linearVars, tree, leaf, report>>

Root ==
  /\ tree = "fold" /\ Len(level) = 1
  /\ tree' = "ok"
  /\ UNCHANGED <<proofs, linearVars, leaf, level, next, depth, report>>

VerifySegments == CheckPair \/ PairsChecked \/ CheckProof

AggregateSegments == VerifyLeaf \/ FoldPair \/ CarryOdd \/ NextLevel \/ Root

Next == VerifySegments \/ AggregateSegments

Spec == Init /\ [][Next]_vars

\* Both are sequential functions that wait for nothing.
FairSpec == Spec /\ WF_vars(VerifySegments) /\ WF_vars(AggregateSegments)

-----------------------------------------------------------------------------
(***************************************************************************)
(* Properties.                                                             *)
(***************************************************************************)
TypeOK ==
  /\ proofs \in Seq(Proof)
  /\ linear \in {"chain", "verify", "ok", "mismatch", "invalid"}
  /\ at \in Nat \ {0}
  /\ tree \in {"panicked", "verify", "fold", "ok", "mismatch", "invalid"}
  /\ leaf \in Nat \ {0}
  /\ level \in Seq(Node)
  /\ next \in Seq(Node)
  /\ depth \in Nat

\* Segments lo to hi form a chain.
Linked(lo, hi) == \A i \in lo .. hi - 1 : Chains(proofs[i], proofs[i + 1])

\* What a node stands for: a chain of segments, entered and left where the node is.
Covers(node) ==
  /\ node.lo \in 1 .. Count /\ node.hi \in node.lo .. Count
  /\ node.entry = proofs[node.lo].entry
  /\ node.exit = proofs[node.hi].exit
  /\ node.program = proofs[node.lo].program
  /\ Linked(node.lo, node.hi)
  /\ \A i \in node.lo .. node.hi : proofs[i].program = node.program

\* A level splits the segments, in order and without a gap, among nodes that each stand
\* for a chain.
LevelSplits ==
  /\ Len(level) > 0 /\ level[1].lo = 1 /\ level[Len(level)].hi = Count
  /\ \A i \in 1 .. Len(level) - 1 : level[i].hi + 1 = level[i + 1].lo
  /\ \A i \in 1 .. Len(level) : Covers(level[i])

\* The level under construction does so too, as far as it goes: its nodes stand for two
\* nodes each of the level below, or for the odd one at its end.
NextFollows ==
  /\ 2 * Len(next) <= Len(level) + 1
  /\ \A i \in 1 .. Len(next) :
       /\ Covers(next[i])
       /\ next[i].lo = level[2 * i - 1].lo
       /\ next[i].hi = IF 2 * i <= Len(level) THEN level[2 * i].hi ELSE Count

LevelsCover == tree # "panicked" => LevelSplits /\ NextFollows

\* The root's boundary spans the execution: every proof verified, every pair of
\* neighbours chains, and the boundary is the first one's entry and last one's exit.
RootSpans ==
  tree = "ok" =>
    /\ \A i \in 1 .. Count : proofs[i].valid
    /\ Linked(1, Count)
    /\ level[1].entry = proofs[1].entry
    /\ level[1].exit = proofs[Count].exit
    /\ \A i \in 1 .. Count : proofs[i].program = level[1].program

\* Both verifiers accept the same sequences of proofs, of any length but 0.
SameVerdict ==
  Count > 0 /\ linear \notin {"chain", "verify"} /\ tree \notin {"verify", "fold"} =>
    (linear = "ok" <=> tree = "ok")

\* What each verifier knows at each point, which makes its verdict right: with
\* LevelsCover, the inductive invariant.
LinearKnows ==
  /\ linear = "chain" => Linked(1, at)
  /\ linear = "verify" => Linked(1, Count) /\ \A i \in 1 .. at - 1 : proofs[i].valid
  /\ linear = "ok" => Linked(1, Count) /\ \A i \in 1 .. Count : proofs[i].valid
  /\ linear = "mismatch" => ~Linked(1, Count)
  /\ linear = "invalid" => \E i \in 1 .. Count : ~proofs[i].valid

TreeKnows ==
  /\ tree = "panicked" <=> Count = 0
  /\ tree = "verify" => \A i \in 1 .. leaf - 1 : proofs[i].valid
  /\ tree \in {"fold", "ok", "mismatch"} => \A i \in 1 .. Count : proofs[i].valid
  /\ tree = "ok" => Len(level) = 1
  /\ tree = "mismatch" => ~Linked(1, Count)
  /\ tree = "invalid" => \E i \in 1 .. Count : ~proofs[i].valid

IInv == TypeOK /\ LevelsCover /\ LinearKnows /\ TreeKnows

\* Both always come to a verdict.
Verdicts == <>(linear \notin {"chain", "verify"} /\ tree \notin {"verify", "fold"})
=============================================================================
