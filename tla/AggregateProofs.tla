--------------------------- MODULE AggregateProofs ---------------------------
(***************************************************************************)
(* Theorems about Aggregate, for any number of segments.                   *)
(***************************************************************************)
EXTENDS Aggregate, TLAPS

\* Joining two neighbours that chain gives a node that stands for both.
LEMMA JoinCovers ==
  ASSUME NEW left \in Node, NEW right \in Node, proofs \in Seq(Proof),
         Covers(left), Covers(right), left.hi + 1 = right.lo, Chains(left, right)
  PROVE  /\ Join(left, right) \in Node
         /\ Covers(Join(left, right))
         /\ Join(left, right).lo = left.lo /\ Join(left, right).hi = right.hi
<1> DEFINE node == Join(left, right)
<1>1. /\ node \in Node
      /\ node.lo = left.lo /\ node.hi = right.hi
      /\ node.entry = left.entry /\ node.exit = right.exit
      /\ node.program = left.program
  BY DEF Join, Node
<1>2. Count \in Nat /\ left.lo \in Nat /\ left.hi \in Nat /\ right.lo \in Nat /\ right.hi \in Nat
  BY DEF Node, Count
<1>3. /\ left.lo \in 1 .. Count /\ left.hi \in left.lo .. Count
      /\ right.lo \in 1 .. Count /\ right.hi \in right.lo .. Count
      /\ left.entry = proofs[left.lo].entry /\ left.exit = proofs[left.hi].exit
      /\ right.entry = proofs[right.lo].entry /\ right.exit = proofs[right.hi].exit
      /\ left.program = proofs[left.lo].program
      /\ \A i \in left.lo .. left.hi - 1 : Chains(proofs[i], proofs[i + 1])
      /\ \A i \in right.lo .. right.hi - 1 : Chains(proofs[i], proofs[i + 1])
      /\ \A i \in left.lo .. left.hi : proofs[i].program = left.program
      /\ \A i \in right.lo .. right.hi : proofs[i].program = right.program
  BY DEF Covers, Linked
<1>4. left.exit = right.entry /\ left.program = right.program
  BY DEF Chains
<1>5. Chains(proofs[left.hi], proofs[left.hi + 1])
  <2>1. left.hi \in left.lo .. left.hi /\ right.lo \in right.lo .. right.hi
    BY <1>2, <1>3
  <2>2. proofs[left.hi].exit = left.exit /\ proofs[left.hi].program = left.program
    BY <1>3, <2>1
  <2>3. proofs[right.lo].entry = right.entry /\ proofs[right.lo].program = right.program
    BY <1>3, <2>1
  <2>4. proofs[left.hi].exit = proofs[right.lo].entry
    BY <1>4, <2>2, <2>3
  <2>5. proofs[left.hi].program = proofs[right.lo].program
    <3>1. left.program = right.program
      BY <1>4
    <3>2. QED
      BY <2>2, <2>3, <3>1
  <2>6. proofs[left.hi + 1] = proofs[right.lo]
    OBVIOUS
  <2>7. QED
    BY <2>4, <2>5, <2>6 DEF Chains
<1> HIDE DEF node
<1>6. \A i \in node.lo .. node.hi - 1 : Chains(proofs[i], proofs[i + 1])
  <2> TAKE i \in node.lo .. node.hi - 1
  <2>1. i \in left.lo .. left.hi - 1 \/ i = left.hi \/ i \in right.lo .. right.hi - 1
    BY <1>1, <1>2
  <2>2. QED
    BY <1>3, <1>5, <2>1
<1>7. \A i \in node.lo .. node.hi : proofs[i].program = node.program
  <2> TAKE i \in node.lo .. node.hi
  <2>1. i \in left.lo .. left.hi \/ i \in right.lo .. right.hi
    BY <1>1, <1>2
  <2>2. QED
    BY <1>1, <1>3, <1>4, <2>1
<1>8. Covers(node)
  BY <1>1, <1>2, <1>3, <1>6, <1>7 DEF Covers, Linked
<1>9. QED
  BY <1>1, <1>8 DEF node

LEMMA InitIInv == Init => IInv
<1> SUFFICES ASSUME Init PROVE IInv
  OBVIOUS
<1>1. PICK n \in 0 .. MaxProofs : proofs \in [1 .. n -> Proof]
  BY DEF Init
<1>2. n \in Nat /\ proofs \in Seq(Proof) /\ Count = n
  BY <1>1, MaxProofsAssumption DEF Count
<1>3. \A i \in 1 .. n : proofs[i] \in Proof
  BY <1>1
<1>4. \A i \in 1 .. n : OfSegment(i) \in Node /\ OfSegment(i).lo = i /\ OfSegment(i).hi = i
                        /\ OfSegment(i).entry = proofs[i].entry
                        /\ OfSegment(i).exit = proofs[i].exit
                        /\ OfSegment(i).program = proofs[i].program
  BY <1>2, <1>3 DEF OfSegment, Node, Proof
<1>5. level = [i \in 1 .. n |-> OfSegment(i)]
  BY <1>2 DEF Init
<1>6. level \in Seq(Node) /\ Len(level) = n /\ \A i \in 1 .. n : level[i] = OfSegment(i)
  BY <1>2, <1>4, <1>5
<1>7. /\ linear = "chain" /\ at = 1 /\ leaf = 1 /\ depth = 0
      /\ tree = IF n = 0 THEN "panicked" ELSE "verify"
      /\ next \in Seq(Node) /\ Len(next) = 0
  BY <1>2 DEF Init
<1>8. TypeOK
  BY <1>2, <1>6, <1>7 DEF TypeOK
<1>9. \A i \in 1 .. n : Covers(level[i])
  BY <1>2, <1>4, <1>6 DEF Covers, Linked
<1>10. n > 0 => LevelSplits
  BY <1>2, <1>4, <1>6, <1>9 DEF LevelSplits
<1>11. NextFollows
  BY <1>2, <1>6, <1>7 DEF NextFollows
<1>12. LinearKnows /\ TreeKnows
  BY <1>2, <1>7 DEF LinearKnows, TreeKnows, Linked
<1>13. QED
  BY <1>2, <1>7, <1>8, <1>10, <1>11, <1>12 DEF IInv, LevelsCover

\* A step of one verifier leaves what the other one knows alone.
LEMMA LinearStep == IInv /\ VerifySegments => IInv'
<1> SUFFICES ASSUME IInv, VerifySegments PROVE IInv'
  OBVIOUS
<1> USE DEF IInv
<1>1. UNCHANGED <<proofs, tree, leaf, level, next, depth>>
  BY DEF VerifySegments, CheckPair, PairsChecked, CheckProof, treeVars
<1>2. Count' = Count /\ Count \in Nat /\ at \in Nat \ {0}
  BY <1>1 DEF Count, TypeOK
<1>3. LevelsCover' /\ TreeKnows'
  <2>1. \A lo, hi : Linked(lo, hi)' <=> Linked(lo, hi)
    BY <1>1 DEF Linked
  <2>2. \A node : Covers(node)' <=> Covers(node)
    BY <1>1, <1>2, <2>1 DEF Covers
  <2>3. LevelSplits' <=> LevelSplits
    BY <1>1, <1>2, <2>2 DEF LevelSplits
  <2>4. NextFollows' <=> NextFollows
    BY <1>1, <1>2, <2>2 DEF NextFollows
  <2>5. TreeKnows'
    BY <1>1, <1>2, <2>1 DEF TreeKnows
  <2>6. QED
    BY <1>1, <2>3, <2>4, <2>5 DEF LevelsCover
<1>4. TypeOK'
  BY <1>1, <1>2 DEF TypeOK, VerifySegments, CheckPair, PairsChecked, CheckProof
<1>5. CASE CheckPair
  <2>1. CASE Chains(proofs[at], proofs[at + 1])
    <3>1. Linked(1, at) /\ at' = at + 1 /\ linear' = "chain"
      BY <1>5, <2>1 DEF LinearKnows, CheckPair
    <3>2. Linked(1, at + 1)
      BY <1>2, <2>1, <3>1 DEF Linked
    <3>3. QED
      BY <1>1, <1>2, <1>3, <1>4, <3>1, <3>2 DEF LinearKnows, Linked
  <2>2. CASE ~Chains(proofs[at], proofs[at + 1])
    <3>1. ~Linked(1, Count) /\ linear' = "mismatch"
      BY <1>2, <1>5, <2>2 DEF CheckPair, Linked
    <3>2. QED
      BY <1>1, <1>2, <1>3, <1>4, <3>1 DEF LinearKnows, Linked
  <2>3. QED
    BY <2>1, <2>2
<1>6. CASE PairsChecked
  <2>1. Linked(1, at) /\ at >= Count /\ linear' = "verify" /\ at' = 1
    BY <1>6 DEF LinearKnows, PairsChecked
  <2>2. Linked(1, Count)
    BY <1>2, <2>1 DEF Linked
  <2>3. QED
    BY <1>1, <1>2, <1>3, <1>4, <2>1, <2>2 DEF LinearKnows, Linked
<1>7. CASE CheckProof
  <2>1. Linked(1, Count) /\ \A i \in 1 .. at - 1 : proofs[i].valid
    BY <1>7 DEF CheckProof, LinearKnows
  <2>2. CASE at > Count
    <3>1. linear' = "ok" /\ \A i \in 1 .. Count : proofs[i].valid
      BY <1>2, <1>7, <2>1, <2>2 DEF CheckProof
    <3>2. QED
      BY <1>1, <1>2, <1>3, <1>4, <2>1, <3>1 DEF LinearKnows, Linked
  <2>3. CASE at <= Count /\ proofs[at].valid
    <3>1. linear' = "verify" /\ at' = at + 1
      BY <1>2, <1>7, <2>3 DEF CheckProof
    <3>2. \A i \in 1 .. at' - 1 : proofs[i].valid
      BY <1>2, <2>1, <2>3, <3>1
    <3>3. QED
      BY <1>1, <1>2, <1>3, <1>4, <2>1, <3>1, <3>2 DEF LinearKnows, Linked
  <2>4. CASE at <= Count /\ ~proofs[at].valid
    <3>1. linear' = "invalid" /\ at \in 1 .. Count
      BY <1>2, <1>7, <2>4 DEF CheckProof
    <3>2. QED
      BY <1>1, <1>2, <1>3, <1>4, <2>4, <3>1 DEF LinearKnows, Linked
  <2>5. QED
    BY <1>2, <2>2, <2>3, <2>4
<1>8. QED
  BY <1>5, <1>6, <1>7 DEF VerifySegments

\* What no step of aggregate_segments touches.
LEMMA TreeFrame ==
  ASSUME IInv, UNCHANGED <<proofs, linear, at>>
  PROVE  /\ Count' = Count /\ Count \in Nat
         /\ \A lo, hi : Linked(lo, hi)' <=> Linked(lo, hi)
         /\ \A node : Covers(node)' <=> Covers(node)
         /\ LinearKnows'
<1>1. Count' = Count /\ Count \in Nat
  BY DEF Count, IInv, TypeOK
<1>2. \A lo, hi : Linked(lo, hi)' <=> Linked(lo, hi)
  BY DEF Linked
<1>3. \A node : Covers(node)' <=> Covers(node)
  BY <1>1, <1>2 DEF Covers
<1>4. LinearKnows'
  BY <1>1, <1>2 DEF IInv, LinearKnows
<1>5. QED
  BY <1>1, <1>2, <1>3, <1>4

LEMMA VerifyLeafStep == IInv /\ VerifyLeaf => IInv'
<1> SUFFICES ASSUME IInv, VerifyLeaf PROVE IInv'
  OBVIOUS
<1>1. /\ UNCHANGED <<proofs, linear, at, level, next, depth>> /\ tree = "verify"
  BY DEF VerifyLeaf, linearVars
<1>2. /\ Count' = Count /\ Count \in Nat
      /\ \A lo, hi : Linked(lo, hi)' <=> Linked(lo, hi)
      /\ \A node : Covers(node)' <=> Covers(node)
      /\ LinearKnows'
  BY <1>1, TreeFrame
<1>3. leaf \in Nat \ {0} /\ TypeOK'
  BY <1>1 DEF IInv, TypeOK, VerifyLeaf
<1>4. LevelSplits' /\ NextFollows'
  BY <1>1, <1>2 DEF IInv, LevelsCover, LevelSplits, NextFollows
<1>5. (\A i \in 1 .. leaf - 1 : proofs[i].valid) /\ Count # 0
  BY <1>1 DEF IInv, TreeKnows
<1>6. TreeKnows'
  <2>1. CASE leaf > Count
    <3>1. tree' = "fold" /\ \A i \in 1 .. Count : proofs[i].valid
      BY <1>2, <1>3, <1>5, <2>1 DEF VerifyLeaf
    <3>2. QED
      BY <1>1, <1>2, <1>5, <3>1 DEF TreeKnows
  <2>2. CASE leaf <= Count /\ proofs[leaf].valid
    <3>1. tree' = "verify" /\ leaf' = leaf + 1
      BY <1>1, <1>2, <1>3, <2>2 DEF VerifyLeaf
    <3>2. \A i \in 1 .. leaf' - 1 : proofs[i].valid
      BY <1>3, <1>5, <2>2, <3>1
    <3>3. QED
      BY <1>1, <1>2, <1>5, <3>1, <3>2 DEF TreeKnows
  <2>3. CASE leaf <= Count /\ ~proofs[leaf].valid
    <3>1. tree' = "invalid" /\ leaf \in 1 .. Count
      BY <1>1, <1>2, <1>3, <2>3 DEF VerifyLeaf
    <3>2. QED
      BY <1>1, <1>2, <1>5, <2>3, <3>1 DEF TreeKnows
  <2>4. QED
    BY <1>2, <1>3, <2>1, <2>2, <2>3
<1>7. QED
  BY <1>2, <1>3, <1>4, <1>6 DEF IInv, LevelsCover

\* The two nodes of a chunk and what the invariant says of them.
LEMMA Chunk ==
  ASSUME IInv, tree = "fold", Left < Len(level)
  PROVE  /\ Len(next) \in Nat /\ Len(level) \in Nat
         /\ Left \in 1 .. Len(level) /\ Left + 1 \in 1 .. Len(level)
         /\ level[Left] \in Node /\ level[Left + 1] \in Node
         /\ Covers(level[Left]) /\ Covers(level[Left + 1])
         /\ level[Left].hi + 1 = level[Left + 1].lo
<1>1. level \in Seq(Node) /\ next \in Seq(Node) /\ LevelSplits
  BY DEF IInv, TypeOK, LevelsCover
<1>2. Len(next) \in Nat /\ Len(level) \in Nat
  BY <1>1
<1>3. Left \in 1 .. Len(level) - 1
  BY <1>2 DEF Left
<1>4. QED
  BY <1>1, <1>2, <1>3 DEF LevelSplits

\* Appending the node for the next chunk continues the level under construction.
LEMMA ChunkAppended ==
  ASSUME IInv, tree = "fold", UNCHANGED <<proofs, level>>,
         NEW node \in Node, next' = Append(next, node), Covers(node), Left <= Len(level),
         node.lo = level[Left].lo,
         node.hi = IF Left < Len(level) THEN level[Left + 1].hi ELSE Count
  PROVE  NextFollows'
<1>1. level \in Seq(Node) /\ next \in Seq(Node) /\ NextFollows
  BY DEF IInv, TypeOK, LevelsCover
<1>2. Len(next) \in Nat /\ Len(level) \in Nat /\ Left = 2 * Len(next) + 1
  BY <1>1 DEF Left
<1>3. Len(next') = Len(next) + 1
  BY <1>1
<1>4. Count' = Count /\ \A m : Covers(m)' <=> Covers(m)
  BY DEF Count, Covers, Linked
<1>5. ASSUME NEW i \in 1 .. Len(next')
      PROVE  /\ Covers(next'[i])
             /\ next'[i].lo = level[2 * i - 1].lo
             /\ next'[i].hi = IF 2 * i <= Len(level) THEN level[2 * i].hi ELSE Count
  <2>1. CASE i \in 1 .. Len(next)
    <3>1. next'[i] = next[i]
      BY <1>1, <2>1
    <3>2. QED
      BY <1>1, <2>1, <3>1 DEF NextFollows
  <2>2. CASE i = Len(next) + 1
    <3>1. next'[i] = node /\ 2 * i - 1 = Left /\ 2 * i = Left + 1
      BY <1>1, <1>2, <2>2
    <3>2. 2 * i <= Len(level) <=> Left < Len(level)
      BY <1>2, <2>2
    <3>3. QED
      BY <3>1, <3>2
  <2>3. QED
    BY <1>2, <1>3, <2>1, <2>2
<1>6. 2 * Len(next') <= Len(level) + 1
  BY <1>2, <1>3
<1>7. QED
  BY <1>3, <1>4, <1>5, <1>6 DEF NextFollows

LEMMA FoldPairStep == IInv /\ FoldPair => IInv'
<1> SUFFICES ASSUME IInv, FoldPair PROVE IInv'
  OBVIOUS
<1> DEFINE left == level[Left]
           right == level[Left + 1]
<1>1. /\ UNCHANGED <<proofs, linear, at, leaf, level, depth>>
      /\ tree = "fold" /\ Left < Len(level)
  BY DEF FoldPair, linearVars
<1>2. /\ Count' = Count /\ Count \in Nat
      /\ \A lo, hi : Linked(lo, hi)' <=> Linked(lo, hi)
      /\ \A node : Covers(node)' <=> Covers(node)
      /\ LinearKnows'
  BY <1>1, TreeFrame
<1>3. /\ left \in Node /\ right \in Node /\ Covers(left) /\ Covers(right)
      /\ left.hi + 1 = right.lo
  BY <1>1, Chunk
<1>4. LevelSplits'
  BY <1>1, <1>2 DEF IInv, LevelsCover, LevelSplits
<1>5. proofs \in Seq(Proof) /\ next \in Seq(Node)
  BY DEF IInv, TypeOK
<1>6. CASE Chains(left, right)
  <2>1. tree' = "fold" /\ next' = Append(next, Join(left, right))
    BY <1>1, <1>6 DEF FoldPair
  <2>2. /\ Join(left, right) \in Node /\ Covers(Join(left, right))
        /\ Join(left, right).lo = left.lo /\ Join(left, right).hi = right.hi
    BY <1>3, <1>5, <1>6, JoinCovers
  <2>3. NextFollows'
    <3>1. Left \in 1 .. Len(level) /\ Len(level) \in Nat
      BY <1>1, Chunk
    <3>2. Left <= Len(level)
      BY <3>1
    <3>3. QED
      BY <1>1, <2>1, <2>2, <3>2, ChunkAppended
  <2>4. TypeOK'
    BY <1>1, <1>5, <2>1, <2>2 DEF IInv, TypeOK
  <2>5. TreeKnows'
    BY <1>1, <1>2, <2>1 DEF IInv, TreeKnows
  <2>6. QED
    BY <1>2, <1>4, <2>3, <2>4, <2>5 DEF IInv, LevelsCover
<1>7. CASE ~Chains(left, right)
  <2>1. tree' = "mismatch" /\ next' = next
    BY <1>1, <1>7 DEF FoldPair
  <2>2. NextFollows'
    BY <1>1, <1>2, <2>1 DEF IInv, LevelsCover, NextFollows
  <2>3. TypeOK'
    BY <1>1, <2>1 DEF IInv, TypeOK
  <2>4. ~Linked(1, Count)
    <3>1. /\ left.hi \in Nat /\ left.lo \in 1 .. Count /\ left.hi \in left.lo .. Count
          /\ right.lo \in 1 .. Count /\ left.hi + 1 = right.lo
          /\ left.exit = proofs[left.hi].exit /\ right.entry = proofs[right.lo].entry
          /\ left.program = proofs[left.hi].program /\ right.program = proofs[right.lo].program
      BY <1>2, <1>3 DEF Covers, Node
    <3>2. ~Chains(proofs[left.hi], proofs[left.hi + 1])
      BY <1>7, <3>1 DEF Chains
    <3>3. left.hi \in 1 .. Count - 1
      BY <1>2, <3>1
    <3>4. QED
      BY <3>2, <3>3 DEF Linked
  <2>5. TreeKnows'
    BY <1>1, <1>2, <2>1, <2>4 DEF IInv, TreeKnows
  <2>6. QED
    BY <1>2, <1>4, <2>2, <2>3, <2>5 DEF IInv, LevelsCover
<1>8. QED
  BY <1>6, <1>7

LEMMA CarryOddStep == IInv /\ CarryOdd => IInv'
<1> SUFFICES ASSUME IInv, CarryOdd PROVE IInv'
  OBVIOUS
<1>1. /\ UNCHANGED <<proofs, linear, at, tree, leaf, level, depth>>
      /\ tree = "fold" /\ Left = Len(level) /\ next' = Append(next, level[Left])
  BY DEF CarryOdd, linearVars
<1>2. /\ Count' = Count /\ Count \in Nat
      /\ \A lo, hi : Linked(lo, hi)' <=> Linked(lo, hi)
      /\ \A node : Covers(node)' <=> Covers(node)
      /\ LinearKnows'
  BY <1>1, TreeFrame
<1>3. LevelSplits /\ level \in Seq(Node) /\ next \in Seq(Node)
  BY <1>1 DEF IInv, LevelsCover, TypeOK
<1>4. level[Left] \in Node /\ Covers(level[Left]) /\ level[Left].hi = Count
  BY <1>1, <1>3 DEF LevelSplits
<1>5. NextFollows'
  BY <1>1, <1>3, <1>4, ChunkAppended
<1>6. LevelSplits' /\ TypeOK' /\ TreeKnows'
  BY <1>1, <1>2, <1>3, <1>4 DEF IInv, LevelSplits, TypeOK, TreeKnows
<1>7. QED
  BY <1>1, <1>2, <1>5, <1>6 DEF IInv, LevelsCover

LEMMA NextLevelStep == IInv /\ NextLevel => IInv'
<1> SUFFICES ASSUME IInv, NextLevel PROVE IInv'
  OBVIOUS
<1>1. /\ UNCHANGED <<proofs, linear, at, tree, leaf>>
      /\ tree = "fold" /\ Len(level) > 1 /\ Left > Len(level)
      /\ level' = next /\ next' = <<>> /\ depth' = depth + 1
  BY DEF NextLevel, linearVars
<1>2. /\ Count' = Count /\ Count \in Nat
      /\ \A lo, hi : Linked(lo, hi)' <=> Linked(lo, hi)
      /\ \A node : Covers(node)' <=> Covers(node)
      /\ LinearKnows'
  BY <1>1, TreeFrame
<1>3. LevelSplits /\ NextFollows /\ level \in Seq(Node) /\ next \in Seq(Node) /\ depth \in Nat
  BY <1>1 DEF IInv, LevelsCover, TypeOK
<1> DEFINE n == Len(next)
           m == Len(level)
<1>4. n \in Nat /\ m \in Nat /\ n > 0 /\ (2 * n = m \/ 2 * n = m + 1)
  <2>1. n \in Nat /\ m \in Nat
    BY <1>3
  <2>2. 2 * n + 1 > m /\ m > 1
    BY <1>1 DEF Left
  <2>3. 2 * n <= m + 1
    BY <1>3 DEF NextFollows
  <2>4. QED
    BY <2>1, <2>2, <2>3
<1>5. \A i \in 1 .. n : /\ Covers(next[i])
                        /\ next[i].lo = level[2 * i - 1].lo
                        /\ next[i].hi = IF 2 * i <= m THEN level[2 * i].hi ELSE Count
  BY <1>3 DEF NextFollows
<1>6. next[1].lo = 1
  BY <1>3, <1>4, <1>5 DEF LevelSplits
<1>7. next[n].hi = Count
  BY <1>3, <1>4, <1>5 DEF LevelSplits
<1>8. \A i \in 1 .. n - 1 : next[i].hi + 1 = next[i + 1].lo
  <2> TAKE i \in 1 .. n - 1
  <2>1. 2 * i \in 1 .. m - 1 /\ i \in 1 .. n /\ i + 1 \in 1 .. n /\ 2 * (i + 1) - 1 = 2 * i + 1
    BY <1>4
  <2>2. level[2 * i].hi + 1 = level[2 * i + 1].lo
    BY <1>3, <2>1 DEF LevelSplits
  <2>3. next[i].hi = level[2 * i].hi
    <3>1. 2 * i <= m
      BY <1>4, <2>1
    <3>2. next[i].hi = IF 2 * i <= m THEN level[2 * i].hi ELSE Count
      BY <1>5, <2>1
    <3>3. QED
      BY <3>1, <3>2
  <2>4. next[i + 1].lo = level[2 * (i + 1) - 1].lo
    BY <1>5, <2>1
  <2>5. level[2 * (i + 1) - 1] = level[2 * i + 1]
    BY <2>1
  <2>6. next[i + 1].lo = level[2 * i + 1].lo
    BY <2>4, <2>5
  <2>7. QED
    BY <2>2, <2>3, <2>6
<1>9. LevelSplits'
  BY <1>1, <1>2, <1>4, <1>5, <1>6, <1>7, <1>8 DEF LevelSplits
<1>10. NextFollows'
  <2>1. Len(next') = 0 /\ Len(level') \in Nat
    BY <1>1, <1>4
  <2>2. QED
    BY <2>1 DEF NextFollows
<1>11. TypeOK' /\ TreeKnows'
  BY <1>1, <1>2, <1>3 DEF IInv, TypeOK, TreeKnows
<1>12. QED
  BY <1>2, <1>9, <1>10, <1>11 DEF IInv, LevelsCover

LEMMA RootStep == IInv /\ Root => IInv'
<1> SUFFICES ASSUME IInv, Root PROVE IInv'
  OBVIOUS
<1>1. /\ UNCHANGED <<proofs, linear, at, leaf, level, next, depth>>
      /\ tree = "fold" /\ tree' = "ok" /\ Len(level) = 1
  BY DEF Root, linearVars
<1>2. /\ Count' = Count /\ Count \in Nat
      /\ \A lo, hi : Linked(lo, hi)' <=> Linked(lo, hi)
      /\ \A node : Covers(node)' <=> Covers(node)
      /\ LinearKnows'
  BY <1>1, TreeFrame
<1>3. LevelSplits' /\ NextFollows'
  BY <1>1, <1>2 DEF IInv, LevelsCover, LevelSplits, NextFollows
<1>4. TypeOK' /\ TreeKnows'
  BY <1>1, <1>2 DEF IInv, TypeOK, TreeKnows
<1>5. QED
  BY <1>2, <1>3, <1>4 DEF IInv, LevelsCover

LEMMA NextIInv == IInv /\ [Next]_vars => IInv'
<1> SUFFICES ASSUME IInv, [Next]_vars PROVE IInv'
  OBVIOUS
<1>1. CASE UNCHANGED vars
  BY <1>1 DEF vars, linearVars, treeVars, IInv, TypeOK, Count, LevelsCover, LevelSplits,
       NextFollows, Covers, Linked, LinearKnows, TreeKnows
<1>2. QED
  BY <1>1, LinearStep, VerifyLeafStep, FoldPairStep, CarryOddStep, NextLevelStep, RootStep
     DEF Next, AggregateSegments

LEMMA Invariance == Spec => []IInv
  BY InitIInv, NextIInv, PTL DEF Spec

-----------------------------------------------------------------------------
\* A root boundary is only ever returned for proofs that all verify and chain, and it
\* spans them, however many there are.
THEOREM AggregationSound == Spec => []RootSpans
<1>1. IInv => RootSpans
  <2> SUFFICES ASSUME IInv, tree = "ok"
               PROVE  /\ \A i \in 1 .. Count : proofs[i].valid
                      /\ Linked(1, Count)
                      /\ level[1].entry = proofs[1].entry
                      /\ level[1].exit = proofs[Count].exit
                      /\ \A i \in 1 .. Count : proofs[i].program = level[1].program
    BY DEF RootSpans
  <2>1. Len(level) = 1 /\ \A i \in 1 .. Count : proofs[i].valid
    BY DEF IInv, TreeKnows
  <2>2. level[1].lo = 1 /\ level[1].hi = Count /\ Covers(level[1])
    BY <2>1 DEF IInv, LevelsCover, LevelSplits
  <2>3. QED
    BY <2>1, <2>2 DEF Covers
<1>2. QED
  BY <1>1, Invariance, PTL

\* The tree and the left-to-right check accept the same executions: which of the two
\* a verifier runs does not matter.
THEOREM VerdictsAgree == Spec => []SameVerdict
<1>1. IInv => SameVerdict
  <2> SUFFICES ASSUME IInv, Count > 0, linear \notin {"chain", "verify"},
                      tree \notin {"verify", "fold"}
               PROVE  linear = "ok" <=> tree = "ok"
    BY DEF SameVerdict
  <2>1. tree \in {"ok", "mismatch", "invalid"} /\ linear \in {"ok", "mismatch", "invalid"}
    BY DEF IInv, TypeOK, TreeKnows
  <2>2. tree = "ok" => Linked(1, Count) /\ \A i \in 1 .. Count : proofs[i].valid
    <3> SUFFICES ASSUME tree = "ok" PROVE Linked(1, Count)
      BY DEF IInv, TreeKnows
    <3>1. Len(level) = 1
      BY DEF IInv, TreeKnows
    <3>2. level[1].lo = 1 /\ level[1].hi = Count /\ Covers(level[1])
      BY <3>1 DEF IInv, LevelsCover, LevelSplits
    <3>3. QED
      BY <3>2 DEF Covers
  <2>3. QED
    BY <2>1, <2>2 DEF IInv, LinearKnows, TreeKnows
<1>2. QED
  BY <1>1, Invariance, PTL
=============================================================================
