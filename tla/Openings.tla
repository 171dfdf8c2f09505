------------------------------ MODULE Openings ------------------------------
(***************************************************************************)
(* The Merkle openings of an inner proof (recursion/src/openings.rs,       *)
(* merkle_path.rs): replay_pcs_openings repeats what the inner verifier    *)
(* does after the OODS point, but leaves the hashing of the decommitments  *)
(* to rows of the merkle_path component, one chain per opened position.    *)
(*                                                                         *)
(* Field values and digests are terms: a cell of a committed column, the   *)
(* DEEP quotient of the cells opened at a position, a fold of two          *)
(* evaluations, the hash of a leaf's row or of two children.  What a       *)
(* transcript draws is part of the proof's body, since it depends on all   *)
(* of it (Transcript).                                                     *)
(***************************************************************************)
EXTENDS Integers, SequencesExt, FiniteSetsExt

CONSTANTS
  Lifting,        \* lifting_log_size
  ColumnLogSizes, \* per commitment tree, the log sizes of its columns after the blowup; the first is preprocessed
  LogBlowup,      \* fri_config.log_blowup_factor
  MaxRuns,        \* bound on the segments that are proved together
  LastBound       \* fri_config.log_last_layer_degree_bound; fold_step is 1

ASSUME OpeningsAssumption ==
  /\ LogBlowup \in Nat /\ LastBound \in Nat /\ MaxRuns \in Nat \ {0} /\ Lifting \in Nat /\ Lifting > LogBlowup + LastBound
  /\ \A t \in DOMAIN ColumnLogSizes : \A c \in DOMAIN ColumnLogSizes[t] : ColumnLogSizes[t][c] \in 1 .. Lifting

Trees == DOMAIN ColumnLogSizes
\* Every tree but the preprocessed one is committed at the lifting size.
Height(t) == IF t = 1 THEN Max(ToSet(ColumnLogSizes[1])) ELSE Lifting
NFriLayers == Lifting - LogBlowup - LastBound
FriHeight(k) == Lifting + 1 - k

Ascending(S) == SetToSortSeq(S, <)
Sibling(i) == IF i % 2 = 0 THEN i + 1 ELSE i - 1

-----------------------------------------------------------------------------
(* stwo: lifted columns, commitment trees, decommitments, FRI. *)

\* prepare_preprocessed_query_positions, and the lifting of a column.
Lowered(pos, from, to) == 2 * (pos \div 2^(from - to + 1)) + (pos % 2)

Leaf(row) == <<"leaf", row>>
Parent(l, r) == <<"node", l, r>>

\* What column c of tree t holds at a position of the tree; the preprocessed tree is every run's.
Cell(run, t, c, pos) == <<IF t = 1 THEN 0 ELSE run, t, c, Lowered(pos, Height(t), ColumnLogSizes[t][c])>>

\* All levels of a tree, the root's first.
LevelsOf(leaves, height) ==
  FoldLeft(LAMBDA above, d : <<[i \in 0 .. 2^d - 1 |-> Parent(above[1][2 * i], above[1][2 * i + 1])]>> \o above,
           <<leaves>>, [k \in 1 .. height |-> height - k])

\* A committed leaf has the columns by ascending log size.
CommittedOrder ==
  [t \in Trees |-> FlattenSeq([s \in 1 .. Lifting |->
     SelectSeq([c \in DOMAIN ColumnLogSizes[t] |-> c], LAMBDA c : ColumnLogSizes[t][c] = s)])]
CommittedTrees ==
  [run \in 1 .. MaxRuns |-> [t \in Trees |->
     LevelsOf([p \in 0 .. 2^Height(t) - 1 |-> Leaf([k \in DOMAIN CommittedOrder[t] |-> Cell(run, t, CommittedOrder[t][k], p)])],
              Height(t))]]

\* The siblings a verifier of these positions lacks, level by level from the leaves.
Decommitment(levels, positions) ==
  FoldLeft(LAMBDA acc, d :
             [known |-> {i \div 2 : i \in acc.known},
              witness |-> acc.witness \o LET lone == Ascending({i \in acc.known : Sibling(i) \notin acc.known})
                                         IN  [k \in DOMAIN lone |-> levels[d + 1][Sibling(lone[k])]]],
           [known |-> positions, witness |-> <<>>], [k \in 1 .. Len(levels) - 1 |-> Len(levels) - k]).witness

\* fri_answers at one position, fold_circle_into_line and fold_coset of a pair.
Answer(sampled, pos, cells) == <<"answer", sampled, pos, cells>>
FoldEvals(alphas, k, pair, e0, e1) == <<"fold", alphas, k, pair, e0, e1>>

\* The evaluations of each FRI layer and of the last layer, for alphas drawn honestly; the layers' trees.
CommittedEvals ==
  [run \in 1 .. MaxRuns |->
     FoldLeft(LAMBDA layers, k :
                Append(layers, [i \in 0 .. 2^(Lifting - k) - 1 |-> FoldEvals(run, k, i, Last(layers)[2 * i], Last(layers)[2 * i + 1])]),
              << [p \in 0 .. 2^Lifting - 1 |-> Answer(run, p, [t \in Trees |->
                    [c \in DOMAIN ColumnLogSizes[t] |-> Cell(run, t, c, Lowered(p, Lifting, Height(t)))]])] >>,
              [k \in 1 .. NFriLayers |-> k])]
CommittedLayers ==
  [run \in 1 .. MaxRuns |-> [k \in 1 .. NFriLayers |->
     LevelsOf([p \in 0 .. 2^FriHeight(k) - 1 |-> Leaf(CommittedEvals[run][k][p])], FriHeight(k))]]

-----------------------------------------------------------------------------
(* Opening one tree. *)

\* One level of walk_tree: siblings that are not known come from the witness in order.
WalkLevel(acc, d) ==
  LET known == acc.levels[1]
      lone == Ascending({i \in DOMAIN known : Sibling(i) \notin DOMAIN known})
      full == [i \in DOMAIN known \cup {Sibling(i) : i \in ToSet(lone)} |->
                 IF i \in DOMAIN known THEN known[i] ELSE acc.rest[CHOOSE k \in DOMAIN lone : Sibling(lone[k]) = i]]
  IN  IF acc.short \/ Len(lone) > Len(acc.rest) THEN [acc EXCEPT !.short = TRUE]
      ELSE [short |-> FALSE, rest |-> SubSeq(acc.rest, Len(lone) + 1, Len(acc.rest)),
            levels |-> <<[i \in {j \div 2 : j \in DOMAIN full} |-> Parent(full[2 * i], full[2 * i + 1])], full>> \o Tail(acc.levels)]

WalkTree(height, leaves, witness) ==
  FoldLeft(WalkLevel, [levels |-> <<leaves>>, rest |-> witness, short |-> FALSE], [k \in 1 .. height |-> height - k])

\* push_path_step for the node at a depth above an opened position.
PathRow(tree, height, levels, pos, depth) ==
  LET child == pos \div 2^(height - 1 - depth)
      down == levels[depth + 2]
      left == down[child - (child % 2)]
      right == down[child - (child % 2) + 1]
  IN  [tree_id |-> tree, depth |-> depth, index |-> child \div 2, direction |-> child % 2, is_leaf |-> 0,
       left |-> left, right |-> right, parent |-> Parent(left, right), child |-> down[child]]

\* The chain of rows of each opened position, when its tree is walked to the root.
PathRows(tree, height, at, walk) ==
  FlattenSeq([k \in DOMAIN at |-> [j \in 1 .. height |-> PathRow(tree, height, walk.levels, at[k], height - j)]])
WalkError(walk, root) ==
  CASE walk.short -> "witness too short"
    [] walk.rest # <<>> -> "witness too long"
    [] walk.levels[1][0] # root -> "decommitment root mismatch"
    [] OTHER -> ""
Walked(claims, tree, root, height, at, walk) ==
  IF WalkError(walk, root) # "" THEN [claims EXCEPT !.err = WalkError(walk, root)]
  ELSE [claims EXCEPT !.rows = @ \o PathRows(tree, height, at, walk)]

\* The public anchors of one tree.
Anchored(claims, tree, root, height, leaves, at) ==
  [claims EXCEPT
     !.leaves = @ \o [k \in DOMAIN at |-> [tree_id |-> tree, depth |-> height, index |-> at[k], digest |-> leaves[at[k]]]],
     !.roots = Append(@, [tree_id |-> tree, root |-> root, n_paths |-> Len(at)])]

\* finish_tree_opening.  Claims gather over the trees; err is the first error.
FinishTree(claims, tree, root, height, leaves, hints) ==
  LET at == Ascending(DOMAIN leaves)
  IN  CASE claims.err # "" -> claims
        [] claims.err = "" /\ hints = <<>> -> Anchored(claims, tree, root, height, leaves, at)
        [] OTHER -> Walked(Anchored(claims, tree, root, height, leaves, at), tree, root, height, at, WalkTree(height, leaves, hints[1]))

\* Bug: a leaf takes the columns in the order they are committed in.
ColumnOrderUnsorted == [t \in Trees |-> [c \in DOMAIN ColumnLogSizes[t] |-> c]]

\* The stable sort by log size of open_lifted_tree.
ColumnOrder ==
  [t \in Trees |-> SetToSortSeq(DOMAIN ColumnLogSizes[t], LAMBDA a, b :
     ColumnLogSizes[t][a] < ColumnLogSizes[t][b] \/ (ColumnLogSizes[t][a] = ColumnLogSizes[t][b] /\ a < b))]

\* open_lifted_tree: of neighbours with one position only the first counts, of others the last.
OpenLifted(claims, t, tree, root, positions, queried, hints) ==
  LET same(i) == i > 1 /\ positions[i] = positions[i - 1]
      kept == {i \in DOMAIN positions : ~same(i)}
      row(i) == [k \in DOMAIN ColumnOrder[t] |-> queried[ColumnOrder[t][k]][i]]
      leaves == [p \in ToSet(positions) |-> Leaf(row(Max({i \in kept : positions[i] = p})))]
  IN  IF claims.err = "" /\ \E i \in DOMAIN positions : same(i) /\ row(i) # row(i - 1)
      THEN [claims EXCEPT !.err = "inconsistent values at duplicate query position"]
      ELSE FinishTree(claims, tree, root, Height(t), leaves, hints)

\* rebuild_subset_evals: both positions of each queried pair, the queried ones with the values
\* computed so far, the others with witness values in order.
Opened(queries) == queries \cup {Sibling(q) : q \in queries}

\* Bug: what is left of the witness is not looked at.
RebuildErrorLoose(queries, witness) ==
  IF Len(witness) < Cardinality(Opened(queries) \ queries) THEN "insufficient FRI witness" ELSE ""

RebuildError(queries, witness) ==
  LET missing == Cardinality(Opened(queries) \ queries)
  IN  CASE Len(witness) < missing -> "insufficient FRI witness"
        [] Len(witness) > missing -> "witness too long" [] OTHER -> ""
SubsetEvals(queries, evals, witness) ==
  LET known == Ascending(queries)
      off == Ascending(Opened(queries) \ queries)
  IN  [p \in Opened(queries) |-> IF p \in queries THEN evals[CHOOSE k \in DOMAIN known : known[k] = p]
                                 ELSE witness[CHOOSE k \in DOMAIN off : off[k] = p]]

\* One FRI layer of replay_pcs_openings: rebuild, open its tree, fold.  fri is the state of
\* the loop: the queries, their evaluations in ascending order and the claims so far.
LayerOpened(fri, body, k, tree, hints, values) ==
  LET pairs == Ascending({q \div 2 : q \in fri.queries})
  IN  [queries |-> ToSet(pairs),
       evals |-> [i \in DOMAIN pairs |-> FoldEvals(body.draws.alphas, k, pairs[i], values[2 * pairs[i]], values[2 * pairs[i] + 1])],
       claims |-> FinishTree(fri.claims, tree, body.layers[k].root, FriHeight(k), [p \in DOMAIN values |-> Leaf(values[p])], hints)]
OpenLayer(fri, body, k, tree, hints) ==
  LET err == RebuildError(fri.queries, body.layers[k].witness)
  IN  CASE fri.claims.err # "" -> fri
        [] fri.claims.err = "" /\ err # "" -> [fri EXCEPT !.claims.err = err]
        [] OTHER -> LayerOpened(fri, body, k, tree, hints, SubsetEvals(fri.queries, fri.evals, body.layers[k].witness))

\* The last layer's check: a polynomial that is not the run's may fit the folds or not.
OnLastLayer(body, fri) ==
  IF body.poly = body.run
  THEN LET at == Ascending(fri.queries)
       IN  \A k \in DOMAIN at : fri.evals[k] = CommittedEvals[body.run][NFriLayers + 1][at[k]]
  ELSE body.draws.fits

NoClaims == [roots |-> <<>>, leaves |-> <<>>, rows |-> <<>>, err |-> ""]

\* The tree ids of a segment start at base; hints are the body's decommitments, or absent.
HintsAt(body, i) == IF body.hints = <<>> THEN <<>> ELSE <<body.hints[i]>>

\* The commitment trees' openings at these positions, and the FRI answers.
OpenTrees(body, base, at) ==
  LET prepared == [i \in DOMAIN at |-> Lowered(at[i], Lifting, Height(1))]
  IN  FoldLeft(LAMBDA claims, t :
        OpenLifted(claims, t, base + t - 1, body.roots[t], IF t = 1 THEN prepared ELSE at, body.queried[t], HintsAt(body, t)),
        NoClaims, [t \in Trees |-> t])
Answers(body, at) ==
  [i \in DOMAIN at |-> Answer(body.sampled, at[i], [t \in Trees |-> [c \in DOMAIN ColumnLogSizes[t] |-> body.queried[t][c][i]]])]

\* The FRI layers, and the claims the replay returns.
FoldLayers(body, base, opened, answers) ==
  FoldLeft(LAMBDA f, k : OpenLayer(f, body, k, base + Len(ColumnLogSizes) + k - 1, HintsAt(body, Len(ColumnLogSizes) + k)),
           [queries |-> body.draws.positions, evals |-> answers, claims |-> opened], [k \in 1 .. NFriLayers |-> k])
Concluded(body, fri) ==
  IF fri.claims.err = "" /\ ~OnLastLayer(body, fri) THEN [fri.claims EXCEPT !.err = "last layer evaluation invalid"] ELSE fri.claims

\* replay_pcs_openings.
Replay(body, base) ==
  LET at == Ascending(body.draws.positions)
      err == CASE Len(body.layers) # NFriLayers -> "invalid number of FRI layers"
               [] body.polyLen > 2^LastBound -> "last layer degree invalid"
               [] ~body.draws.pow -> "proof of work verification failed"
               [] \E t \in Trees : \E c \in DOMAIN body.queried[t] : Len(body.queried[t][c]) < Len(at) -> "panicked"
               [] OTHER -> ""
  IN  IF err # "" THEN [NoClaims EXCEPT !.err = err]
      ELSE Concluded(body, FoldLayers(body, base, OpenTrees(body, base, at), Answers(body, at)))

-----------------------------------------------------------------------------
(* The sums: merkle_path, the poseidon2 rows it asks for, the public roots and leaves. *)
Claim(rel, tuple, n) == [rel |-> rel, tuple |-> tuple, n |-> n]
NodeClaim(tree, depth, index, digest, n) == Claim("merkle_node", <<tree, depth, index, digest>>, n)

\* evaluate() of merkle_path.
PathEntries(r) ==
  << Claim("poseidon2", <<r.left, r.right>>, 1), Claim("poseidon2", <<r.parent>>, -1),
     NodeClaim(r.tree_id, r.depth, r.index, r.parent, -1),
     NodeClaim(r.tree_id, r.depth + 1, 2 * r.index + r.direction, r.child, 1 - r.is_leaf) >>

\* The fractions gen_interaction_trace writes, two to a column.
PathColumns(r) ==
  << << Claim("poseidon2", <<r.left, r.right>>, 1), Claim("poseidon2", <<r.parent>>, -1) >>,
     << NodeClaim(r.tree_id, r.depth, r.index, r.parent, -1),
        NodeClaim(r.tree_id, r.depth + 1, 2 * r.index + r.direction, r.child, 1 - r.is_leaf) >> >>

\* The table's constraints.
PathHolds(r) == r.direction \in {0, 1} /\ r.is_leaf \in {0, 1} /\ r.child = IF r.direction = 1 THEN r.right ELSE r.left

\* The wide poseidon2 row a step pushes.
HashEntries(r) == << Claim("poseidon2", <<r.left, r.right>>, -1), Claim("poseidon2", <<Parent(r.left, r.right)>>, 1) >>

\* public_root_terms and public_leaf_terms.
RootTerms(roots) == [i \in DOMAIN roots |-> NodeClaim(roots[i].tree_id, 0, 0, roots[i].root, roots[i].n_paths)]
LeafTerms(leaves) == [i \in DOMAIN leaves |-> NodeClaim(leaves[i].tree_id, leaves[i].depth, leaves[i].index, leaves[i].digest, -1)]

\* The tuples whose multiplicities do not add up to zero.
Remains(entries) ==
  {t \in {<<e.rel, e.tuple>> : e \in ToSet(entries)} :
     MapThenSumSet(LAMBDA i : entries[i].n, {i \in DOMAIN entries : <<entries[i].rel, entries[i].tuple>> = t}) # 0}
=============================================================================
