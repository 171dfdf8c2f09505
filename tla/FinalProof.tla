------------------------------ MODULE FinalProof ------------------------------
(***************************************************************************)
(* The single proof of a segmented execution (recursion/src/final_proof.rs,*)
(* prover.rs): prove_final records every segment's composition circuit and *)
(* openings in one recursion proof and drops the decommitments;            *)
(* verify_final replays the public transcripts and checks that one proof.  *)
(*                                                                         *)
(* Between the two the artifact is in the environment's hands.  A lowered  *)
(* composition circuit is one row and one public term, its id and the      *)
(* sampled values it is recorded from (Circuit has the rows); the          *)
(* recursion proof's own transcript is left to Transcript, so its rows and *)
(* claims can be altered apart.                                            *)
(***************************************************************************)
EXTENDS Openings

CONSTANTS
  Batches,   \* inputs: per segment, its query positions, boundary, program and whether its LogUp sums cancel
  Tampered,  \* the batches whose proofs or artifact the environment alters
  Redraws,   \* query positions of an altered transcript
  TreeIdStride

ASSUME FinalAssumption ==
  /\ Tampered \subseteq Batches /\ \A b \in Batches : Len(b) <= MaxRuns
  /\ TreeIdStride \in Nat /\ TreeIdStride >= Len(ColumnLogSizes) + NFriLayers

VARIABLES
  batch,     \* history: what the segment proofs were made of
  bodies,    \* the segment proofs; without decommitments once they are proven
  final,     \* where prove_final and verify_final stand, or what they returned
  seg,       \* the segment they look at
  recursion, \* RecursionProof: its rows and public claims, growing while it is made
  expected,  \* the verifier's roots, leaves and arenas
  boundary,
  altered    \* history: "no", or what the environment touched
finalVars == <<batch, bodies, final, seg, recursion, expected, boundary, altered>>

NoBoundary == <<>>

\* Terms no proof of the run contains.
OtherCell == <<0, 0, 0, 0>>
OtherDigest == <<"other">>
OtherEval == <<"other">>
OtherRun == 0

\* A segment proof as prove_rv32im makes it, its openings at the positions drawn.
BodyOf(run, item) ==
  LET tree(t) == CommittedTrees[run][t]
      evals(k) == CommittedEvals[run][k]
      layer(k) == CommittedLayers[run][k]
      at(t) == IF t = 1 THEN {Lowered(p, Lifting, Height(1)) : p \in item.positions} ELSE item.positions
      queries(k) == {p \div 2^(k - 1) : p \in item.positions}
      pairs(k) == queries(k) \cup {Sibling(q) : q \in queries(k)}
      asc == Ascending(item.positions)
  IN  [run |-> run, sampled |-> run, poly |-> run, polyLen |-> 2^LastBound,
       roots |-> [t \in Trees |-> tree(t)[1][0]],
       queried |-> [t \in Trees |-> [c \in DOMAIN ColumnLogSizes[t] |->
                      [i \in DOMAIN asc |-> Cell(run, t, c, Lowered(asc[i], Lifting, Height(t)))]]],
       layers |-> [k \in 1 .. NFriLayers |->
                     [root |-> layer(k)[1][0],
                      witness |-> LET off == Ascending(pairs(k) \ queries(k)) IN [i \in DOMAIN off |-> evals(k)[off[i]]]]],
       hints |-> [t \in Trees |-> Decommitment(tree(t), at(t))]
                 \o [k \in 1 .. NFriLayers |-> Decommitment(layer(k), pairs(k))],
       draws |-> [alphas |-> run, pow |-> TRUE, fits |-> FALSE, positions |-> item.positions],
       composes |-> TRUE, cancels |-> item.cancels,
       entry |-> item.entry, exit |-> item.exit, program |-> item.program]

\* Bodies that differ in one value the transcript mixes after it drew the queries, or not at all.
ValueEdits(body) ==
  {[body EXCEPT !.queried[x[1]][x[2]][x[3]] = OtherCell] :
     x \in UNION {{<<t, c, i>> : c \in DOMAIN ColumnLogSizes[t], i \in 1 .. Cardinality(body.draws.positions)} : t \in Trees}}
  \cup UNION {{[body EXCEPT !.layers[k].witness = Append(@, OtherEval)]}
              \cup {[body EXCEPT !.layers[k].witness[i] = OtherEval] : i \in DOMAIN body.layers[k].witness}
              \cup {[body EXCEPT !.layers[k].witness = RemoveAt(@, i)] : i \in DOMAIN body.layers[k].witness}
              : k \in DOMAIN body.layers}

HintEdits(body) ==
  UNION {{[body EXCEPT !.hints[h] = Append(@, OtherDigest)]}
         \cup {[body EXCEPT !.hints[h][i] = OtherDigest] : i \in DOMAIN body.hints[h]}
         \cup {[body EXCEPT !.hints[h] = RemoveAt(@, i)] : i \in DOMAIN body.hints[h]}
         : h \in DOMAIN body.hints}

\* Bodies with a commitment, sampled value, FRI root, last layer or nonce changed: the
\* transcript then draws other positions, and any later check may pass.
TranscriptEdits(body) ==
  LET redraw(alphas) == {[alphas |-> alphas, pow |-> TRUE, fits |-> TRUE, positions |-> q] : q \in {r \in Redraws \ {body.draws.positions} : Cardinality(r) >= Cardinality(body.draws.positions)}}
  IN  {[body EXCEPT !.draws = d] : d \in redraw(body.run) \cup {[body.draws EXCEPT !.pow = FALSE]}}
      \cup {[body EXCEPT !.poly = OtherRun, !.draws = d] : d \in redraw(body.run)}
      \cup {[body EXCEPT !.polyLen = 2^LastBound + 1], [body EXCEPT !.layers = Front(@)], [body EXCEPT !.layers = Append(@, Last(@))]}
      \cup {[body EXCEPT !.layers[k].root = OtherDigest, !.poly = OtherRun, !.draws = d] :
              k \in DOMAIN body.layers, d \in redraw(OtherRun)}
      \cup {[body EXCEPT !.sampled = OtherRun, !.poly = OtherRun, !.composes = ok, !.draws = d] : ok \in BOOLEAN, d \in redraw(OtherRun)}
      \cup {[body EXCEPT !.roots[t] = OtherDigest, !.sampled = OtherRun, !.poly = OtherRun, !.draws = d] :
              t \in Trees \ {1}, d \in redraw(OtherRun)}

-----------------------------------------------------------------------------
FinalInit ==
  /\ batch \in Batches
  /\ bodies = [i \in DOMAIN batch |-> BodyOf(i, batch[i])]
  /\ final = IF batch = <<>> THEN "panicked" ELSE "prove"
  /\ seg = 1
  /\ recursion = [rows |-> <<>>, lowered |-> <<>>, roots |-> <<>>, leaves |-> <<>>, channels |-> <<>>, circuits |-> <<>>]
  /\ expected = [roots |-> <<>>, leaves |-> <<>>, arenas |-> <<>>]
  /\ boundary = NoBoundary
  /\ altered = "no"

\* prove_final is given a segment proof that is not as prove_rv32im made it.
DamageProof ==
  /\ final = "prove" /\ seg = 1 /\ altered = "no" /\ batch \in Tampered
  /\ bodies' \in {[bodies EXCEPT ![1] = b] : b \in ValueEdits(bodies[1]) \cup HintEdits(bodies[1]) \cup TranscriptEdits(bodies[1])}
  /\ altered' = "proof"
  /\ UNCHANGED <<batch, final, seg, recursion, expected, boundary>>

Circuit(id, sampled) == [circuit_id |-> id, sampled |-> sampled]

\* The loop body of prove_final.
ProveSegment ==
  /\ final = "prove" /\ seg <= Len(bodies)
  /\ \E claims \in {Replay(bodies[seg], (seg - 1) * TreeIdStride)} :
       IF ~bodies[seg].composes \/ claims.err # ""
       THEN final' = "panicked" /\ UNCHANGED <<seg, recursion>>
       ELSE /\ seg' = seg + 1
            /\ recursion' = [recursion EXCEPT
                 !.rows = @ \o claims.rows, !.lowered = Append(@, Circuit(seg - 1, bodies[seg].sampled)),
                 !.roots = @ \o claims.roots, !.leaves = @ \o claims.leaves,
                 !.circuits = Append(@, Circuit(seg - 1, bodies[seg].sampled))]
            /\ UNCHANGED final
  /\ UNCHANGED <<batch, bodies, expected, boundary, altered>>

\* prove_recursion, which does not fail on rows of its own, and strip_decommitments.
Strip ==
  /\ final = "prove" /\ seg > Len(bodies)
  /\ final' = "proven"
  /\ bodies' = [i \in DOMAIN bodies |-> [bodies[i] EXCEPT !.hints = <<>>]]
  /\ UNCHANGED <<batch, seg, recursion, expected, boundary, altered>>

-----------------------------------------------------------------------------
AlterBody ==
  /\ final = "proven" /\ altered = "no" /\ batch \in Tampered
  /\ \E i \in DOMAIN bodies : \E b \in ValueEdits(bodies[i]) \cup TranscriptEdits(bodies[i]) : bodies' = [bodies EXCEPT ![i] = b]
  /\ altered' = "body"
  /\ UNCHANGED <<batch, final, seg, recursion, expected, boundary>>

\* The altered body comes with the claims the verifier will expect of it.
AlterClaims ==
  /\ final = "proven" /\ altered = "body"
  /\ \E claims \in {[i \in DOMAIN bodies |-> Replay(bodies[i], (i - 1) * TreeIdStride)]} :
         recursion' = [recursion EXCEPT
           !.roots = FlattenSeq([i \in DOMAIN bodies |-> claims[i].roots]),
           !.leaves = FlattenSeq([i \in DOMAIN bodies |-> claims[i].leaves]),
           !.circuits = [i \in DOMAIN bodies |-> Circuit(i - 1, bodies[i].sampled)]]
  /\ altered' = "body and claims"
  /\ UNCHANGED <<batch, bodies, final, seg, expected, boundary>>

\* A row with one column changed and its table's constraints still met.
RowEdits(r) ==
  {e \in {[r EXCEPT !.tree_id = @ + 1], [r EXCEPT !.depth = @ + 1], [r EXCEPT !.index = @ + 1], [r EXCEPT !.is_leaf = 1],
          [r EXCEPT !.parent = OtherDigest], [r EXCEPT !.direction = 1 - @, !.child = IF r.direction = 1 THEN r.left ELSE r.right],
          [r EXCEPT !.left = OtherDigest], [r EXCEPT !.right = OtherDigest],
          [r EXCEPT !.left = OtherDigest, !.child = OtherDigest], [r EXCEPT !.right = OtherDigest, !.child = OtherDigest]} :
     PathHolds(e) /\ e # r}

AlterRecursion ==
  /\ final = "proven" /\ altered = "no" /\ batch \in Tampered
  /\ recursion' \in
       {[recursion EXCEPT !.rows[i] = e] : <<i, e>> \in UNION {{i} \X RowEdits(recursion.rows[i]) : i \in DOMAIN recursion.rows}}
       \cup {[recursion EXCEPT !.rows = RemoveAt(@, i)] : i \in DOMAIN recursion.rows}
       \cup {[recursion EXCEPT !.roots[i].n_paths = @ + 1] : i \in DOMAIN recursion.roots}
       \cup {[recursion EXCEPT !.roots = Tail(@)], [recursion EXCEPT !.leaves = Tail(@)],
             [recursion EXCEPT !.leaves[1].index = @ + 1], [recursion EXCEPT !.lowered[1].sampled = OtherRun],
             [recursion EXCEPT !.circuits[1].sampled = OtherRun], [recursion EXCEPT !.circuits[1].circuit_id = @ + 1],
             [recursion EXCEPT !.circuits = Tail(@)], [recursion EXCEPT !.channels = <<OtherDigest>>]}
  /\ altered' = "recursion proof"
  /\ UNCHANGED <<batch, bodies, final, seg, expected, boundary>>

\* The segments come in another order, or without the last one.
AlterOrder ==
  /\ final = "proven" /\ altered = "no" /\ batch \in Tampered
  /\ bodies' \in {Front(bodies), Reverse(bodies)} \ {bodies}
  /\ recursion' \in {recursion, [recursion EXCEPT !.circuits = SubSeq(@, 1, Len(bodies'))]}
  /\ altered' = "body"
  /\ UNCHANGED <<batch, final, seg, expected, boundary>>

-----------------------------------------------------------------------------
\* verify_final, before its loop.
BeginVerify ==
  /\ final = "proven"
  /\ final' = CASE bodies = <<>> -> "zero segments"
                [] recursion.channels # <<>> -> "unexpected channel claims"
                [] Len(recursion.circuits) # Len(bodies) -> "one composition circuit per segment"
                [] OTHER -> "verify"
  /\ seg' = 1
  /\ UNCHANGED <<batch, bodies, recursion, expected, boundary, altered>>

\* Boundary::chain, or NoBoundary.
ChainedTo(prev, body) ==
  IF prev = NoBoundary THEN <<body.entry, body.exit, body.program>>
  ELSE IF prev[2] = body.entry /\ prev[3] = body.program THEN <<prev[1], body.exit, prev[3]>> ELSE NoBoundary

\* The loop body of verify_final: the first check of a segment that fails, or its claims and boundary.
SegmentError(body, claims, joined) ==
  CASE ~body.cancels -> "InvalidLogupSum"
    [] body.cancels /\ ~body.composes -> "OodsNotMatching"
    [] body.cancels /\ body.composes /\ recursion.circuits[seg].circuit_id # seg - 1 -> "circuit ids must be the segment indices"
    [] OTHER -> IF claims.err # "" THEN claims.err ELSE IF joined = NoBoundary THEN "SegmentChainMismatch" ELSE ""
VerifySegment ==
  /\ final = "verify" /\ seg <= Len(bodies)
  /\ \E claims \in {Replay(bodies[seg], (seg - 1) * TreeIdStride)}, joined \in {ChainedTo(boundary, bodies[seg])} :
       IF SegmentError(bodies[seg], claims, joined) # ""
       THEN final' = SegmentError(bodies[seg], claims, joined) /\ UNCHANGED <<seg, expected, boundary>>
       ELSE /\ seg' = seg + 1
            /\ boundary' = joined
            /\ expected' = [roots |-> expected.roots \o claims.roots, leaves |-> expected.leaves \o claims.leaves,
                            arenas |-> Append(expected.arenas, bodies[seg].sampled)]
            /\ UNCHANGED final
  /\ UNCHANGED <<batch, bodies, recursion, altered>>

\* Every entry of the sum verify_recursion requires to vanish.
SumEntries(rec, arenas) ==
  FlattenSeq([i \in DOMAIN rec.rows |-> PathEntries(rec.rows[i]) \o HashEntries(rec.rows[i])])
  \o [i \in DOMAIN rec.lowered |-> Claim("circuit", <<rec.lowered[i].circuit_id, rec.lowered[i].sampled>>, -1)]
  \o [i \in DOMAIN rec.circuits |-> Claim("circuit", <<rec.circuits[i].circuit_id, arenas[i]>>, 1)]
  \o RootTerms(rec.roots) \o LeafTerms(rec.leaves)

\* What stwo's verifier finds of a row: its constraints, and the running sums the AIR asks for.
RowVerifies(r) == PathHolds(r) /\ PathColumns(r) = <<SubSeq(PathEntries(r), 1, 2), SubSeq(PathEntries(r), 3, 4)>>

\* The comparisons after the loop, and verify_recursion.
VerifyRecursion ==
  /\ final = "verify" /\ seg > Len(bodies)
  /\ final' = CASE recursion.roots # expected.roots -> "root claims do not match the transcripts"
                [] recursion.leaves # expected.leaves -> "leaf claims do not match the queried values"
                [] \E i \in DOMAIN recursion.circuits : recursion.circuits[i].sampled # expected.arenas[i] ->
                     "claimed circuit output does not match the canonical circuit"
                [] Remains(SumEntries(recursion, expected.arenas)) # {} -> "logup sums do not cancel"
                [] \E i \in DOMAIN recursion.rows : ~RowVerifies(recursion.rows[i]) -> "constraint"
                [] OTHER -> "ok"
  /\ UNCHANGED <<batch, bodies, seg, recursion, expected, boundary, altered>>

FinalNext ==
  \/ DamageProof \/ ProveSegment \/ Strip
  \/ AlterBody \/ AlterClaims \/ AlterRecursion \/ AlterOrder
  \/ BeginVerify \/ VerifySegment \/ VerifyRecursion

FinalSpec == FinalInit /\ [][FinalNext]_finalVars

-----------------------------------------------------------------------------
(***************************************************************************)
(* Properties.                                                             *)
(***************************************************************************)
\* The segments whose sums do not cancel, or that do not go on where the one before ended.
BadSegments ==
  {i \in DOMAIN batch : ~batch[i].cancels
     \/ (i > 1 /\ (batch[i].entry # batch[i - 1].exit \/ batch[i].program # batch[i - 1].program))}

\* final_proof.rs: an artifact nobody touched is accepted exactly if every segment's sums
\* cancel and the segments chain, with the boundary from the first entry to the last exit;
\* otherwise the first bad segment is refused with its own error.
FinalVerdict ==
  altered = "no" =>
    /\ final \in {"panicked"} => batch = <<>>
    /\ final = "ok" => BadSegments = {} /\ boundary = <<batch[1].entry, Last(batch).exit, batch[1].program>>
    /\ final \notin {"prove", "panicked", "proven", "verify", "ok"} =>
         /\ BadSegments # {} /\ seg = Min(BadSegments)
         /\ final = IF batch[seg].cancels THEN "SegmentChainMismatch" ELSE "InvalidLogupSum"

\* final_proof.rs, openings.rs: prove_final panics on a segment proof with any one value or
\* hash changed, added or missing, and verify_final refuses any altered artifact: a body with
\* one opened value or anything its transcript mixes changed - also when the claims were made
\* again to fit and every check outside the recursion proof passes -, segments in another
\* order or left out, a claim, or one column of a row.
ArtifactBinds == altered # "no" => final # "ok" /\ (altered = "proof" => final \notin {"proven", "verify"})
=============================================================================
