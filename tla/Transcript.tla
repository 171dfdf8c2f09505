----------------------------- MODULE Transcript -----------------------------
(***************************************************************************)
(* The Fiat-Shamir protocol of the two provers.  prove_rv32im_with_channel *)
(* and prove_recursion_with_channel build a proof piece by piece, mixing   *)
(* every piece into a channel before the draws it must influence; the      *)
(* verifiers and the recursion's transcript replay walk the pieces of the  *)
(* finished proof and draw again.  The channel hash is an ideal one: a     *)
(* digest is the index of a (digest, words) pair in `mixes`, a draw is the *)
(* pair (digest, counter).  stwo's prove and verify are external: they are *)
(* modelled up to what they read from this repository's code.              *)
(***************************************************************************)
EXTENDS Integers, Sequences, FiniteSets, SequencesExt

CONSTANTS
  TraceComponents,   \* components! { trace: { ... } }, a sequence of names
  LookupComponents,  \* components! { lookup: { ... } }
  Width,             \* trace columns of each table, by name
  Fractions,         \* secure interaction columns of each table, by name
  Half,              \* 2^16: encode_u32s splits a word at this base
  NRelations,        \* draws of Relations::draw
  NonceBound,        \* nonces are below this
  Elements,          \* secure field elements of the circuits' claims
  Statements,        \* public inputs of the runs that are proved, by protocol
  LogSizes           \* table log sizes of those runs, by protocol

\* PublicData of the host; a root may be absent.
PublicData ==
  [cpu : Seq(Nat), initial_regs : Seq(Nat), final_regs : Seq(Nat), reg_last_clock : Seq(Nat),
   roots : [1 .. 3 -> {opt \in Seq(Nat) : Len(opt) <= 1}], io : Seq(Nat), input_words : Seq(Nat), output_words : Seq(Seq(Nat))]

\* The public claims of a recursion proof.
RootClaims == Seq([tree_id : Nat, n_paths : Nat, root : Seq(Nat)])
LeafClaims == Seq([tree_id : Nat, depth : Nat, index : Nat, digest : Seq(Nat)])
ChannelClaims == Seq([channel_id : Nat, chunks : Seq(Seq(Nat))])
CircuitClaims ==
  Seq([circuit_id : Nat, inputs : Seq(Nat \X Elements), inner_log_size : Nat, inner_claimed_sum : Elements,
       output : Nat \X Elements])

RecursionTables ==
  <<"qm31_mul", "qm31_inv", "fri_fold_line", "circle_double", "logup_sum", "merkle_path",
    "channel_replay", "linear_ops", "poseidon2">>

\* Proofs are made of what the host has: the tables have names of their own, at least one
\* has a lookup, a run has a log size for each, and a circuit's output is what it computes.
ASSUME TranscriptAssumption ==
  /\ Half \in Nat \ {0, 1} /\ NRelations \in Nat \ {0} /\ NonceBound \in Nat \ {0, 1}
  /\ DOMAIN Statements = {"rv32im", "recursion"} /\ DOMAIN LogSizes = DOMAIN Statements
  /\ Statements["rv32im"] \subseteq PublicData /\ {"computed", "other"} \subseteq Elements
  /\ \A d \in Statements["recursion"] :
       /\ d.roots \in RootClaims /\ d.leaves \in LeafClaims /\ d.channels \in ChannelClaims /\ d.circuits \in CircuitClaims
       /\ \A i \in DOMAIN d.circuits : d.circuits[i].output[2] = "computed"
  /\ TraceComponents \in Seq(DOMAIN Width) /\ LookupComponents \in Seq(DOMAIN Width)
  /\ \A i, j \in 1 .. Len(TraceComponents \o LookupComponents) :
       (TraceComponents \o LookupComponents)[i] = (TraceComponents \o LookupComponents)[j] => i = j
  /\ \A log \in LogSizes["rv32im"] : log \in Seq(Nat) /\ Len(log) = Len(TraceComponents) + Len(LookupComponents)
  /\ \A log \in LogSizes["recursion"] : log \in Seq(Nat) /\ Len(log) = 9
  /\ Width \in [DOMAIN Width -> Nat] /\ Fractions \in [DOMAIN Width -> Nat]
  /\ \E i \in DOMAIN TraceComponents : Fractions[TraceComponents[i]] > 0
  /\ \A i \in 1 .. 9 : /\ RecursionTables[i] \in DOMAIN Width
                      /\ Fractions[RecursionTables[i]] = <<2, 2, 0, 0, 1, 2, 2, 2, 2>>[i]

VARIABLES
  protocol,   \* which prover runs
  run,        \* its statement and the log sizes of its tables
  mixes,      \* every (digest, words) pair hashed so far, in order
  role,       \* who is at work; the roles follow each other
  pc,         \* next step of the role's script
  digest, n_draws,   \* the role's channel
  drawn,      \* the role's draws, by name
  proof,      \* the proof, by piece
  honest,     \* the proof as its prover left it
  draws,      \* drawn of every role, by role
  verdict     \* how every role ended: "running", "accepted" or its error

vars == <<protocol, run, mixes, role, pc, digest, n_draws, drawn, proof, honest, draws, verdict>>

-----------------------------------------------------------------------------
(* Words: a u32 is two halves; a felt, a root and a sampled value are opaque. *)
U32(v) == << <<"u", v % Half>>, <<"u", v \div Half>> >>
U32s(s) == FlattenSeq([i \in 1 .. Len(s) |-> U32(s[i])])
Felts(s) == [i \in 1 .. Len(s) |-> <<"f", s[i]>>]

\* mix_u64 is mix_u32s of the low and the high word.
U64(v) == U32s(<<v, 0>>)

Flag(opt) == IF opt = <<>> THEN 0 ELSE 1
UnwrapOr0(opt) == IF opt = <<>> THEN 0 ELSE opt[1]

\* Bug: the flags of the optional roots are left out.
MixPublicDataUnflagged(d) ==
  << U32s(d.cpu), U32s(d.initial_regs), U32s(d.final_regs), U32s(d.reg_last_clock),
     U32s([i \in 1 .. 3 |-> UnwrapOr0(d.roots[i])]),
     U32s(d.io \o <<Len(d.output_words)>>), U32s(d.input_words) >>
  \o [i \in 1 .. Len(d.output_words) |-> U32s(d.output_words[i])]

\* Bug: the io header is left out.
MixPublicDataHeaderless(d) ==
  << U32s(d.cpu), U32s(d.initial_regs), U32s(d.final_regs), U32s(d.reg_last_clock),
     U32s([i \in 1 .. 3 |-> Flag(d.roots[i])]), U32s([i \in 1 .. 3 |-> UnwrapOr0(d.roots[i])]), U32s(d.input_words) >>
  \o [i \in 1 .. Len(d.output_words) |-> U32s(d.output_words[i])]

\* PublicData::mix_into, one element per call of the channel.
MixPublicData(d) ==
  << U32s(d.cpu), U32s(d.initial_regs), U32s(d.final_regs), U32s(d.reg_last_clock),
     U32s([i \in 1 .. 3 |-> Flag(d.roots[i])]), U32s([i \in 1 .. 3 |-> UnwrapOr0(d.roots[i])]),
     U32s(d.io \o <<Len(d.output_words)>>), U32s(d.input_words) >>
  \o [i \in 1 .. Len(d.output_words) |-> U32s(d.output_words[i])]

MixRoots(s) ==
  << U32(Len(s)) >> \o FlattenSeq([i \in 1 .. Len(s) |-> << U32s(<<s[i].tree_id, s[i].n_paths>>), U32s(s[i].root) >>])
MixLeaves(s) ==
  << U32(Len(s)) >> \o FlattenSeq([i \in 1 .. Len(s) |->
    << U32s(<<s[i].tree_id, s[i].depth, s[i].index>>), U32s(s[i].digest) >>])
MixChannels(s) ==
  << U32(Len(s)) >> \o FlattenSeq([i \in 1 .. Len(s) |->
    << U32s(<<s[i].channel_id, Len(s[i].chunks)>>) >> \o [j \in 1 .. Len(s[i].chunks) |-> U32s(s[i].chunks[j])]])

MixCircuits(s) ==
  << U32(Len(s)) >> \o FlattenSeq([i \in 1 .. Len(s) |->
    << U32s(<<s[i].circuit_id, Len(s[i].inputs), s[i].inner_log_size, s[i].output[1]>>),
       Felts(<<s[i].inner_claimed_sum, s[i].output[2]>>) >>
    \o FlattenSeq([j \in 1 .. Len(s[i].inputs) |-> << U32(s[i].inputs[j][1]), Felts(<<s[i].inputs[j][2]>>) >>])])

-----------------------------------------------------------------------------
(* The column layouts.                                                       *)
Copies(x, n) == [i \in 1 .. n |-> x]

\* The order in which components() takes its spans of the committed trees.
Order == IF protocol = "rv32im" THEN TraceComponents \o LookupComponents ELSE RecursionTables
IsLookup(c) == protocol = "rv32im" /\ Contains(LookupComponents, c)
MainWidth == [c \in ToSet(Order) |-> IF IsLookup(c) THEN 1 ELSE Width[c]]
PlaceIn(order, c) == SelectInSeq(order, LAMBDA x : x = c)
Position(c) == PlaceIn(Order, c)

\* Columns are named by their table: <<table, log size>>.  log is by position.
Columns(order, log, width) ==
  FlattenSeq([i \in 1 .. Len(order) |-> Copies(<<order[i], log[Position(order[i])]>>, width[order[i]])])
Sizes(columns) == [i \in 1 .. Len(columns) |-> columns[i][2]]

\* columns_cloned, and the chain of prove_recursion.
MainColumns(log) == Columns(Order, log, MainWidth)

\* The prover chains the interaction traces; fold and double have none.
InteractionOrder ==
  IF protocol = "rv32im" THEN Order
  ELSE <<"qm31_mul", "qm31_inv", "logup_sum", "merkle_path", "channel_replay", "linear_ops", "poseidon2">>
InteractionWidth == [c \in ToSet(Order) |-> 4 * Fractions[c]]
InteractionColumns(log) == Columns(InteractionOrder, log, InteractionWidth)

\* Claim::log_sizes and column_log_sizes: what the verifier expects of tree 1.
MainTraceLogSizes(log) ==
  FlattenSeq([i \in 1 .. Len(log) |-> Copies(log[i], IF IsLookup(Order[i]) THEN 1 ELSE Width[Order[i]])])

\* Bug: the lookup-free tables keep a column each.
InteractionLogSizesAll(log) ==
  FlattenSeq([i \in 1 .. 9 |-> Copies(log[i], <<8, 8, 4, 4, 4, 8, 8, 8, 8>>[i])])

\* verify_recursion's expectation of tree 2.
InteractionLogSizes(log) ==
  FlattenSeq([i \in 1 .. 7 |-> Copies(log[<<1, 2, 5, 6, 7, 8, 9>>[i]], <<8, 8, 4, 8, 8, 8, 8>>[i])])

\* The columns the allocator hands to component c, at its place in `order`.
Span(order, columns, width, c) ==
  LET before[i \in 1 .. PlaceIn(order, c)] == IF i = 1 THEN 0 ELSE before[i - 1] + width[order[i - 1]]
      first == before[PlaceIn(order, c)] + 1
      last == before[PlaceIn(order, c)] + width[c]
  IN  IF last > Len(columns) THEN <<>> ELSE SubSeq(columns, first, last)

\* The order of the `sums` array, and the entry components() gives each table.
SumOrder == <<"logup_sum", "merkle_path", "channel_replay", "poseidon2", "qm31_mul", "qm31_inv", "linear_ops">>
SumIndex(c) ==
  CASE c = "logup_sum" -> 0 [] c = "merkle_path" -> 1 [] c = "channel_replay" -> 2 [] c = "poseidon2" -> 3
    [] c = "qm31_mul" -> 4 [] c = "qm31_inv" -> 5 [] c = "linear_ops" -> 6 [] OTHER -> 7

-----------------------------------------------------------------------------
(* The pieces of a proof.  A claimed sum is the right one for exactly one   *)
(* table, one set of relations and one statement.                           *)
Relations == IF protocol = "rv32im" THEN <<drawn["relations"]>>
             ELSE <<drawn["relations"], drawn["recursion_relations"]>>
SumOf(c, relations, statement) == [of |-> c, at |-> relations, over |-> statement]
NoSum == [of |-> "zero", at |-> <<>>, over |-> <<>>]
LogupPart(statement) ==
  IF protocol = "rv32im"
  THEN <<statement.cpu, statement.initial_regs, statement.final_regs, statement.reg_last_clock,
         statement.roots, statement.input_words, statement.output_words>>
  ELSE <<statement.roots, statement.leaves, statement.channels, statement.circuits>>
Statement == IF protocol = "rv32im" THEN proof["public_data"]
             ELSE [p \in {"roots", "leaves", "channels", "circuits"} |-> proof[p]]
SumOfTable(c) ==
  IF protocol = "rv32im" THEN proof["sums"][Position(c)]
  ELSE IF SumIndex(c) = 7 THEN NoSum ELSE proof["sums"][SumIndex(c) + 1]
HasSum(c) == protocol = "rv32im" \/ SumIndex(c) # 7

Root(columns, draw) == [columns |-> columns, after |-> draw]
Masks == 8     \* 2 * SECURE_EXTENSION_DEGREE composition columns, one sample each
Sampled(after, n) == [after |-> after, masks |-> n]
Challenges == <<drawn["random_coeff"], drawn["oods"]>>
ClaimLog == IF protocol = "rv32im" THEN proof["claim"] ELSE proof["log_sizes"]

\* What the prover puts into a piece when its script reaches it.
Produce(p) ==
  CASE p = "public_data" -> run.statement
    [] p \in {"roots", "leaves", "channels", "circuits"} -> run.statement[p]
    [] p \in {"claim", "log_sizes"} -> run.log
    [] p = "preprocessed" -> Root(<<>>, <<>>)
    [] p = "main" -> Root(MainColumns(run.log), <<>>)
    [] p = "sums" -> LET table(i) == IF protocol = "rv32im" THEN Order[i] ELSE SumOrder[i]
                     IN  [i \in 1 .. Len(IF protocol = "rv32im" THEN Order ELSE SumOrder) |->
                            SumOf(table(i), Relations, LogupPart(Statement))]
    [] p = "interaction_log_sizes" -> Sizes(InteractionColumns(run.log))
    [] p = "interaction" -> Root(InteractionColumns(run.log), Relations)
    [] p = "composition" -> Root(<<>>, <<drawn["random_coeff"]>>)
    [] p = "sampled" -> Sampled(Challenges, Masks)

\* The channel calls that mix a piece.
MixClaim(v) == [i \in 1 .. Len(v) |-> U64(v[i])]                   \* Claim::mix_into
MixClaimedSum(v) == [i \in 1 .. Len(v) |-> Felts(<<v[i]>>)]
MixInteractionClaim(v) == << U64(Len(v)) >> \o [i \in 1 .. Len(v) |-> U64(v[i])]
MixesOf(p, v) ==
  CASE p = "public_data" -> MixPublicData(v)
    [] p = "roots" -> MixRoots(v)
    [] p = "leaves" -> MixLeaves(v)
    [] p = "channels" -> MixChannels(v)
    [] p = "circuits" -> MixCircuits(v)
    [] p = "claim" -> MixClaim(v)
    [] p = "log_sizes" -> << U32s(v) >>
    [] p = "pow" -> << U64(v) >>
    [] p \in {"preprocessed", "main", "interaction", "composition"} -> << << <<"r", v>> >> >>
    [] p = "sums" -> IF protocol = "rv32im" THEN MixClaimedSum(v) ELSE << Felts(v) >>
    [] p = "interaction_log_sizes" -> MixInteractionClaim(v)
    [] p = "sampled" -> << << <<"s", v>> >> >>

-----------------------------------------------------------------------------
(* The scripts: what each function mixes, draws and checks, in its order.    *)
Mix(p) == [do |-> "mix", what |-> p, n |-> 0]
Draw(name, n) == [do |-> "draw", what |-> name, n |-> n]
Check(what) == [do |-> "check", what |-> what, n |-> 0]
Pow == [do |-> "pow", what |-> "pow", n |-> 0]

\* prove_rv32im_with_channel up to stwo's prove.
ProveRv32im ==
  << Mix("public_data"), Mix("preprocessed"), Mix("main"), Mix("claim"), Pow, Draw("relations", NRelations),
     Mix("sums"), Mix("interaction_log_sizes"), Mix("interaction") >>

\* replay_claim_phase: what every reader of an rv32im proof starts with.
ReplayClaimPhase ==
  << Mix("public_data"), Mix("preprocessed"), Mix("main"), Mix("claim"), Check("pow"), Mix("pow"),
     Draw("relations", NRelations), Mix("sums"), Mix("interaction_log_sizes"), Mix("interaction") >>

\* prove_recursion_with_channel up to stwo's prove.
ProveRecursion ==
  << Mix("preprocessed"), Mix("log_sizes"), Mix("roots"), Mix("leaves"), Mix("channels"), Mix("circuits"),
     Mix("main"), Draw("relations", NRelations), Draw("recursion_relations", NRelations),
     Mix("log_sizes"), Mix("sums"), Mix("interaction") >>

\* verify_recursion_with_channel up to stwo's verify.
VerifyRecursion ==
  << Check("outputs"), Mix("preprocessed"), Mix("log_sizes"), Mix("roots"), Mix("leaves"), Mix("channels"),
     Mix("circuits"), Mix("main"), Draw("relations", NRelations), Draw("recursion_relations", NRelations),
     Check("logup"), Mix("log_sizes"), Mix("sums"), Mix("interaction") >>

\* stwo's prove and verify, to the out-of-domain point and past it.
StarkTail == << Draw("random_coeff", 1), Mix("composition"), Draw("oods", 1) >>
Openings == << Mix("sampled"), Check("opening") >>

\* Bug: the out-of-domain point is drawn before the composition commitment.
TranscriptTailEarly == << Draw("random_coeff", 1), Draw("oods", 1), Mix("composition"), Check("masks"), Check("oods") >>

\* full_binding_data_with_channel and replay_composition_oods, after the claim phase.
TranscriptTail == << Draw("random_coeff", 1), Mix("composition"), Draw("oods", 1), Check("masks"), Check("oods") >>

Script ==
  CASE role = "prover" -> (IF protocol = "rv32im" THEN ProveRv32im ELSE ProveRecursion) \o StarkTail \o << Mix("sampled") >>
    [] role = "verifier" ->
         (IF protocol = "rv32im" THEN ReplayClaimPhase \o << Check("logup") >> ELSE VerifyRecursion)
         \o StarkTail \o << Check("masks"), Check("oods") >> \o Openings
    [] role = "replay" -> ReplayClaimPhase \o TranscriptTail
    [] OTHER -> <<>>

-----------------------------------------------------------------------------
(* The ideal hash.                                                           *)
Known(table, pair) == \E k \in 1 .. Len(table) : table[k] = pair
IdOf(table, pair) == SelectInSeq(table, LAMBDA e : e = pair)
Hashed(s, words) ==
  LET pair == <<s.digest, words>>
      table == IF Known(s.table, pair) THEN s.table ELSE Append(s.table, pair)
  IN  [table |-> table, digest |-> IdOf(table, pair)]
MixedAfter(s, calls) ==
  LET acc[i \in 0 .. Len(calls)] == IF i = 0 THEN s ELSE Hashed(acc[i - 1], calls[i])
  IN  acc
MixAll(s, calls) == MixedAfter(s, calls)[Len(calls)]
Channel == [table |-> mixes, digest |-> digest]

\* Which nonces pass is the hash's choice: here, those with an even digest.
PowOk(nonce) == Hashed(Channel, U64(nonce)).digest % 2 = 0

\* grind hashes nonce after nonce until one passes.
Grinds(nonce) ==
  /\ \A n \in 0 .. nonce - 1 : MixAll(Channel, << U64(n) >>).digest = Len(mixes) + 1 => (Len(mixes) + 1 + n) % 2 = 1
  /\ (Len(mixes) + 1 + nonce) % 2 = 0
Ground(nonce) == [i \in 1 .. nonce |-> <<digest, U64(i - 1)>>]

-----------------------------------------------------------------------------
(* The checks.                                                               *)
Expected ==
  [main |-> MainTraceLogSizes(ClaimLog),
   interaction |-> IF protocol = "rv32im" THEN proof["interaction_log_sizes"] ELSE InteractionLogSizes(ClaimLog)]

SpansMatch(c) ==
  LET log == ClaimLog[Position(c)]
  IN  /\ Span(Order, proof["main"].columns, MainWidth, c) = Copies(<<c, log>>, MainWidth[c])
      /\ Span(Order, proof["interaction"].columns, InteractionWidth, c) = Copies(<<c, log>>, InteractionWidth[c])

Holds(check) ==
  CASE check = "pow" -> PowOk(proof["pow"])
    \* The circuits' outputs are what the re-recorded arenas compute.
    [] check = "outputs" -> \A i \in 1 .. Len(proof["circuits"]) : proof["circuits"][i].output[2] = "computed"
    \* The sums cancel against the public terms; logup_sum's is not among them.
    [] check = "logup" -> \A c \in Range(Order) : (HasSum(c) /\ c # "logup_sum") =>
                            SumOfTable(c).at = Relations /\ SumOfTable(c).over = LogupPart(Statement)
    [] check = "masks" -> proof["sampled"].masks = Masks
    \* Every component finds its own columns and its own sum, and the samples
    \* were taken at this point under these draws.
    [] check = "oods" -> /\ proof["sampled"].after = Challenges
                         /\ proof["interaction"].after = Relations
                         /\ \A c \in Range(Order) : SpansMatch(c)
                              /\ (HasSum(c) => SumOfTable(c) = SumOf(c, Relations, SumOfTable(c).over))
    [] check = "opening" -> /\ proof["opening"] = digest
                            /\ Expected.main = Sizes(proof["main"].columns)
                            /\ Expected.interaction = Sizes(proof["interaction"].columns)

-----------------------------------------------------------------------------
Init ==
  /\ protocol \in DOMAIN Statements
  /\ run \in [statement : Statements[protocol], log : LogSizes[protocol]]
  /\ mixes = <<>> /\ role = "prover" /\ pc = 1
  /\ digest = 0 /\ n_draws = 0 /\ drawn = <<>>
  /\ proof = <<>> /\ honest = <<>> /\ draws = <<>>
  /\ verdict = [r \in {"prover", "verifier", "replay"} |-> "running"]

\* f, with v under the name x.
Put(f, x, v) == [y \in DOMAIN f \cup {x} |-> IF y = x THEN v ELSE f[y]]

Step == Script[pc]
Doing(what) == role # "done" /\ pc <= Len(Script) /\ Step.do = what
Producing == role = "prover" /\ ~ (Step.what \in DOMAIN proof)
\* A tree that was not built is neither committed nor mixed.
Absent(p) == p = "interaction" /\ protocol = "rv32im" /\ proof["interaction_log_sizes"] = <<>>

MixStep ==
  /\ Doing("mix") /\ ~ Absent(Step.what)
  /\ LET p == Step.what
         piece == IF Producing THEN Produce(p) ELSE proof[p]
         after == MixAll(Channel, MixesOf(p, piece))
     IN  /\ proof' = Put(proof, p, piece)
         /\ mixes' = after.table /\ digest' = after.digest /\ n_draws' = 0
  /\ pc' = pc + 1
  /\ UNCHANGED <<protocol, run, role, drawn, honest, draws, verdict>>

SkipTree ==
  /\ Doing("mix") /\ Absent(Step.what)
  /\ pc' = pc + 1
  /\ UNCHANGED <<protocol, run, mixes, role, digest, n_draws, drawn, proof, honest, draws, verdict>>

Grind ==
  /\ Doing("pow")
  /\ \E nonce \in 0 .. NonceBound - 1 :
       /\ Grinds(nonce)
       /\ mixes' = mixes \o Ground(nonce + 1)
       /\ proof' = Put(proof, "pow", nonce)
       /\ digest' = Len(mixes) + 1 + nonce
  /\ n_draws' = 0 /\ pc' = pc + 1
  /\ UNCHANGED <<protocol, run, role, drawn, honest, draws, verdict>>

DrawStep ==
  /\ Doing("draw")
  /\ drawn' = Put(drawn, Step.what, <<digest, n_draws>>)
  /\ n_draws' = n_draws + Step.n /\ pc' = pc + 1
  /\ UNCHANGED <<protocol, run, mixes, role, digest, proof, honest, draws, verdict>>

CheckStep ==
  /\ Doing("check") /\ Holds(Step.what)
  /\ pc' = pc + 1
  /\ UNCHANGED <<protocol, run, mixes, role, digest, n_draws, drawn, proof, honest, draws, verdict>>

\* The next role starts on a default channel.
Leave(how, next) ==
  /\ verdict' = [verdict EXCEPT ![role] = how]
  /\ draws' = Put(draws, role, drawn)
  /\ role' = next /\ pc' = 1 /\ digest' = 0 /\ n_draws' = 0 /\ drawn' = <<>>
  /\ UNCHANGED <<protocol, run, mixes>>
After(r) == CASE r = "prover" -> "verifier" [] r = "verifier" /\ protocol = "rv32im" -> "replay" [] OTHER -> "done"

CheckFails ==
  /\ Doing("check") /\ ~ Holds(Step.what)
  /\ Leave(Step.what, After(role))
  /\ UNCHANGED <<proof, honest>>

Finish ==
  /\ role # "done" /\ role # "prover" /\ pc > Len(Script)
  /\ Leave("accepted", After(role))
  /\ UNCHANGED <<proof, honest>>

\* What may differ in the proof its readers get: one piece, or nothing.
Variants(p) ==
  CASE p = "public_data" -> {r.statement : r \in [statement : Statements["rv32im"]]}
    [] p \in {"roots", "leaves", "channels"} -> {s[p] : s \in Statements["recursion"]}
    [] p = "circuits" -> {s[p] : s \in Statements["recursion"]}
         \cup {[proof[p] EXCEPT ![i].output[2] = "other"] : i \in DOMAIN proof[p]}
    [] p \in {"claim", "log_sizes"} -> LogSizes[protocol]
    [] p = "pow" -> 0 .. NonceBound - 1
    [] p = "sums" -> {[proof[p] EXCEPT ![i] = NoSum] : i \in DOMAIN proof[p]}
    [] p = "interaction_log_sizes" -> {<<>>, SubSeq(proof[p], 1, Len(proof[p]) - 1)}
    [] p \in {"preprocessed", "main", "interaction", "composition"} -> {Root(<<>>, <<>>), Root(<< <<"other", 0>> >>, <<>>)}
    [] p = "sampled" -> {Sampled(proof[p].after, Masks - 1), Sampled(<<>>, Masks)}
    [] p = "opening" -> {0}

Publish ==
  /\ role = "prover" /\ pc > Len(Script)
  /\ LET made == Put(proof, "opening", digest)
     IN  /\ honest' = made
         /\ \/ proof' = made
            \/ \E p \in DOMAIN proof : \E v \in Variants(p) \ {proof[p]} : proof' = Put(made, p, v)
            \/ proof' = Put(made, "opening", 0)
  /\ Leave("accepted", "verifier")

Next == MixStep \/ SkipTree \/ Grind \/ DrawStep \/ CheckStep \/ CheckFails \/ Finish \/ Publish

Spec == Init /\ [][Next]_vars
-----------------------------------------------------------------------------
(* Properties.                                                               *)

\* The pieces each draw must depend on.
Before(name) ==
  LET first == IF protocol = "rv32im" THEN {"public_data", "preprocessed", "main", "claim", "pow"}
               ELSE {"preprocessed", "log_sizes", "roots", "leaves", "channels", "circuits", "main"}
      second == first \cup {"sums", "interaction"} \cup (IF protocol = "rv32im" THEN {"interaction_log_sizes"} ELSE {})
  IN  CASE name \in {"relations", "recursion_relations"} -> first
        [] name = "random_coeff" -> second
        [] name = "oods" -> second \cup {"composition"}

\* A reader that draws what the prover drew reads, up to that draw, the very
\* pieces the prover mixed (prover.rs:93 and verifier.rs:42).
DrawsBind ==
  \A r \in DOMAIN draws \ {"prover"} : \A name \in DOMAIN draws[r] :
    draws[r][name] = draws["prover"][name] => \A p \in Before(name) : proof[p] = honest[p]

\* verifier.rs, transcript.rs, recursion/src/prover.rs: a proof that was not altered is
\* accepted by its verifier and by the replay, since every reader walks the pieces in the
\* prover's order and expects its layout; and any altered piece is noticed.
AcceptedExactly ==
  honest # <<>> =>
    IF proof = honest THEN \A r \in DOMAIN verdict : verdict[r] \in {"running", "accepted"}
    ELSE verdict["verifier"] # "accepted"

\* The recursion's replay draws what the verifier draws, on every proof, and
\* accepts the samples of every proof the verifier accepts (transcript.rs:68-75).
ReplayAgrees ==
  /\ {"verifier", "replay"} \subseteq DOMAIN draws =>
       \A name \in DOMAIN draws["verifier"] \cap DOMAIN draws["replay"] :
         draws["verifier"][name] = draws["replay"][name]
  /\ role = "done" /\ protocol = "rv32im" /\ verdict["verifier"] = "accepted" => verdict["replay"] = "accepted"

=============================================================================
