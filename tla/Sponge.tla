------------------------------- MODULE Sponge -------------------------------
(***************************************************************************)
(* The Poseidon2 channel (prover/src/poseidon2_channel.rs) and its replay  *)
(* as rows of the recursion AIR (recursion/src/channel_replay.rs): every   *)
(* mix and draw is one run of a sponge over the digest and its words.      *)
(*                                                                         *)
(* The permutation is ideal: a permuted state is the sequence of chunks    *)
(* added into its rate since the all-zero state.  A word is <<n>>, or      *)
(* <<s, j>> for word j of the permuted state s.                            *)
(***************************************************************************)
EXTENDS Integers, SequencesExt, FiniteSetsExt

CONSTANTS
  Rate,      \* RATE
  DrawTag,   \* DRAW_TAG
  Base,      \* 2^16: encode_u32s splits at this base
  MixedU32s, \* arguments of mix_u32s
  MixedFelts, \* arguments of mix_felts, as their base-field words
  MaxOps     \* bound on the operations of a session

ASSUME SpongeAssumption ==
  /\ Rate \in Nat /\ Rate > 2
  /\ DrawTag \in Nat \ {0, 1} /\ Base \in Nat \ {0, 1}
  /\ MixedU32s \subseteq Seq(Nat) /\ MixedFelts \subseteq Seq(Nat)

VARIABLES
  channel,   \* Poseidon2M31Channel
  squeezed,  \* history: the blocks the channel drew
  ops,       \* history: the operations, as ChannelOps
  session,   \* replay_session: digest, n_draws, claims and draws
  rows       \* ChannelReplayTable; the poseidon2 table has an io row for each
spongeVars == <<channel, squeezed, ops, session, rows>>

W(n) == <<n>>
Words(data) == [i \in DOMAIN data |-> W(data[i])]
ZeroBlock == [j \in 1 .. Rate |-> W(0)]
ZeroState == <<>>

\* poseidon2_permutation of a state with a chunk added into its rate; a chunk that is the
\* whole rate of a state is written as that state.
RateOf(state) == [j \in 1 .. Rate |-> <<state, j>>]
Named(chunk) == IF Len(chunk[1]) = 2 /\ chunk = RateOf(chunk[1][1]) THEN <<chunk[1][1]>> ELSE chunk
Permuted(state, chunk) == Append(state, Named(chunk))

-----------------------------------------------------------------------------
\* hash_words with capacity tag 0: word after word, then the end marker.
AbsorbWord(h, word) ==
  LET slots == [h.slots EXCEPT ![h.filled + 1] = word]
  IN  IF h.filled + 1 = Rate THEN [state |-> Permuted(h.state, slots), slots |-> ZeroBlock, filled |-> 0]
      ELSE [h EXCEPT !.slots = slots, !.filled = @ + 1]

Absorbed(words) ==
  LET h[i \in 0 .. Len(words)] ==
        IF i = 0 THEN [state |-> ZeroState, slots |-> ZeroBlock, filled |-> 0]
        ELSE AbsorbWord(h[i - 1], words[i])
  IN  h

HashWords(words) ==
  LET h == Absorbed(Append(words, W(1)))[Len(words) + 1]
  IN  RateOf(IF h.filled # 0 THEN Permuted(h.state, h.slots) ELSE h.state)

\* encode_u32s: the low half of each number, then its high half.
EncodeU32s(data) ==
  [i \in 1 .. 2 * Len(data) |->
     IF i % 2 = 1 THEN data[(i + 1) \div 2] % Base ELSE data[i \div 2] \div Base]

\* mix_words, which a root's and a felt's words reach as they are.
MixWords(ch, words) == [digest |-> HashWords(ch.digest \o Words(words)), n_draws |-> 0]

\* draw_words: the block, and the channel after it.
DrawBlock(ch) == HashWords(ch.digest \o Words(<<ch.n_draws, DrawTag>>))
DrawWords(ch) == [ch EXCEPT !.n_draws = @ + 1]

-----------------------------------------------------------------------------
\* chunk_stream: the same words and marker, cut into chunks.
Chunk(words, k) ==
  [j \in 1 .. Rate |->
     IF (k - 1) * Rate + j <= Len(words) THEN words[(k - 1) * Rate + j] ELSE W(0)]
ChunkStream(words) ==
  LET marked == Append(words, W(1))
  IN  [k \in 1 .. (Len(marked) + Rate - 1) \div Rate |-> Chunk(marked, k)]

\* replay_digest.
ReplayStates(chunks) ==
  LET state[k \in 0 .. Len(chunks)] ==
        IF k = 0 THEN ZeroState ELSE Permuted(state[k - 1], chunks[k])
  IN  state
ReplayDigest(chunks) == ReplayStates(chunks)[Len(chunks)]
OutRate(chunks) == RateOf(ReplayDigest(chunks))

\* push_sponge_step for each chunk of a run, from the zero state.
RunRows(id, chunks) ==
  [k \in DOMAIN chunks |->
     LET prev == ReplayDigest(SubSeq(chunks, 1, k - 1))
     IN  [channel_id |-> id, step |-> k - 1, prev |-> prev, chunk |-> chunks[k], out |-> Permuted(prev, chunks[k])]]

\* One ChannelOp: words to absorb, or <<>> for a draw.
MixOp(words) == [draw |-> FALSE, words |-> words]
DrawOp == [draw |-> TRUE, words |-> <<>>]

\* Bug: mixing does not reset the draw counter.
ReplayOpKeepsCount(s, op) ==
  LET words == s.digest \o Words(IF op.draw THEN <<s.n_draws, DrawTag>> ELSE op.words)
      chunks == ChunkStream(words)
      out == OutRate(chunks)
      claimed == [s EXCEPT !.claims = Append(@, [channel_id |-> Len(s.claims), chunks |-> chunks])]
  IN  IF op.draw THEN [claimed EXCEPT !.draws = Append(@, out), !.n_draws = @ + 1]
      ELSE [claimed EXCEPT !.digest = out]

\* The loop body of replay_session, first_channel_id being 0.
ReplayOp(s, op) ==
  LET words == s.digest \o Words(IF op.draw THEN <<s.n_draws, DrawTag>> ELSE op.words)
      chunks == ChunkStream(words)
      out == OutRate(chunks)
      claimed == [s EXCEPT !.claims = Append(@, [channel_id |-> Len(s.claims), chunks |-> chunks])]
  IN  IF op.draw THEN [claimed EXCEPT !.draws = Append(@, out), !.n_draws = @ + 1]
      ELSE [claimed EXCEPT !.digest = out, !.n_draws = 0]

\* check_links: the final digest, or an error.
Broken == <<>>
IsDraw(claim) == Len(claim.chunks) = 2 /\ claim.chunks[2][2] = W(DrawTag)
Breaks(acc, claim, outputs) ==
  \/ acc.digest = Broken
  \/ claim.chunks = <<>>
  \/ claim.chunks[1] # acc.digest
  \/ /\ IsDraw(claim)
     /\ acc.index >= Len(outputs) \/ outputs[acc.index + 1] # OutRate(claim.chunks)
LinkStep(acc, claim, outputs) ==
  IF Breaks(acc, claim, outputs) THEN [acc EXCEPT !.digest = Broken]
  ELSE IF IsDraw(claim) THEN [acc EXCEPT !.index = @ + 1]
  ELSE [acc EXCEPT !.digest = OutRate(claim.chunks)]
Linked(claims, outputs) ==
  LET acc[i \in 0 .. Len(claims)] ==
        IF i = 0 THEN [digest |-> ZeroBlock, index |-> 0]
        ELSE LinkStep(acc[i - 1], claims[i], outputs)
  IN  acc
CheckLinks(claims, outputs) ==
  LET acc == Linked(claims, outputs)[Len(claims)]
  IN  IF acc.index = Len(outputs) THEN acc.digest ELSE Broken

-----------------------------------------------------------------------------
\* LogUp entries: a tuple and its multiplicity.
Entry(rel, tuple, n) == [rel |-> rel, tuple |-> tuple, n |-> n]

\* Bug: the next state is claimed for the same step.
RowEntriesSameStep(r) ==
  << Entry("poseidon2_io", <<r.prev, r.chunk, r.out>>, -1), Entry("sponge_data", <<r.channel_id, r.step, r.chunk>>, -1),
     Entry("sponge_step", <<r.channel_id, r.step, r.prev>>, -1), Entry("sponge_step", <<r.channel_id, r.step, r.out>>, 1) >>

\* evaluate().  A permutation's input is the state with the chunk
\* added into its rate, here the pair of both.
RowEntries(r) ==
  << Entry("poseidon2_io", <<r.prev, r.chunk, r.out>>, -1), Entry("sponge_data", <<r.channel_id, r.step, r.chunk>>, -1),
     Entry("sponge_step", <<r.channel_id, r.step, r.prev>>, -1), Entry("sponge_step", <<r.channel_id, r.step + 1, r.out>>, 1) >>

\* The fractions gen_interaction_trace writes, two to a column.
RowColumns(r) ==
  << << Entry("poseidon2_io", <<r.prev, r.chunk, r.out>>, -1), Entry("sponge_data", <<r.channel_id, r.step, r.chunk>>, -1) >>,
     << Entry("sponge_step", <<r.channel_id, r.step, r.prev>>, -1), Entry("sponge_step", <<r.channel_id, r.step + 1, r.out>>, 1) >> >>

\* An io row of the poseidon2 component.
IoEntry(r) == Entry("poseidon2_io", <<r.prev, r.chunk, Permuted(r.prev, r.chunk)>>, 1)

\* public_channel_terms.
ChannelTerms(claim) ==
  <<Entry("sponge_step", <<claim.channel_id, 0, ZeroState>>, 1)>>
  \o [k \in DOMAIN claim.chunks |-> Entry("sponge_data", <<claim.channel_id, k - 1, claim.chunks[k]>>, 1)]
  \o <<Entry("sponge_step", <<claim.channel_id, Len(claim.chunks), ReplayDigest(claim.chunks)>>, -1)>>

\* The tuples whose multiplicities do not add up to zero.
Residue(entries) ==
  {t \in {<<e.rel, e.tuple>> : e \in ToSet(entries)} :
     MapThenSumSet(LAMBDA i : entries[i].n, {i \in DOMAIN entries : <<entries[i].rel, entries[i].tuple>> = t}) # 0}

\* The part of verify_recursion's sum that a row, its permutation and a claim add.
RowSum(r) == RowEntries(r) \o <<IoEntry(r)>>
SpongeSum == FlattenSeq([i \in DOMAIN rows |-> RowSum(rows[i])] \o [i \in DOMAIN session.claims |-> ChannelTerms(session.claims[i])])

-----------------------------------------------------------------------------
SpongeInit ==
  /\ channel = [digest |-> ZeroBlock, n_draws |-> 0]
  /\ squeezed = <<>>
  /\ ops = <<>>
  /\ session = [digest |-> ZeroBlock, n_draws |-> 0, claims |-> <<>>, draws |-> <<>>]
  /\ rows = <<>>

\* replay_session goes on with op.
Replayed(op) ==
  /\ ops' = Append(ops, op)
  /\ session' = ReplayOp(session, op)
  /\ rows' = rows \o RunRows(Len(session.claims), session'.claims[Len(session.claims) + 1].chunks)

MixU32s ==
  /\ Len(ops) < MaxOps
  /\ \E data \in MixedU32s :
       /\ channel' = MixWords(channel, EncodeU32s(data))
       /\ Replayed(MixOp(EncodeU32s(data)))
  /\ UNCHANGED squeezed

MixFelts ==
  /\ Len(ops) < MaxOps
  /\ \E words \in MixedFelts :
       /\ channel' = MixWords(channel, words)
       /\ Replayed(MixOp(words))
  /\ UNCHANGED squeezed

\* draw_secure_felt and draw_u32s; draw_secure_felts draws as many blocks as it needs.
Squeeze ==
  /\ Len(ops) < MaxOps
  /\ squeezed' = Append(squeezed, DrawBlock(channel))
  /\ channel' = DrawWords(channel)
  /\ Replayed(DrawOp)

SpongeNext == MixU32s \/ MixFelts \/ Squeeze

SpongeSpec == SpongeInit /\ [][SpongeNext]_spongeVars

-----------------------------------------------------------------------------
(***************************************************************************)
(* Properties.                                                             *)
(***************************************************************************)
\* A mix that check_links takes for a draw: two chunks, the tag second in the second one.
LooksLikeDraw(op) == ~op.draw /\ Len(op.words) \in 2 .. Rate - 1 /\ op.words[2] = DrawTag
Other(s, i, x) == [s EXCEPT ![i] = x]

\* A word no channel absorbs.
Foreign == W(-1)

\* channel_replay.rs: a replayed session draws what the channel draws and ends on its
\* digest, though one absorbs word by word and the other chunk by chunk; its links hold,
\* unless a mix looks like a draw; and with any one block or claim changed or left out they
\* are broken, or lead to another digest.
SessionIsChannel ==
  LET links == CheckLinks(session.claims, session.draws)
  IN  /\ session.digest = channel.digest
      /\ session.draws = squeezed
      /\ session.n_draws = channel.n_draws
      /\ links = (IF \E i \in DOMAIN ops : LooksLikeDraw(ops[i]) THEN Broken ELSE channel.digest)
      /\ links # Broken =>
           /\ \A i \in DOMAIN session.claims : CheckLinks(RemoveAt(session.claims, i), session.draws) # links
           /\ \A i \in DOMAIN session.claims : \A k \in DOMAIN session.claims[i].chunks :
                CheckLinks(Other(session.claims, i, [session.claims[i] EXCEPT !.chunks[k][1] = Foreign]),
                           session.draws) # links
           /\ \A i \in DOMAIN session.draws :
                /\ CheckLinks(session.claims, RemoveAt(session.draws, i)) # links
                /\ CheckLinks(session.claims, Other(session.draws, i, ZeroBlock)) # links

\* A row with one column changed, to the value of another row or to one of no row.
AlteredRows(r) ==
  { [r EXCEPT !.channel_id = Len(session.claims)], [r EXCEPT !.step = @ + 1], [r EXCEPT !.chunk[1] = Foreign] }
  \cup { [r EXCEPT !.prev = other.prev] : other \in ToSet(rows) }
  \cup { [r EXCEPT !.out = other.out] : other \in ToSet(rows) }

\* Whether a sum that cancels still does with some entries in the place of others.
StillCancels(entries, others) == Residue(others \o [i \in DOMAIN entries |-> [entries[i] EXCEPT !.n = -@]]) = {}

\* channel_replay.rs, prover.rs: the rows of a session cancel against the public transcript
\* and the permutations they ask for, with an interaction trace in the AIR's pairs, and no
\* longer do with one column of a row changed - its permutation's row with it or not -, with
\* one word of the transcript changed or with one claim left out.
SpongeExact ==
  /\ Residue(SpongeSum) = {}
  /\ \A r \in ToSet(rows) : RowColumns(r) = <<SubSeq(RowEntries(r), 1, 2), SubSeq(RowEntries(r), 3, 4)>>
  /\ \A i \in DOMAIN rows : \A r \in AlteredRows(rows[i]) \ {rows[i]} :
       /\ ~StillCancels(RowEntries(rows[i]), RowEntries(r))
       /\ ~StillCancels(RowSum(rows[i]), RowSum(r))
  /\ \A i \in DOMAIN session.claims :
       /\ ~StillCancels(ChannelTerms(session.claims[i]), <<>>)
       /\ \A k \in DOMAIN session.claims[i].chunks :
            ~StillCancels(ChannelTerms(session.claims[i]), ChannelTerms([session.claims[i] EXCEPT !.chunks[k][1] = Foreign]))

=============================================================================
