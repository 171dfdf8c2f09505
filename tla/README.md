# stark-v in TLA+

stark-v proves executions of RISC-V (RV32IM) guests. A runner executes the guest and
records a trace, cut into segments if asked; a prover turns each segment into a STARK
proof; host-side verifiers check the proofs and that segments follow one another. What
makes a trace provable is a bookkeeping discipline: every tuple of a LogUp relation must
be emitted as often as it is consumed, over all tables *and* the public data. The code
that keeps this discipline is spread over the tracer, the opcode functions, the memory
commitment, the public data and the runner's loop, and no type or unit test ties these
together. The same holds of the agreements around it: prover and verifier over what they
mix and draw, the recursion's circuits over what an inner AIR evaluates, the macro compiler
over what it fills and what it constrains, the guest runtime over what the host reads.
These are what this project models.

## The system

| component | state | operations | hard part | correct when |
|---|---|---|---|---|
| execution tracer (`air/src/trace.rs`, macros) | clock, clock of each register and word, first values, fetch counts, tables | `trace_reg_access`, `trace_mem_access`, `trace_instr_access`, `fill_gap` | several accesses at one clock; gaps longer than the range table | rows telescope; differences fit |
| opcodes (`runner/src/ops`, `execute.rs`, `cpu.rs`, `memory.rs`) | pc, 32 registers, sparse memory | one function per opcode | order of accesses, x0, pc | the machine's semantics; a balanced row |
| memory commitment (`runner/src/commitment.rs`) | initial and final rows, three trees | `finalize_commitments_with_role` | four roles x input / output / ordinary words | each word anchored once at each end |
| public data (`prover/src/public_data.rs`) | pcs, registers, roots, I/O words | `new`, `logup_sum`, `mix_into` | completes what the commitment leaves out | relations cancel |
| runner loop (`runner/src/lib.rs`) | cpu, memory, decode cache, tracer, segments | fetch, execute, close, five ways out | order of halt flag, boundary, sentinel, self-loop, limit; stale cache; what a boundary resets | segmentation is invisible to the guest; segments chain |
| segment verifiers (`prover/src/recursion`) | index / tree level | `verify_segments`, `aggregate_segments` | two algorithms, odd counts, error report | same verdict; root spans the run |
| prover and verifier protocol (`prover.rs`, `verifier.rs`, `mix_into`, `recursion/src/prover.rs`) | Fiat-Shamir channel, the proof | `prove_rv32im`, `verify_rv32im`, `prove_recursion`, `verify_recursion` | the same order and layout in three programs; a value mixed too late binds nothing | honest proofs accepted, altered ones not |
| Poseidon2 and channel (`poseidon2_channel.rs`, `prover/src/recursion/transcript.rs`, `channel_replay.rs`) | digest, draw counter; a session's claims and rows | mix, draw, grind, replay, `check_links` | the replay must follow every mix; one side absorbs words, the other chunks; draws are told from mixes by their chunks | same digests and challenges; rows cancel for the channel's session only |
| opcode AIRs (`air/src/schema.rs`) | - | constraints and lookups per opcode table | limb carries, signs, overflow | a row satisfies them iff the opcode's result is right |
| program decoding (`decode.rs`, `program.rs`), ELF (`elf.rs`) | - | decode, encode as four limbs; load | immediates, operand order | the fetch matches the row |
| trace generation (`prover/src/components`, macros) | columns by table | `components!`, claims, interaction traces | order and width of columns | both sides list the same columns |
| recursion: circuits (`recorder.rs`, `circuit.rs`, arithmetic tables) | arena, accumulators, tables, claim | `evaluate` on recording handles, `lower_arena`, push functions, `verify_recursion` | multiplicities, batches, the order of a mask | the rows compute the inner AIR's composition, and nothing else |
| recursion: openings and final proof (`openings.rs`, `merkle_path.rs`, `final_proof.rs`) | per tree, leaf and root claims and path rows; per segment, roots, leaves, boundary | `replay_pcs_openings`, `prove_final`, `verify_final` | converging paths, witnesses of the exact length, trees of two heights, claims compared apart from the rows that back them | the verdict the segments deserve; no altered artifact accepted |
| macro compiler (`stwo-macros/src/air_fns.rs`) | scope, cells, columns, constraints | `define_air_fns!`: lowering, host fill, AIR, activations | shadowing, degree budget, inlining | fill and constraints mean the same function |
| guest runtime (`guest/guest-bin`, `guest-lib/src/io.rs`, `runner/src/io.rs`) | bump pointer, I/O region | `alloc`, `output`, `read_input_*`, `halt` | order of output stores; segment cuts; heap end | host reads what was written; blocks disjoint |
| guest programs, SDK, CLI, debug and bench tools, SIMD buffers | | | | see *Not modelled* |

How they interact. `run_segments_with_input` owns the cpu, the memory and one tracer.
Opcode functions call the tracer through `Cpu::read_reg`/`write_reg` and
`Memory::read_*_traced`/`write_*_traced`, then push a row. At a boundary the loop calls
the commitment, takes the tracer, and keeps memory, registers and decode cache. The guest
and the host share only the I/O region. The prover builds `PublicData` from each result and
mixes it first; the segment verifiers compare neighbours' public data. The recursion
replays the transcript of a proof and records the inner AIR's `evaluate()`, whose tables
`define_air_fns!` may have generated. `prove_final` puts the circuits and openings of all
segments into one recursion proof and strips the decommitments; `verify_final` computes the
claims again without them and leaves the hashing to the rows. Everything is single-threaded
or data-parallel; the difficulties are sequences of legal steps, orders two programs must
share, resets at boundaries, stale copies and off-by-ones, not data races. The hazards, each
at its line, are in `PROJECT.json`.

## The modules

* **Tracer** - a tracer is a record; its operations are operators on it. A table is kept
  as its *contribution* to each relation, a function from tuples to integers (`ledger` for
  `memory_access`, `states` for `registers_state`, `rows` and `reads` for the two sides of
  `program_access`). `GapCount` is the closed form of `fill_gap`'s loop.
* **Commitment** - `collect_memory_commitment`, the roots and `PublicData`. A root is what
  it binds: a function from words to values that is 0 where there is no leaf, or `NoRoot`
  if no row carries it (`PublicData::new` reads roots from the table's rows).
* **Segment** - one segment under an *arbitrary* guest: fetch, any accesses in any order
  with any values, retire, until it is closed in any of the four roles and published. What
  holds here holds for every program and opcode mix.
* **Guest** - opcodes grouped by what they access and in which order, with nondeterministic
  registers, words and values. Code is memory, and any pc's word can be fetched, so guests
  modify themselves and run their data, stack or input. `Text` is the part the program
  commitment covers; `Unmatched` says at which pcs `program_access` does not cancel. Pcs are
  word-aligned: `read_u32` asserts it in debug builds.
* **Machine** - the abstract specification of a run: pc, registers, memory, no tracer, no
  segments, no cache. A word of code may be fetched with any content it has had.
* **Runner** - `run_segments_with_input`: one action per way through the loop body, with
  the code's order of tests in the guards. `seen` is history, as are the last six fields
  of a segment's result. `RefinesMachine` maps it to Machine.
* **Aggregate** - `verify_segments` and `aggregate_segments` as two processes over the same
  proofs, in steps of one comparison, one proof or one tree node.
* **Ops** - what each of the 45 opcodes computes, the witness columns it computes beside the
  result (shift markers and carries, comparison markers, product halves, quotient,
  remainder and their signs, address shift), and its row of the program table. A word is
  four limbs of `LimbBits` bits.
* **Schema** - the sixteen opcode tables of `schema.rs`: which rows satisfy their
  constraints and lie in the range, bitwise and program tables they look up. A negative felt
  is a negative number; a committed inverse is represented by what it inverts; a division
  by the limb base, which gives a field element that no range table holds unless it is
  exact, is a divisibility test.
* **Opcodes** - one instruction, executed by Ops, pushes its row, one action per table; the
  properties compare the row with Schema.
* **Heap** - the bump allocator, on addresses of any width, with the wrap of both sums.
* **GuestIO** - extends Heap with the guest's reads, output calls and ways to stop as
  sequences of stores, and with what the host makes of the region: `read_output`,
  `collect_output_words`, the words the commitment leaves out, the cut at a segment's end.
  `promised` and the segments are history.
* **Transcript** - `prove_*` and `verify_*` of rv32im and of the recursion, and the replay, as
  scripts: what each mixes, draws and checks, in its order. One action does one step of
  whoever is at work. A proof is a set of pieces; between prover and readers one piece may
  be altered. `Expected` and the column operators say what a verifier requires of a piece.
* **Tower** - the extension field QM31 as code and as the limb constraints of the recursion's
  arithmetic tables (`recursion/src/lib.rs`).
* **Circuit** - extends Tower: the recorder (`recorder.rs`), one action per kind of call
  `evaluate()` may make, the composition with its powers of alpha and LogUp batches,
  `lower_arena` and the claim (`circuit.rs`, `binding.rs`), the fractions of the
  interaction trace, and the rows pushed outside any circuit.
* **Sponge** - the hash channel and its replay side by side: each action is one mix or draw of
  `Poseidon2M31Channel` and one turn of `replay_session`'s loop, with the rows it pushes;
  `check_links`, the rows' LogUp entries, the interaction trace and the public terms are
  operators. `squeezed` and `ops` are history.
* **Openings** - `replay_pcs_openings` as operators on a proof's body: which leaves each tree
  opens, the walk of a decommitment, the chain of rows per position, the FRI layers with
  their witnesses, and the first error; then the sums of the merkle_path rows, of the
  permutations they ask for and of the public roots and leaves. The first part of the module
  is what stwo commits to and decommits.
* **FinalProof** - extends Openings: `prove_final` and `verify_final`, one action per segment
  and one for what comes before and after the loop. The environment may alter a segment proof
  before, or the artifact after, in one place or - a body together with the claims that fit
  it - in two. `batch` and `altered` are history.
* **Compiler** - `air_fns.rs`: the lowering of a function in the source's order of cases, the
  rows the host fills, constraints and lookups, public activations, and the embedded form.
  Beside it, `Run...` interprets the language directly: the reference for the properties.
* **TracerProofs**, **SegmentProofs**, **RunnerProofs**, **AggregateProofs**, **GuestIOProofs**,
  **SpongeProofs**, **TranscriptProofs**, **BindingProofs** - the theorems and their lemmas.
* **MCSegment**, **MCRunner**, **MCAggregate**, **MCOpcodes**, **MCGuestIO**, **MCTranscript**,
  **MCCircuit**, **MCCompiler** - values for the runs. A behaviour of MCAggregate is one of
  Aggregate or of FinalProof, the two ways to one verdict over a run; one of MCTranscript is
  one of Transcript or of Sponge, the order of a transcript and the channel under it.

Guest and Ops split the opcodes between them: Guest keeps the accesses and leaves values
open, which is what segments and commitments depend on; Ops keeps the values of one
instruction, on which no other row depends but through those accesses. GuestIO leaves
instructions out altogether: its steps are a call's stores, and a segment may fill between
any two of them.

Operators preceded by a comment "Bug: ..." are faulty variants that no specification
uses. They are there so that each property can be seen to fail for a plausible bug
(`PROJECT.json`, "mutants").

## The runs

| run | shows | instance, and why it is enough |
|---|---|---|
| anchors | `MemoryBalanceExact`: memory_access of a segment cancels *iff* the guest touched only committed words and, in the first segment, exactly the given input words | one word of each kind (input, length, output data, not committed), every set of words with bytes, all roles, all access orders in up to one instruction; the theorem covers the rest |
| trace | telescoping, gap filling, registers_state, fetch counts | one register, one word, two pcs, five instructions with `MaxDiff` 2: differences of 0, exactly 2, 3 (one row) and 5 (two rows) |
| memory | segments chain on the root exactly under the stated conditions, balance on their own; `program_access` fails to cancel exactly where code outside the program range ran; lengths, and no empty segment after a halt flag; the run implements Machine; it ends | stores, jumps and sentinels in a program word and in the input word, which is executed as well; any store may hit the program, the input, the output length or the halt flag; a segment per cycle, up to four segments: enough to store over a word, come back and run the stale one |
| registers | segments chain on pc, registers and program; cycle limit | loads, branches, jumps and register instructions with two registers; one word in the program range, one loaded outside it; two-cycle segments, so that a segment holds more than one instruction |
| aggregate | both host verifiers come to a verdict and to the same one; the root spans the chain. `FinalVerdict`: an artifact nobody touched is accepted *iff* every segment's sums cancel and the segments chain, and the first bad one is refused with its own error. `ArtifactBinds`: nothing altered is accepted | up to three proofs over two programs (state and program mismatches, invalid proofs, zero proofs), four and five over one: 5 -> 3 -> 2 -> 1 carries an odd node at two heights. Then one to three segments, 49 batches: every one or two of eight positions (paths that meet at every height, positions that coincide in the lower preprocessed tree), three positions beside two; trees of heights two and three, two columns each in an order that must be sorted, two FRI layers. Two of the batches are altered, in every value, hash, claim, row column and order |
| opcodes | `ProvableExactly`: the row of an executed instruction satisfies its table *iff* the instruction is one the table can express (`Provable`, a condition on the instruction alone); `FetchMatches`: it consumes the program table's row | four-bit limbs, so that a product of words fits TLC's integers; operands at the edge of each limb, of the signs and of the address range, all pairs of 24 words, all I-type edge immediates: 292,732 states, with provable and unprovable instructions of each kind |
| guestio | a payload arrives whole in the last segment, wherever segments were cut; the words listed are those the commitment leaves out; when a cut makes `PublicData::new` panic; reads and the words they load; blocks never overlap | 128 addresses: two input words, eight bytes of output, a heap of 16 bytes that ends where the assumption allows; payloads below, at and above the capacity; lengths the guest stores itself, up to the last address; three calls, three segments |
| transcript | an honest proof is accepted and an altered one is not (`AcceptedExactly`), by the replay too; each draw depends on all that precedes it; the replay draws what the verifier draws. `SessionIsChannel`: a session ends on the channel's digest with the channel's draws, and its links hold for nothing else. `SpongeExact`: its rows cancel against its claims, and no altered row or claim does | both protocols; a statement and, for each of its fields, one that differs in that field only; two shapes of the tables; every piece altered, alone; nonces below 3. Then every sequence of up to four mixes and draws at a rate of four, with mixes that end within the second chunk, at its end and past it, some that end like the end marker, and some with the draw tag in their second word |
| circuit | the arena computes what was recorded; the composition is the weighted sum of all constraints; the recording can be repeated from the claim; an honest lowering is accepted and an altered row is not (`LoweredExactly`); push functions and tables agree | the field of three elements (i and u keep their equations there), so that every alteration of a column can be tried; five budgets of calls: two columns and arithmetic, inverse and negation, one and two LogUp batches, two components; the two latest values are operands, or the same one twice |
| compiler | constraints stay within the degree; the host's fill is accepted and means the program; no other rows are; a program with a meaning compiles; an embedded row plays one part | the field of five elements; every body of one or two of eleven statements (shadowing, power, calls of inline and table functions, arrays, map, sum, update, assert, for), two ways to return, degree 3 and 2, plain and embedded; one activation, inputs 1 and 3, up to two altered values in a row, a row dropped or repeated |
| heap, mulh | what a comment or document says and the code does not do | see *Findings* |

At four-bit limbs a shift amount fills the low limb, so that nothing of rs2's first limb is
above it, and the range table of addresses is 10 bits wide, so that addresses fall on both
sides of its end. What depends on the width only through the limb base (carries, signs,
fills, markers) is the same at eight bits.

What `Provable` says beside `TRUE`: an opcode that computes a non-zero value for x0 has no
row, since the trace records zero and the table the value (jumps are exempt, by the tables'
own factor `rd`); base addresses and link values must be below the field's order as
the M31 table reads it, and sums of a base and an offset must not wrap; addresses must be
in the range table; and a signed high multiplication must not notice that its operands'
signs count twice (`Excess`). Loads and stores are aligned, as memory.rs asserts in debug builds.

The channel's hash is ideal: a digest is the index of its (digest, words) pair in a table
that all parties share, so that two digests are equal iff everything mixed before was. A
commitment is the columns it commits to. What stwo checks of openings is that they are
those of the committed columns at the drawn point. Which nonces pass the proof of work is
the hash's choice; here the even digests'.

In Circuit multiplicities are integers, where the code has felts: no circuit comes near
2^31 uses of a node. In a field of three elements a random combination collides often; the
properties that need none (`LoweredExactly`) therefore compare tuples, not their
combinations. There 2 is -1 and 4 is 1, so a coefficient mistaken for one of these does not
show. `Rerecords` holds of circuits of one component whose `evaluate()` begins its
interactions in order, which is how circuit.rs calls it (one component per claim).

In Sponge the permutation is injective and the permuted state's words are unlike any other; a
permutation's input, the state with the chunk added into its rate, is the pair of both. In
Openings digests, quotients and folds are terms: equal iff computed from equal parts. An
altered evaluation therefore never happens to lie on the run's last-layer polynomial; a
replaced polynomial may fit or not, as may a composition value that the environment alters.
What a transcript draws depends on the whole body (Transcript), so a body with anything
changed that is mixed before the queries draws other positions, from `Redraws`; with fewer
positions than values the code just ignores the rest, so redraws have at least as many.
`TreeIdStride` must exceed a segment's trees, as the code's 64 does.

In Compiler the source's binders of `map`, `sum` and `for` differ from other names, and no
name has the form `x_v1`, which the code reserves for rebound columns. With `max_degree` 2
any product of two columns is over the budget once enabler and running sum are counted.

`CHECK_DEADLOCK FALSE` everywhere: runs, protocols and compilations end. Bounds: `MaxClock`
bounds a segment's clock, `MaxSegments` the results of a run (in Runner beyond what
`MaxCycles` allows, so no behaviour is cut), `MaxCalls` the guest's calls, `MaxProofs` the
sequence of proofs, `Budgets` and `MaxLive` the calls of an `evaluate()` and the values it
still uses, `NonceBound` the nonces, `MaxActivations` and `MaxAltered` the host's
activations and the values of an alteration, `MaxRuns` the segments proved together, `MaxOps`
the operations of a session.

Fairness. The runner's loop and both verifiers are sequential code that never waits, so
each is weakly fair as a whole; nothing is assumed about which branch is taken or what the
guest does. `Termination` therefore rests on the cycle limit alone, and `Verdicts` on the
levels of the tree shrinking.

`CycleLimit` is what the code guarantees, which is one more than the documentation's
"maximum number of cycles before aborting": a taken branch to itself in the cycle after
the last allowed one ends the run successfully, since the self-loop test comes first.

## What is proved

For every value of the constants, by TLAPS, from the named assumptions of the modules
(`TracerAssumption`: registers and words are disjoint, 0 is a value, the gap is positive;
`LayoutAssumption` and `RegionAssumption`: the linker script's regions are committed, input
and output do not overlap, and no memory is the root of an empty tree;
`GuestAssumption`: 0 is a pc, every pc has a word of its own, those of the program range lie
outside the read-write regions, and 0 does not decode; `RunnerAssumption`: the program is loaded, the
halt flag is not, and `MaxClock` does not cut a run before its limit; `X0Assumption`; `MaxProofsAssumption`;
`HeapAssumption`: alignments divide the address space, a layout's rounded size is at most
`isize::MAX`, as Rust's `Layout` guarantees, and the heap lies in the lower half;
`LinkerAssumption`: linker.ld's order of input, output, stack, data and heap, and its
alignments; `CallAssumption`: inputs and payloads are bytes, a read's offset and length are
numbers, and a length a guest stores is a word;
`SpongeAssumption`: the rate is at least three, the draw tag and the half-word base are
neither 0 nor 1, and what is mixed are numbers;
`TranscriptAssumption`: the types of the Rust structs - a statement is a `PublicData` or lists of
the recursion's claims, a run has a log size for each table - and what the code's own tables
have: names of their own, a lookup in at least one rv32im trace table, the recursion's nine
with their fractions; a circuit's claimed output is the one it computes; there are nonces to try).

* **TracerProofs** - what Segment and Runner share. `CaughtUpBounds`: after gap filling the
  difference is in `0 .. MaxDiff`. `GapChain`: the catch-up rows' emissions and consumptions
  cancel pairwise, so that (`AccessTraced`) an access keeps `Traced`: the ledger is the
  initial tuples less the latest ones. This does not hold by itself: that the consumed tuple
  is the latest needs memory and clocks to be the frontier, and the first values tie the
  initial rows to the ledger's origin. `BalanceExact`: summing the ledger, the commitment's
  rows and the public data word by word, each word cancels iff it is committed or untouched
  and, as input of the first segment, touched iff given.
* **SegmentProofs** - `IInv` is `Traced` with the counts of fetches and rows. From it: type
  correctness, telescoping, range fits, first values, `StateBalance`, `ProgramResidue`, and
  `MemoryBalance` by `BalanceExact`.
* **RunnerProofs** - first an instruction: every access and every way an opcode retires
  keeps `Sound` (types, `Traced` since the segment's start, keys that cover what is not
  zero) and leaves the clock alone; `Execute` never changes x0, changes one location at
  most, and that by an access the tracer records. Then Runner's `IInv`. Chaining needs to
  know more than the results: `Resumes` says that the running segment starts where the last
  result closed, with the memory its final root binds but for the input words the first
  segment left alone. That a cached instruction is the one committed to needs to tell apart
  a word's contents over time:
  `Cached` says the cache holds what the word at a pc once held and never what does not
  decode, and, while no segment has touched the program (`Clean`), what a program word held
  when the segment began. `Paired` says each fetch has its row between instructions, so that
  only a final self-loop's can be left. Then (`ProgramSums`) a pc outside the program range
  is unmatched iff a row was executed there, and one inside only if it has a fetch without a
  row; `Committed` carries this over the results. `Counts` ties clock, completed cycles and
  the number of results, which gives `SegmentLengths` and `CycleLimit`; `FlagRead` says that
  a halt flag set in an earlier segment would have been seen at its end, which gives
  the last part of `SegmentLengths`. From `IInv` all of Runner's safety properties, and `Refinement`: a boundary
  is a stutter of Machine, whose memory does not change while the tracer and the segment
  start afresh, every other action is Machine's of the same name, with a fetch from the cache
  as a fetch of what the word has had.
* **AggregateProofs** - `IInv`: each node of a level stands for a chain of segments that
  the levels split without a gap (`LevelSplits`), and the level under construction follows
  the one below (`NextFollows`); `LinearKnows` and `TreeKnows` say what each verifier has
  established. From it `AggregationSound` and `VerdictsAgree`, for any number of proofs.
* **GuestIOProofs** - `HeapInv`: the next address is past every block handed out, and within
  the heap. With `HeapAssumption` neither `next + align - 1` nor `start + size` wraps, so the
  comparison with the heap's end means what it says; hence `BlocksApart`, for every width.
  `IoInv` is the I/O region's invariant, for every input, payload and read and every place a
  segment may be closed. What a call promised is not in memory until its last store, so
  `Promised` states it of the cells together with the stores left: each of them holds its
  byte or will. `Calling` ties the call's progress (`made`), the last boundary (`cut`) and
  the words stored since it (`stored`) to the call's list of stores, whose last is the flag:
  that is what decides whether the last segment still holds a published word. `Reported`
  says that no other segment shows anything, `Untouched` and `Touched` that nothing stores
  into the input and which of its words were loaded. From it `ReadsGivenAlways`,
  `OutputDeliveredAlways` and `OutputCutAlways`; `WordsAnchoredAlways` follows from the type
  of the length word and the arithmetic of the two ways to round the output's end up.

* **SpongeProofs** - `SessionIsChannelAlways`, for sessions of any length. `HashIsReplay`:
  absorbing word by word and folding chunk by chunk is the same, whatever remains of the
  last chunk. `SInv` gives every operation the digest `D` and the number of draws `X` before
  it. What makes links unique is `Fresh`: two operations start from one digest only if all
  between them are draws. It is inductive because a run's output names the digest the run
  began with (`OutNamesFirst`), so that a mix's output equal to an earlier digest would make
  an earlier mix start where this one does (`Origin`). A changed word, a claim or an output
  left out then shows as a broken link, another final digest or a count that keeps its
  distance (`SameCount`); a mix that looks like a draw would have to match the output of a
  draw that comes later, from another digest (`LookAlikeBreaks`).
  `SpongeExactAlways`, for the rows and claims of such a session: what a list of entries adds
  up to at a tuple (`Total`) is a fold over a set, whose value does not depend on the order in
  which the fold takes the set (`SumOnInsert`); so the totals of lists laid end to end add up
  (`TotalJoin`, `GrandJoin`). A run telescopes: what a row emits the next one consumes, its
  chunks are the claim's, and the claim's two states close it (`RunCancels`). `XInv` is that
  all runs so far cancel at every tuple, with the shape of rows and claims; an altered row
  or claim differs from the honest one at a tuple of the chunks or of the states
  (`AlteredTotals`, `ClaimAltered`, `ClaimLeftOut`).

* **TranscriptProofs** - `ReplayAgreesAlways`: the replay draws what the verifier draws and
  accepts what it accepts, for every component table, statement, log sizes and nonce bound,
  on what a prover publishes and on every alteration of one piece. The scripts are unrolled
  into lists of steps (`VerifierPlan`, `ReplayPlan`, `ProverPlan`), each proved to be the
  model's. The channel's ideal hash is a table that only grows and in which a pair keeps its
  place; `Reached` says which digest the table gives after the first k pieces of a proof. That
  digest is unique (`ReachedOnce`) and outlives whatever else is hashed later (`ReachedKept`).
  `TInv` says that a reader at a step has mixed the pieces before it and no others, that each
  of its draws is the first one at the digest reached there, and what the verifier has
  checked by then (`Passed`). So the two readers' draws have one value, and a check of the
  replay is one the verifier has made: of the nonce, whose pair is already in the table, of
  the number of claimed sums, and of the composition, which compares the same two draws. It
  needs the proof to be whole and its lists to be lists, which the prover's part of `TInv`
  gives (`MadeSoFar`, `Lists`) and an alteration keeps (`Published`).

* **BindingProofs** - the other two properties of Transcript, for both protocols.
  `DrawsBindAlways`: two readers who draw the same have mixed the same. The hash table is
  `Grounded`: a pair is hashed only once its digest is there, so a digest is a place in the
  table and the pair at it is the only way back (`Deeper`, `WalksMeet`); from one digest one
  goes back through the same calls to the start (`LeadsOneWay`). That equal calls mean equal
  pieces (`CallsTell`) is the encodings' injectivity: halves tell a word (`HalvesTell`), the
  mixed counts tell where a list of claims, its chunks and its inputs end (`NumberedTold`,
  `ChannelTells`, `CircuitTells`), the flags an absent root from root 0 (`RootsTell`), and the
  io header how many output words follow (`PublicDataTells`). The plans of all roles of both
  protocols, with the pieces mixed and the draws taken before each step (`Done`, `Depth`,
  `Count`), are proved to be the scripts of the model.
  `AcceptedExactlyAlways` has two sides. An altered piece moves the digest every opening is
  drawn from (`OpeningBinds`), so the verifier stops there if not before. An unaltered proof
  fails no check: the prover's nonce, whose pair is in the table, passes the reader's test; the
  claimed sums are one per table with a lookup, over the relations the reader draws
  again; the columns the prover chains are those the verifier's log sizes expect
  (`MainSizes`, `InteractionSizes`, for every width); and the spans the allocator hands to the
  components are the columns of their tables (`Spans`), which is where the recursion's two
  orders, of its sums and of its columns, have to fit together.
  `BInv` is `Making` while the prover is at work (what it has mixed is the proof so far, its
  pieces are right) and `Given` afterwards (the published proof is the whole one with at most
  one piece altered, each reader has mixed the pieces before its step, every earlier role's
  draws are those of its pieces).

Each inductive invariant was first checked by TLC on the runs' instances, but for Sponge's
and Transcript's, whose digests are bound by an existential over all functions; `XInv`, which
speaks of every tuple, is `SpongeExact`'s first conjunct with the shapes.

What a loop computes is proved by induction: the library's well-ordering of the naturals
gives `Induction`, in which the property is the set of numbers that have it, and a recursive
function's values exist for every bound by such an induction (`AbsorbedLoop`,
`ReplayedLoop`, `LinkedLoop`, `MixedLoop`; `Flat` for lists of lists). A fold over a set is
unrolled the same way, over the size of the set (`FoldLoop`).

Only model-checked: Ops and Schema, which use Bitwise and sums over functions that TLAPS has
no means for; Compiler, whose trees need RECURSIVE operators; Circuit, Openings and
FinalProof, whose sums and walks are folds over sequences and sets, each to be unrolled by an
induction of its own; and liveness (`Termination`, `Verdicts`), which is out of TLAPS's reach, as is ENABLED.

## Findings

* The row of `mulh` with a negative operand, or of `mulhsu` with a negative first one, does
  not satisfy the table's carry checks: `rs1_top` and `rs2_top` (schema.rs:1107) add the
  sign to a limb that already holds it (run `mulh`). The end-to-end opcode test evaluates
  constraints but not membership in the range tables, so it does not see it.
* The blocks the allocator hands out lie outside the regions the runner commits to
  (commitment.rs:125 with elf.rs:91 and linker.ld:57: the regions end at `__data_end`, the
  heap begins after it), so memory_access does not cancel for a guest that uses one
  (run `heap`), although heap_vec.rs exists to show that the allocator works in the zkVM.

## Observations

Places where the code does something a reader might not expect, stated exactly by a property
that holds:

* A self-loop sentinel's fetch is counted in `program_reads` (lib.rs:235) before the
  sentinel is recognised and left out of the trace (lib.rs:237-249): program_access keeps
  one emission nothing consumes (`ProgramResidue`).
* Code outside the program range runs: `get_or_decode` (lib.rs:16) reads any address, so
  words of rodata, data, the stack or the I/O regions are decoded, cached and executed; in
  an ELF without `__text_len` that is all of its code (elf.rs:86-87). Segmenting and caching
  treat it as they treat any code (`RefinesMachine`), but no program root binds it: its rows
  find no emission in program_access, so such a run has no proof (`CommittedIsExecuted`).
  Only code outside the program range can be overwritten in a run whose stores are all
  anchored, and then the stale instruction goes on running.
* A guest that sets its halt flag in the last cycle of a segment ends with that segment; a
  self-loop right at a boundary leaves a last segment with no cycles (`SegmentLengths`).
* A guest that touches a published output word only before the last segment makes
  `PublicData::new` panic on the last segment, while the unsegmented run is provable
  (`OutputCut`, `MemoryBalanceExact`).
* A segment that commits no word has no read-write root, and does not chain with a
  neighbour whose tree holds only zeros (`ChainsOnRoot`).
* Above the leaves, `aggregate_segments` reports the first segments of the two subtrees as
  the mismatching neighbours (aggregate.rs:100); the verdict is right (`SameVerdict`).
* A guest that writes its own output length makes the host list words beyond the output
  region; the result and the commitment still agree on them (`WordsAnchored`).
* A read shorter than what was given, or past it, makes the segment unprovable, since the
  public data emits every given word (`ReadsGiven`).

* `check_links` tells a draw from a mix by its chunks: a mix of a digest and two to seven
  words (in the model, to one less than the rate) whose second is the draw tag is read as a
  draw, and an honest session with one is refused (`SessionIsChannel`). No value the code
  mixes is of that form but by chance: u32s are mixed as halves below 2^16.
* `open_lifted_tree` compares the values of neighbouring duplicates only (openings.rs:350),
  while the mapping to the preprocessed tree's positions can put other positions between two
  equal ones; the leaf then has the last one's values, and an altered earlier one is refused
  by the FRI openings rather than by the tree (`ArtifactBinds`).

## Plan

1. done: Tracer, Commitment, Segment with proofs; Guest, Machine, Runner; Aggregate with proofs.
2. done: Ops, Schema, Opcodes: every opcode table against the runner's witnesses at reduced
   limb width. Left: that no other result satisfies a table, over all witnesses.
3. done: Transcript; Heap and GuestIO with a proof; Tower and Circuit; Compiler.
4. done: proofs of Runner: chaining, balance, the cache, cycle limit, segment lengths, and
   the refinement of Machine.
5. done: Openings and FinalProof, against the verdict the segments deserve; Sponge, the
   channel and its replay as rows.
6. `Tree`: the partial Merkle trees of the memory commitment as the merkle relation's rows,
   with their multiplicities and default subtrees.
7. Sponge as the implementation of Transcript's ideal channel, by a refinement mapping.
8. done: proofs of GuestIO and Heap, of Sponge's sessions and of their rows, of Transcript's replay and of what
   its draws and its verdicts bind. Left: Openings' walk and FinalProof's verdict.

## Not modelled, and why

Hashing (Poseidon2, Blake2s) and field arithmetic at full width, stwo's commitments and FRI
(out of TLC's reach, and stwo's own); trace padding and multiplicity counting of the
preprocessed tables (one data-parallel pass). Of the recursion: the formulas of quotients
and folds, the leaf hasher's domain tag, and the per-segment leaves of `recursion/src/aggregate.rs`,
which put Aggregate's chain over one-segment circuits. Of the
macros: parsing and the generation of Rust text, and the macros that only rewrite
declarations. SDK, CLI, debug and bench tools (process and file I/O); SIMD buffers (memory
layout without protocol); example guests (the models quantify over all guests). Byte
addressing in the tracer and the commitment, which work on aligned words: a narrow store is
a store of some word value; bytes are kept in GuestIO, where the output's end falls within a
word.
