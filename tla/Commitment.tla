----------------------------- MODULE Commitment -----------------------------
(***************************************************************************)
(* What closes a segment: the memory commitment rows and Merkle roots of   *)
(* crates/runner/src/commitment.rs, and the public data of                 *)
(* crates/prover/src/public_data.rs that anchors the LogUp relations.      *)
(*                                                                         *)
(* A Merkle root is abstracted to what it binds: a function from words to  *)
(* values, 0 where there is no leaf (the tree's default leaves are 0), or  *)
(* NoRoot when no row carries it.  Hashing is taken as injective.          *)
(* Output lengths are counted in words.                                    *)
(***************************************************************************)
EXTENDS Tracer, Sequences

CONSTANTS
  RwWord,     \* is_rw_addr: data, stack and io words
  InputSeq,   \* the input region's words in address order
  OutputLen,  \* the output length word
  OutputData, \* the words from output_data_addr upwards, in address order
  NoRoot      \* no row carries the root

ASSUME LayoutAssumption ==
  /\ RwWord \subseteq Word
  /\ InputSeq \in Seq(RwWord)
  /\ OutputLen \in RwWord
  /\ OutputData \in Seq(Word)
  /\ Val \subseteq Nat
  /\ NoRoot \notin [RwWord -> Val]

Role == [is_first : BOOLEAN, is_last : BOOLEAN]

InputWord == {InputSeq[i] : i \in DOMAIN InputSeq}

\* The length word and the words [output_data_addr, output_data_addr + n).
OutputWords(n) == {OutputLen} \cup {OutputData[i] : i \in (1 .. n) \cap DOMAIN OutputData}

\* Input and output never share a word (linker.ld lays them out apart).
ASSUME RegionAssumption == \A n \in Val : OutputWords(n) \cap InputWord = {}

-----------------------------------------------------------------------------
(***************************************************************************)
(* collect_memory_commitment.  mem is the memory when the segment closes,  *)
(* keys the words it has bytes for, t the segment's tracer.                *)
(***************************************************************************)
Entries(t, keys) == {w \in RwWord : w \in keys \/ t.last[w] > 0}

IsInput(w, role) == role.is_first /\ w \in InputWord

IsPublicOutput(w, mem, role) == role.is_last /\ w \in OutputWords(mem[OutputLen])

\* Bug: input words get an initial row too.
IncludeInitialAll(w, role) == TRUE

IncludeInitial(w, role) == ~IsInput(w, role)

IncludeFinal(w, t, mem, role) ==
  IF IsInput(w, role) THEN t.last[w] > 0 ELSE ~IsPublicOutput(w, mem, role)

\* Bug: mem_initial is not looked at.
InitialWordLatest(w, t, mem) == mem[w]

InitialWord(w, t, mem) == IF t.initial[w] = NoVal THEN mem[w] ELSE t.initial[w]

\* build_partial_merkle_tree over the leaves of the words in S.
Root(S, value) ==
  IF S = {} THEN NoRoot ELSE [w \in RwWord |-> IF w \in S THEN value[w] ELSE 0]

InitialRoot(t, mem, keys, role) ==
  Root({w \in Entries(t, keys) : IncludeInitial(w, role)},
       [w \in RwWord |-> InitialWord(w, t, mem)])

FinalRoot(t, mem, keys, role) ==
  Root({w \in Entries(t, keys) : IncludeFinal(w, t, mem, role)}, mem)

\* push_memory_rows: +1 for the initial word at clock 0, -1 for the final word at
\* the clock of its last access.
MemoryRow(x, t, mem, keys, role) ==
    Bit(/\ x[1] \in Entries(t, keys) /\ IncludeInitial(x[1], role)
        /\ x[2] = 0 /\ x[3] = InitialWord(x[1], t, mem))
  - Bit(/\ x[1] \in Entries(t, keys) /\ IncludeFinal(x[1], t, mem, role)
        /\ x[2] = t.last[x[1]] /\ x[3] = mem[x[1]])

-----------------------------------------------------------------------------
(***************************************************************************)
(* PublicData.  given is the set of words the run's input covers; its      *)
(* values are input[w].  Only the first segment keeps the input and only   *)
(* the last one the output words.                                          *)
(***************************************************************************)
PublicInput(given, role) == IF role.is_first THEN given ELSE {}

PublicOutput(mem, role) == IF role.is_last THEN OutputWords(mem[OutputLen]) ELSE {}

\* PublicData::new panics on an output word the segment's tracer has no clock for.
Panics(t, mem, role) == \E w \in PublicOutput(mem, role) : t.last[w] = 0

\* PublicData::logup_sum on memory_access: the registers' initial and final
\* values, the input words at clock 0, the output words at their last clock.
\* regs0 are the registers at the segment's start, regs those at its end.
MemoryAnchor(x, t, regs0, regs, mem, given, input, role) ==
    Bit(x[1] \in Reg /\ x[2] = 0 /\ x[3] = regs0[x[1]])
  - Bit(x[1] \in Reg /\ x[2] = t.last[x[1]] /\ x[3] = regs[x[1]])
  + Bit(x[1] \in PublicInput(given, role) /\ x[2] = 0 /\ x[3] = input[x[1]])
  - Bit(x[1] \in PublicOutput(mem, role) /\ x[2] = t.last[x[1]] /\ x[3] = mem[x[1]])

\* What memory_access adds up to over the tracer's rows, the commitment's and the public
\* data, from the contents start of registers and memory to mem.
MemorySum(x, t, start, mem, keys, given, role) ==
    t.ledger[x]
  + MemoryRow(x, t, mem, keys, role)
  + MemoryAnchor(x, t, start, mem, mem, given, start, role)

\* The words a segment accessed.
Touched(t) == {w \in Word : t.last[w] > 0}

\* What a guest must do for its segment to have a proof: touch only committed words
\* and, in the first segment, touch exactly the words of the input region the input
\* covers.
Anchorable(accessed, given, role) ==
  /\ accessed \subseteq RwWord
  /\ role.is_first => accessed \cap InputWord = given

\* Bug: the final pc is anchored at the last instruction's own clock.
StateAnchorEarly(s, t, pc0, pc) == Bit(s = <<pc0, 1>>) - Bit(s = <<pc, t.clock>>)

\* ... and on registers_state: the entry pc at clock 1, the final pc one past the
\* last instruction's clock.
StateAnchor(s, t, pc0, pc) == Bit(s = <<pc0, 1>>) - Bit(s = <<pc, t.clock + 1>>)
=============================================================================
