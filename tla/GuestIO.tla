------------------------------- MODULE GuestIO -------------------------------
(***************************************************************************)
(* The guest's runtime and the host's view of it: the reads, the output    *)
(* calls and the ways to stop of guest-bin/src/glue.rs and                 *)
(* guest-lib/src/io.rs, laid out by guest-bin/linker.ld, and what          *)
(* crates/runner makes of the I/O region (lib.rs, io.rs, commitment.rs).   *)
(*                                                                         *)
(* A call of the guest is a sequence of stores, one per step, and the host *)
(* may close a segment between any two: the other instructions of a call   *)
(* are left out, so a segment may fill anywhere.  Stores are in program    *)
(* order.  The memory holds a byte per address, except that the halt flag  *)
(* and the output length are one cell each.                                *)
(***************************************************************************)
EXTENDS Heap, FiniteSets, FiniteSetsExt, SequencesExt

CONSTANTS
  IoStart,     \* __io_start
  InputLen,    \* __input_len
  StackBottom, StackTop,
  DataEnd,     \* __data_end; the data region begins at the stack's top
  Inputs,      \* inputs a run may be started with
  Payloads,    \* byte sequences a guest may output
  Requests,    \* the reads it may make: an offset into the input and a number of bytes
  Lengths,     \* values a guest may store into the length word itself
  MaxCalls,    \* bound on the calls of a run
  MaxSegments  \* bound on its segments

\* linker.ld.
InputEnd == IoStart + InputLen
HaltFlag == InputEnd
OutputLen == HaltFlag + 4
OutputData == HaltFlag + 8
OutputEnd == StackBottom
Capacity == OutputEnd - OutputData

ASSUME LinkerAssumption ==
  /\ IoStart \in Nat /\ InputLen \in Nat
  /\ StackBottom \in Nat /\ StackTop \in Nat /\ DataEnd \in Nat
  /\ IoStart % 4 = 0 /\ InputLen % 4 = 0
  /\ OutputData <= OutputEnd
  /\ StackBottom <= StackTop /\ StackTop <= DataEnd
  /\ HeapStart % 16 = 0 /\ DataEnd <= HeapStart /\ HeapStart < DataEnd + 16

Byte == 0 .. 255

ASSUME CallAssumption ==
  /\ Inputs \subseteq Seq(Byte)
  /\ Payloads \subseteq Seq(Byte)
  /\ Requests \subseteq Nat \X Nat
  /\ Lengths \subseteq 0 .. W - 1

VARIABLES
  given,     \* the input the run was started with
  mem,       \* the I/O region
  todo,      \* the stores the current call has still to make
  made,      \* history: the stores it made
  cut,       \* history: how many it had made when a segment was last closed
  promised,  \* history: the payload of the last output call, if that settles the output
  stored,    \* the words stored in the segment (tracer.mem_clock)
  got,       \* history: the last read, where it began and what it returned
  asked,     \* history: the offsets into the input asked for
  touched,   \* history: the input words loaded
  calls,
  segs,      \* the results of the closed segments
  status

ioVars == <<given, mem, todo, made, cut, promised, stored, got, asked, touched, calls,
            segs, status>>
vars == <<next, blocks, ioVars>>

WordOf(a) == a - (a % 4)

InputAddr == IoStart .. InputEnd - 1
DataAddr == OutputData .. OutputEnd - 1

\* run_segments_with_input: the input is written byte by byte, or refused.
Init ==
  /\ HeapInit
  /\ given \in Inputs
  /\ status = IF Len(given) > InputLen THEN "too_large" ELSE "running"
  /\ mem = [a \in InputAddr \cup {HaltFlag, OutputLen} \cup DataAddr |->
              IF a \in IoStart .. IoStart + Len(given) - 1 /\ status = "running"
                THEN given[a - IoStart + 1] ELSE 0]
  /\ todo = <<>> /\ made = 0 /\ cut = 0
  /\ promised = <<>>
  /\ stored = {}
  /\ got = [offset |-> 0, bytes |-> <<>>]
  /\ asked = {} /\ touched = {}
  /\ calls = 0
  /\ segs = <<>>

-----------------------------------------------------------------------------
(***************************************************************************)
(* The guest.                                                              *)
(***************************************************************************)
\* The guest runs as long as the host finds no halt flag.
Runs == status = "running" /\ mem[HaltFlag] = 0

Calls ==
  /\ Runs
  /\ todo = <<>>
  /\ calls < MaxCalls
  /\ calls' = calls + 1

\* Bug: the offset is left out of the address.
ReadAtStart(offset, n) == [i \in 1 .. n |-> IoStart + i - 1]

\* The addresses of n bytes of the input from an offset.
ReadAt(offset, n) == [i \in 1 .. n |-> IoStart + offset + i - 1]

\* read_input_bytes_at, and read_input_bytes with offset 0: at most what the region holds.
ReadLen(offset, n) == IF offset >= InputLen THEN 0 ELSE Min({n, InputLen - offset})

Read(offset, n) ==
  LET from == ReadAt(offset, ReadLen(offset, n))
  IN  /\ Calls
      /\ got' = [offset |-> offset, bytes |-> [i \in DOMAIN from |-> mem[from[i]]]]
      /\ asked' = asked \cup (offset .. offset + n - 1)
      /\ touched' = touched \cup {WordOf(from[i]) : i \in DOMAIN from}
      /\ UNCHANGED <<heapVars, given, mem, todo, made, cut, promised, stored, segs, status>>

Bytes(p) == [i \in DOMAIN p |-> <<OutputData + i - 1, p[i]>>]

Truncated(p) == SubSeq(p, 1, Min({Len(p), Capacity}))

\* Bug: the halt flag goes first.
OutputStoresFlagFirst(p, len) == <<<<HaltFlag, 1>>>> \o Bytes(p) \o <<<<OutputLen, len>>>>

\* Bug: the length goes first, as in write_output_bytes.
OutputStoresLengthFirst(p, len) ==
  <<<<OutputLen, len>>>> \o Bytes(p) \o <<<<HaltFlag, 1>>>>

\* output and output_raw: the bytes, the length, the halt flag.
OutputStores(p, len) == Bytes(p) \o <<<<OutputLen, len>>, <<HaltFlag, 1>>>>

\* A call that makes the given stores and, once it is through, has promised p.
StartCall(stores, p) ==
  /\ Calls
  /\ todo' = stores
  /\ made' = 0 /\ cut' = 0
  /\ promised' = p
  /\ UNCHANGED <<heapVars, given, mem, stored, got, asked, touched, segs, status>>

\* glue::output_raw: the bytes that fit.
OutputRaw(p) ==
  StartCall(OutputStores(Truncated(p), Len(Truncated(p))), <<Truncated(p)>>)

\* glue::output, whose postcard writes into the region itself: all the bytes of a value
\* that fits, or some of them and the length 0.
Output(p) ==
  \/ Len(p) <= Capacity /\ StartCall(OutputStores(p, Len(p)), <<p>>)
  \/ \E n \in 0 .. Len(Truncated(p)) :
       StartCall(OutputStores(SubSeq(p, 1, n), 0), <<<<>>>>)

\* io::write_output_bytes: the length first, and the guest goes on.
WriteOutput(p) ==
  StartCall(<<<<OutputLen, Len(Truncated(p))>>>> \o Bytes(Truncated(p)), <<Truncated(p)>>)

\* The guest's own store into the length word: any value.
Poke(len) == StartCall(<<<<OutputLen, len>>>>, <<>>)

\* io::halt.
SetHalt == StartCall(<<<<HaltFlag, 1>>>>, promised)

Allocate(l) ==
  /\ Calls
  /\ Alloc(l)
  /\ UNCHANGED <<given, mem, todo, made, cut, promised, stored, got, asked, touched, segs,
                 status>>

\* One store of the call.
Store ==
  /\ Runs
  /\ todo # <<>>
  /\ mem' = [mem EXCEPT ![todo[1][1]] = todo[1][2]]
  /\ stored' = stored \cup {WordOf(todo[1][1])}
  /\ todo' = Tail(todo)
  /\ made' = made + 1
  /\ UNCHANGED <<heapVars, given, cut, promised, got, asked, touched, calls, segs, status>>

-----------------------------------------------------------------------------
(***************************************************************************)
(* The host.                                                               *)
(***************************************************************************)
\* io::read_output; None and an empty payload are both <<>>.
ReadOutput ==
  LET len == mem[OutputLen]
  IN  IF len > Capacity THEN <<>> ELSE [i \in 1 .. len |-> mem[OutputData + i - 1]]

\* Bug: the end is rounded down.
EndAlignedDown(len) == WordOf((OutputData + len) % W)

\* output_data + len, rounded up to a word, in u32.
EndAligned(len) == WordOf((((OutputData + len) % W) + 3) % W)

\* collect_output_words: the addresses from the data up to the end, in words.
OutputWords ==
  LET len == mem[OutputLen]
  IN  {OutputLen} \cup
      (IF len = 0 THEN {}
       ELSE {a \in OutputData .. EndAligned(len) - 1 : a % 4 = 0})

\* MemoryLayout::is_public_output_addr.
IsPublicOutputAddr(a) ==
  LET len == mem[OutputLen]
  IN  \/ a = OutputLen
      \/ len # 0 /\ a >= OutputData /\ a < WordOf((((OutputData + len) % W) + 3) % W)

\* MemoryLayout::from_loaded and is_rw_addr.
IsRwAddr(a) ==
  \/ StackTop <= a /\ a < DataEnd
  \/ StackBottom <= a /\ a < StackTop
  \/ IoStart <= a /\ a < OutputEnd + 1

\* An interior segment: no output, no words.
CloseSegment ==
  /\ Runs
  /\ Len(segs) < MaxSegments - 1
  /\ segs' = Append(segs, [output |-> <<>>, words |-> {}, panics |-> FALSE])
  /\ stored' = {}
  /\ cut' = made
  /\ UNCHANGED <<heapVars, given, mem, todo, made, promised, got, asked, touched, calls,
                 status>>

\* PublicData::new panics on an output word without a clock.
Finish ==
  /\ segs' = Append(segs, [output |-> ReadOutput, words |-> OutputWords,
                           panics |-> ~(OutputWords \subseteq stored)])
  /\ status' = "ended"
  /\ UNCHANGED <<heapVars, given, mem, todo, made, cut, promised, stored, got, asked,
                 touched, calls>>

\* The host sees the flag before the guest's next instruction.
Halted == status = "running" /\ mem[HaltFlag] # 0 /\ Finish

\* glue::halt, the panic handler and the end of every output call: a self-loop.
Spin == Runs /\ todo = <<>> /\ Finish

Next ==
  \/ \E r \in Requests : Read(r[1], r[2])
  \/ \E p \in Payloads : OutputRaw(p) \/ Output(p) \/ WriteOutput(p)
  \/ \E len \in Lengths : Poke(len)
  \/ SetHalt
  \/ \E l \in Layouts : Allocate(l)
  \/ Store
  \/ CloseSegment
  \/ Halted
  \/ Spin

Spec == Init /\ [][Next]_vars
-----------------------------------------------------------------------------
(***************************************************************************)
(* Properties.                                                             *)
(***************************************************************************)
Final == segs[Len(segs)]

\* glue.rs, lib.rs: a run ends with the payload of the guest's last output call, whole
\* and cut at the region's end, in its last segment, wherever segments were closed
\* between the stores; no other segment shows any of it.
OutputDelivered ==
  /\ status = "ended" /\ promised # <<>> => Final.output = promised[1]
  /\ \A i \in 1 .. Len(segs) - 1 : segs[i].output = <<>> /\ segs[i].words = {}

\* commitment.rs, lib.rs: the words a result lists are exactly those whose final value the
\* commitment leaves to the public data, for every length the guest may leave, and every
\* byte of the output lies in one of them.
WordsAnchored ==
  status = "ended" =>
    /\ Final.words = {a \in 0 .. W - 1 : a % 4 = 0 /\ IsPublicOutputAddr(a)}
    /\ \A i \in DOMAIN Final.output : WordOf(OutputData + i - 1) \in Final.words

\* Stores after which a call has left the first word it makes public behind.
FirstWordDone ==
  IF promised[1] = <<>> THEN made - 1 ELSE Min({4, Len(promised[1])})

\* glue.rs, public_data.rs: the last segment of a run that outputs a payload and halts is
\* refused (PublicData::new panics) exactly when a segment was closed once the call had
\* stored the whole first word of the payload; without such a boundary every
\* published word has a clock.
OutputCut ==
  /\ status = "ended" /\ mem[HaltFlag] # 0 /\ made > 1 /\ promised # <<>>
  => (Final.panics <=> cut >= FirstWordDone)

\* pack_words: the input words the public data emits.
PublishedInput == {IoStart + 4 * k : k \in 0 .. ((Len(given) + 3) \div 4) - 1}

\* io.rs, lib.rs, public_data.rs: a read returns the bytes the host was given, and zeros
\* past their end; and the words the guest loads are the ones the public data emits
\* exactly when it asks for a byte of each of the given words and for nothing past them.
ReadsGiven ==
  status # "too_large" =>
    /\ \A i \in DOMAIN got.bytes :
         got.bytes[i] = IF got.offset + i <= Len(given) THEN given[got.offset + i] ELSE 0
    /\ touched = PublishedInput <=>
         {k \div 4 : k \in asked \cap (0 .. InputLen - 1)}
           = {k \div 4 : k \in 0 .. Len(given) - 1}

-----------------------------------------------------------------------------
(***************************************************************************)
(* What the documentation says and the code does not do.                   *)
(***************************************************************************)
\* heap.rs: the allocator "uses the free space between `__heap_start` (after static data)"
\* and the end of the data region, which the layout the runner commits to stops short of:
\* no word of a block has an initial or a final row.
HeapCommitted ==
  \A i \in DOMAIN blocks :
    \A a \in blocks[i].at .. blocks[i].at + blocks[i].size - 1 : IsRwAddr(a)
=============================================================================
