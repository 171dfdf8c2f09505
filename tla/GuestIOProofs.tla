---------------------------- MODULE GuestIOProofs ----------------------------
(***************************************************************************)
(* Proofs about Heap and GuestIO.                                          *)
(*                                                                         *)
(* The allocator never wraps: NEXT stays in the heap, which ends in the    *)
(* lower half of the addresses, and what a layout adds to it is less than  *)
(* the other half.  So every block begins at or after NEXT, where every    *)
(* earlier one has ended.                                                  *)
(*                                                                         *)
(* The I/O region shows the host what the guest's calls promised: a call's *)
(* stores hit cells of their own, the halt flag last, so that the cells    *)
(* and the stores left together always tell the payload; and no call       *)
(* stores into the input.                                                  *)
(***************************************************************************)
EXTENDS GuestIO, TLAPS

Block == [at : Nat, size : Nat, align : Nat \ {0}]

\* The inductive invariant: AllocSound, and NEXT bounds every block handed out.
HeapInv ==
  /\ next \in Nat
  /\ blocks \in Seq(Block)
  /\ next = 0 => blocks = <<>>
  /\ next # 0 => HeapStart <= next /\ next <= HeapEnd
  /\ \A i \in DOMAIN blocks : blocks[i].at + blocks[i].size <= next
  /\ Aligned
  /\ Disjoint

\* A multiple leaves no remainder.
LEMMA MultipleRemainder ==
  ASSUME NEW m \in Nat \ {0}, NEW q \in Nat
  PROVE  (m * q) % m = 0
<1> DEFINE x == m * q
<1> DEFINE k == x \div m
<1> DEFINE r == x % m
<1>1. x \in Nat
  BY SMT
<1>2. r \in 0 .. m - 1 /\ k \in Nat /\ x = m * k + r
  BY <1>1, SMT
<1>3. x = m * q
  OBVIOUS
<1> HIDE DEF x, k, r
<1>4. q = k
  <2>1. ASSUME q >= k + 1 PROVE FALSE
    <3>1. q - (k + 1) \in Nat
      BY <1>2, <2>1, SMT
    <3>2. m * (q - (k + 1)) \in Nat
      BY <3>1, SMT
    <3>3. m * q = m * (q - (k + 1)) + m * k + m
      BY <1>2, <3>1, SMT
    <3> QED BY <1>1, <1>2, <1>3, <3>2, <3>3, SMT
  <2>2. ASSUME k >= q + 1 PROVE FALSE
    <3>1. k - (q + 1) \in Nat
      BY <1>2, <2>2, SMT
    <3>2. m * (k - (q + 1)) \in Nat
      BY <3>1, SMT
    <3>3. m * k = m * (k - (q + 1)) + m * q + m
      BY <1>2, <3>1, SMT
    <3> QED BY <1>1, <1>2, <1>3, <3>2, <3>3, SMT
  <2> QED BY <1>2, <2>1, <2>2, SMT
<1>5. r = 0
  BY <1>2, <1>3, <1>4, SMT
<1> QED BY <1>5 DEF x, r

\* What is taken off a number to round it down leaves a multiple.
LEMMA RoundDown ==
  ASSUME NEW a \in Nat, NEW m \in Nat \ {0}
  PROVE  /\ a % m \in 0 .. m - 1
         /\ a - (a % m) \in Nat
         /\ (a - (a % m)) % m = 0
<1>1. a % m \in 0 .. m - 1 /\ a \div m \in Nat /\ a = m * (a \div m) + (a % m)
  BY SMT
<1>2. a - (a % m) = m * (a \div m)
  BY <1>1, SMT
<1>3. (m * (a \div m)) % m = 0
  BY <1>1, MultipleRemainder
<1> QED BY <1>1, <1>2, <1>3

\* AlignUp reaches the next multiple when the sum does not wrap.
LEMMA AlignUpBounds ==
  ASSUME NEW a \in Nat, NEW m \in Nat \ {0}, W \in Nat, a + (m - 1) < W
  PROVE  /\ AlignUp(a, m) \in Nat
         /\ a <= AlignUp(a, m)
         /\ AlignUp(a, m) <= a + (m - 1)
         /\ AlignUp(a, m) % m = 0
<1> DEFINE top == a + (m - 1)
<1>1. top \in Nat /\ top % W = top
  BY SMT
<1>2. AlignUp(a, m) = top - (top % m)
  BY <1>1 DEF AlignUp
<1>3. top % m \in 0 .. m - 1 /\ top - (top % m) \in Nat /\ (top - (top % m)) % m = 0
  BY <1>1, RoundDown
<1> HIDE DEF top
<1>4. top = a + (m - 1)
  BY DEF top
<1> QED BY <1>1, <1>2, <1>3, <1>4, SMT

\* A block handed out lies at or after the first free address and in the heap, and
\* nothing wraps on the way.
LEMMA AllocBounds ==
  ASSUME HeapInv, NEW l \in Layouts,
         ((AlignUp(Free, l.align) + l.size) % W) <= HeapEnd
  PROVE  /\ l \in [size : Nat, align : Nat \ {0}]
         /\ AlignUp(Free, l.align) \in Nat
         /\ AlignUp(Free, l.align) % l.align = 0
         /\ HeapStart <= AlignUp(Free, l.align)
         /\ next <= AlignUp(Free, l.align)
         /\ (AlignUp(Free, l.align) + l.size) % W = AlignUp(Free, l.align) + l.size
<1>1. l \in [size : Nat, align : Nat \ {0}] /\ 2 * (l.size + l.align - 1) < W
  BY HeapAssumption
<1>2. l.size \in Nat /\ l.align \in Nat /\ l.align # 0 /\ l.align \in Nat \ {0}
  BY <1>1
<1>3. /\ Free \in Nat /\ HeapStart <= Free /\ next <= Free /\ 2 * Free <= W
  BY HeapAssumption DEF HeapInv, Free
<1>4. W \in Nat /\ W # 0 /\ Free + (l.align - 1) < W
  BY <1>1, <1>2, <1>3, HeapAssumption
<1> DEFINE at == AlignUp(Free, l.align)
<1>5. at \in Nat /\ Free <= at /\ at <= Free + (l.align - 1) /\ at % l.align = 0
  BY <1>2, <1>3, <1>4, AlignUpBounds
<1> HIDE DEF at
<1>6. at + l.size < W /\ at + l.size \in Nat
  BY <1>1, <1>2, <1>3, <1>4, <1>5
<1>7. (at + l.size) % W = at + l.size
  BY <1>4, <1>6
<1>8. HeapStart \in Nat /\ next \in Nat
  BY HeapAssumption DEF HeapInv
<1>9. HeapStart <= at /\ next <= at
  BY <1>3, <1>5, <1>8
<1> QED BY <1>1, <1>5, <1>7, <1>9 DEF at

\* One allocation keeps the invariant.
LEMMA AllocKeeps ==
  ASSUME HeapInv, NEW l \in Layouts, Alloc(l)
  PROVE  HeapInv'
<1> DEFINE at == AlignUp(Free, l.align)
<1> DEFINE b == [at |-> at, size |-> l.size, align |-> l.align]
<1>1. CASE (at + l.size) % W > HeapEnd
  BY <1>1 DEF Alloc, HeapInv, heapVars, Aligned, Disjoint
<1>2. CASE ~((at + l.size) % W > HeapEnd)
  <2>0. W \in Nat /\ W # 0 /\ HeapEnd \in Nat /\ HeapStart \in Nat /\ HeapStart # 0
    BY HeapAssumption
  <2>1. next' = (at + l.size) % W /\ blocks' = Append(blocks, b)
    BY <1>2 DEF Alloc
  <2>2. ((at + l.size) % W) <= HeapEnd
    <3>1. at \in Nat /\ l.size \in Nat
      <4>1. l.size \in Nat /\ l.align \in Nat \ {0} /\ Free \in Nat
        BY HeapAssumption DEF HeapInv, Free
      <4>2. (Free + (l.align - 1)) \in Nat
        BY <4>1
      <4>3. ((Free + (l.align - 1)) % W) \in Nat
        BY <4>2, <2>0
      <4> QED BY <4>1, <4>3, RoundDown DEF AlignUp
    <3>2. ((at + l.size) % W) \in Nat
      BY <3>1, <2>0
    <3> QED BY <1>2, <2>0, <3>2
  <2>3. /\ l \in [size : Nat, align : Nat \ {0}]
        /\ at \in Nat /\ at % l.align = 0
        /\ HeapStart <= at /\ next <= at
        /\ (at + l.size) % W = at + l.size
    BY <2>2, AllocBounds
  <2> HIDE DEF at
  <2>4. b \in Block /\ b.at = at /\ b.size = l.size /\ b.align = l.align
    BY <2>3 DEF Block
  <2> HIDE DEF b
  <2>5. next' = at + l.size /\ at + l.size <= HeapEnd
    BY <2>1, <2>2, <2>3
  <2>6. blocks \in Seq(Block) /\ next \in Nat
    BY DEF HeapInv
  <2>7. /\ blocks' \in Seq(Block)
        /\ Len(blocks') = Len(blocks) + 1
        /\ DOMAIN blocks' = 1 .. Len(blocks) + 1
        /\ DOMAIN blocks = 1 .. Len(blocks)
        /\ blocks'[Len(blocks) + 1] = b
        /\ \A i \in DOMAIN blocks : blocks'[i] = blocks[i]
    BY <2>1, <2>4, <2>6
  <2>8. \A i \in DOMAIN blocks : blocks[i].at \in Nat /\ blocks[i].size \in Nat
    <3>1. \A i \in DOMAIN blocks : blocks[i] \in Block
      BY <2>6
    <3> QED BY <3>1 DEF Block
  <2>9. \A i \in DOMAIN blocks : blocks[i].at + blocks[i].size <= next
    BY DEF HeapInv
  <2>10. next' \in Nat /\ next' # 0 /\ HeapStart <= next' /\ next' <= HeapEnd
    BY <2>0, <2>3, <2>4, <2>5
  <2>11. ASSUME NEW i \in DOMAIN blocks'
         PROVE  blocks'[i].at + blocks'[i].size <= next'
    <3>1. CASE i \in DOMAIN blocks
      BY <3>1, <2>3, <2>4, <2>5, <2>6, <2>7, <2>8, <2>9
    <3>2. CASE i = Len(blocks) + 1
      BY <3>2, <2>3, <2>4, <2>5, <2>7
    <3> QED BY <2>7, <3>1, <3>2
  <2>12. Aligned'
    <3>1. ASSUME NEW i \in DOMAIN blocks'
          PROVE  blocks'[i].at % blocks'[i].align = 0
      <4>1. CASE i \in DOMAIN blocks
        BY <4>1, <2>7 DEF HeapInv, Aligned
      <4>2. CASE i = Len(blocks) + 1
        BY <4>2, <2>3, <2>4, <2>7
      <4> QED BY <2>7, <4>1, <4>2
    <3> QED BY <3>1 DEF Aligned
  <2>13. Disjoint'
    <3>1. ASSUME NEW i \in DOMAIN blocks'
          PROVE  /\ HeapStart <= blocks'[i].at
                 /\ blocks'[i].at + blocks'[i].size <= HeapEnd
                 /\ \A j \in 1 .. i - 1 :
                      blocks'[j].at + blocks'[j].size <= blocks'[i].at
      <4>1. CASE i \in DOMAIN blocks
        <5>1. \A j \in 1 .. i - 1 : j \in DOMAIN blocks /\ blocks'[j] = blocks[j]
          BY <4>1, <2>6, <2>7
        <5> QED BY <4>1, <5>1, <2>7 DEF HeapInv, Disjoint
      <4>2. CASE i = Len(blocks) + 1
        <5>1. \A j \in 1 .. i - 1 : j \in DOMAIN blocks /\ blocks'[j] = blocks[j]
          BY <4>2, <2>6, <2>7
        <5>2. \A j \in 1 .. i - 1 : blocks[j].at + blocks[j].size <= at
          BY <5>1, <2>3, <2>6, <2>8, <2>9
        <5> QED BY <4>2, <5>1, <5>2, <2>3, <2>4, <2>5, <2>7
      <4> QED BY <2>7, <4>1, <4>2
    <3> QED BY <3>1 DEF Disjoint
  <2> QED BY <2>7, <2>10, <2>11, <2>12, <2>13 DEF HeapInv
<1> QED BY <1>1, <1>2

\* Every step of the guest and its host keeps the allocator's invariant.
LEMMA HeapInvStep ==
  ASSUME HeapInv, [Next]_vars
  PROVE  HeapInv'
<1>1. CASE \E l \in Layouts : Alloc(l)
  BY <1>1, AllocKeeps
<1>2. CASE UNCHANGED heapVars
  BY <1>2 DEF HeapInv, heapVars, Aligned, Disjoint
<1>3. (\E l \in Layouts : Alloc(l)) \/ UNCHANGED heapVars
  BY DEF Next, vars, heapVars, Read, OutputRaw, Output, WriteOutput, Poke, SetHalt,
         StartCall, Allocate, Store, CloseSegment, Halted, Spin, Finish
<1> QED BY <1>1, <1>2, <1>3

\* heap.rs: whatever the heap's bounds, the width of an address and the layouts asked for,
\* the blocks the allocator hands out are aligned, inside the heap and apart.
THEOREM BlocksApart == Spec => []AllocSound
<1>1. Init => HeapInv
  BY HeapAssumption DEF Init, HeapInit, HeapInv, Aligned, Disjoint
<1>2. HeapInv /\ [Next]_vars => HeapInv'
  BY HeapInvStep
<1>3. HeapInv => AllocSound
  BY DEF HeapInv, AllocSound
<1> QED BY <1>1, <1>2, <1>3, PTL DEF Spec

-----------------------------------------------------------------------------
(***************************************************************************)
(* The I/O region.  What a call has promised is in the region or among the *)
(* stores it has still to make (Kept); the flag that lets the host look is *)
(* the last of them.                                                       *)
(***************************************************************************)
\* The cells a guest stores to.
Target == {HaltFlag, OutputLen} \cup DataAddr

Cell == InputAddr \cup Target

\* The stores of a call: lengths fit a word, and none follows the flag.
Stores(s) ==
  /\ s \in Seq(Target \X Nat)
  /\ \A j \in DOMAIN s : /\ s[j][1] = OutputLen => s[j][2] < W
                         /\ s[j][1] = HaltFlag => j = Len(s)

Result == [output : Seq(Nat), words : SUBSET Nat, panics : BOOLEAN]

IoType ==
  /\ given \in Inputs
  /\ mem \in [Cell -> Nat] /\ mem[OutputLen] < W
  /\ Stores(todo)
  /\ made \in Nat /\ cut \in Nat
  /\ got \in [offset : Nat, bytes : Seq(Nat)]
  /\ asked \subseteq Nat
  /\ segs \in Seq(Result)
  /\ status \in {"too_large", "running", "ended"}
  /\ mem[HaltFlag] # 0 => todo = <<>>

\* Once the stores s are made, cell a holds v.
Will(m, s, a, v) ==
  /\ \A j \in DOMAIN s : s[j][1] = a => s[j][2] = v
  /\ m[a] = v \/ \E j \in DOMAIN s : s[j][1] = a

Kept(m, s, p) ==
  /\ Will(m, s, OutputLen, Len(p))
  /\ \A i \in DOMAIN p : Will(m, s, OutputData + i - 1, p[i])

Payload == {p \in Seq(Byte) : Len(p) <= Capacity}

Promised ==
  \/ promised = <<>>
  \/ \E p \in Payload : promised = <<p>> /\ Kept(mem, todo, p)

Interior == [output |-> <<>>, words |-> {}, panics |-> FALSE]

\* Only the segment that ends a run shows what the region holds.
Reported ==
  /\ \A i \in DOMAIN segs : segs[i] = Interior \/ (status = "ended" /\ i = Len(segs))
  /\ status = "ended" =>
       /\ todo = <<>> /\ segs # <<>>
       /\ Final = [output |-> ReadOutput, words |-> OutputWords,
                   panics |-> ~(OutputWords \subseteq stored)]

GivenByte(k) == IF k < Len(given) THEN given[k + 1] ELSE 0

\* The input stays as it was given, and what was read of it is known.
Untouched ==
  status # "too_large" =>
    /\ \A a \in InputAddr : mem[a] = GivenByte(a - IoStart)
    /\ \A i \in DOMAIN got.bytes : got.bytes[i] = GivenByte(got.offset + i - 1)

InputOffset == 0 .. InputLen - 1

\* The word of the input that offset k falls in.
Loaded(k) == IoStart + 4 * (k \div 4)

Touched == touched = {Loaded(k) : k \in asked \cap InputOffset}

\* The call is an output call that stores q, the length of p and the flag: how far it is,
\* and what of it the current segment holds.
Outputs(p, q) ==
  LET all == OutputStores(q, Len(p))
  IN  /\ made + Len(todo) = Len(all)
      /\ \A j \in DOMAIN todo : todo[j] = all[made + j]
      /\ mem[HaltFlag] # 0 <=> made = Len(all)
      /\ cut <= made /\ cut < Len(all)
      /\ \A j \in cut + 1 .. made : WordOf(all[j][1]) \in stored
      /\ cut > 0 => stored \subseteq {WordOf(all[j][1]) : j \in cut + 1 .. made}

\* Whoever sets the flag after a promise does nothing else, or is an output call.
Calling ==
  \/ promised = <<>>
  \/ mem[HaltFlag] = 0 /\ \A j \in DOMAIN todo : todo[j][1] # HaltFlag
  \/ made + Len(todo) <= 1
  \/ \E p, q \in Payload : promised = <<p>> /\ (q = p \/ p = <<>>) /\ Outputs(p, q)

IoInv ==
  /\ IoType
  /\ Promised
  /\ Reported
  /\ Untouched
  /\ Touched
  /\ Calling

\* linker.ld: the region's parts are apart, word-aligned where they begin, and end before
\* the last address, so that rounding up an end does not wrap.
LEMMA Region ==
  /\ IoStart \in Nat /\ InputLen \in Nat /\ W \in Nat
  /\ HaltFlag \in Nat /\ OutputLen \in Nat /\ OutputData \in Nat /\ OutputEnd \in Nat
  /\ HaltFlag = IoStart + InputLen
  /\ OutputLen = HaltFlag + 4 /\ OutputData = OutputLen + 4
  /\ Capacity \in Nat /\ OutputData + Capacity = OutputEnd
  /\ OutputEnd + 3 < W
  /\ IoStart % 4 = 0 /\ HaltFlag % 4 = 0 /\ OutputLen % 4 = 0 /\ OutputData % 4 = 0
<1>1. /\ IoStart \in Nat /\ InputLen \in Nat /\ StackBottom \in Nat /\ StackTop \in Nat
      /\ DataEnd \in Nat /\ HeapStart \in Nat /\ HeapEnd \in Nat /\ W \in Nat
      /\ IoStart % 4 = 0 /\ InputLen % 4 = 0
  BY LinkerAssumption, HeapAssumption
<1>2. /\ HaltFlag = IoStart + InputLen /\ OutputLen = HaltFlag + 4
      /\ OutputData = OutputLen + 4 /\ OutputEnd = StackBottom
  BY <1>1 DEF HaltFlag, InputEnd, OutputLen, OutputData, OutputEnd
<1>3. /\ StackBottom <= HeapEnd /\ 2 * HeapEnd <= W /\ OutputData <= OutputEnd
  BY <1>1, LinkerAssumption, HeapAssumption
<1>4. OutputEnd + 3 < W
  BY <1>1, <1>2, <1>3
<1>5. HaltFlag % 4 = 0 /\ OutputLen % 4 = 0 /\ OutputData % 4 = 0
  BY <1>1, <1>2
<1>6. Capacity \in Nat /\ OutputData + Capacity = OutputEnd
  BY <1>1, <1>2, <1>3 DEF Capacity
<1> QED BY <1>1, <1>2, <1>4, <1>5, <1>6

LEMMA Cells ==
  /\ HaltFlag # OutputLen
  /\ \A a \in DataAddr : a \in Nat /\ a # HaltFlag /\ a # OutputLen
  /\ \A a \in InputAddr : a \in Nat /\ a \notin Target
  /\ InputAddr \subseteq Cell /\ Target \subseteq Cell /\ Target \subseteq Nat
  /\ HaltFlag \in Cell /\ OutputLen \in Cell /\ DataAddr \subseteq Cell
BY Region DEF Target, Cell, InputAddr, DataAddr, InputEnd, HaltFlag

\* The words that addresses fall in.
LEMMA Words ==
  ASSUME NEW a \in Nat
  PROVE  /\ WordOf(a) \in Nat /\ WordOf(a) <= a /\ a < WordOf(a) + 4
         /\ WordOf(a) % 4 = 0
         /\ a % 4 = 0 => WordOf(a) = a
         /\ \A b \in Nat : b % 4 = 0 /\ b <= a => b <= WordOf(a)
<1>1. WordOf(a) = a - (a % 4) /\ a % 4 \in 0 .. 3
  BY DEF WordOf
<1>2. WordOf(a) % 4 = 0
  <2>1. 4 \in Nat \ {0}
    OBVIOUS
  <2>2. (a - (a % 4)) % 4 = 0
    BY <2>1, RoundDown
  <2> QED BY <2>2 DEF WordOf
<1>3. \A b \in Nat : b % 4 = 0 /\ b <= a => b <= WordOf(a)
  BY <1>1
<1> QED BY <1>1, <1>2, <1>3

LEMMA MinTwo ==
  ASSUME NEW a \in Nat, NEW b \in Nat
  PROVE  Min({a, b}) = IF a <= b THEN a ELSE b
<1>1. \E x \in {a, b} : \A y \in {a, b} : x <= y
  OBVIOUS
<1>2. Min({a, b}) \in {a, b} /\ \A y \in {a, b} : Min({a, b}) <= y
  BY <1>1 DEF Min
<1> QED BY <1>2

\* What of a payload fits, and any part of that, is one.
LEMMA Fits ==
  ASSUME NEW p \in Seq(Byte)
  PROVE  /\ Truncated(p) \in Payload
         /\ \A n \in 0 .. Len(Truncated(p)) : SubSeq(p, 1, n) \in Payload
<1>1. PICK k \in Nat : k = Min({Len(p), Capacity})
  BY Region, MinTwo
<1>2. k <= Len(p) /\ k <= Capacity
  BY <1>1, Region, MinTwo
<1>3. \A n \in 0 .. k : SubSeq(p, 1, n) \in Seq(Byte) /\ Len(SubSeq(p, 1, n)) = n
  BY <1>2
<1>4. Truncated(p) = SubSeq(p, 1, k)
  BY <1>1 DEF Truncated
<1>5. k \in 0 .. k /\ Truncated(p) \in Seq(Byte) /\ Len(Truncated(p)) = k
  BY <1>3, <1>4
<1>6. \A n \in 0 .. k : SubSeq(p, 1, n) \in Payload
  <2>1. ASSUME NEW n \in 0 .. k PROVE n <= Capacity
    BY <1>2, Region
  <2> QED BY <2>1, <1>3 DEF Payload
<1> QED BY <1>4, <1>5, <1>6

\* Two sequences, one after the other.
LEMMA Joined ==
  ASSUME NEW S, NEW a \in Seq(S), NEW b \in Seq(S), NEW c, c = a \o b
  PROVE  /\ c \in Seq(S) /\ Len(c) = Len(a) + Len(b)
         /\ \A i \in 1 .. Len(a) : c[i] = a[i]
         /\ \A i \in 1 .. Len(b) : c[Len(a) + i] = b[i]
OBVIOUS

\* The stores of a payload: its bytes, each at its address.
LEMMA BytesFields ==
  ASSUME NEW q \in Payload
  PROVE  /\ Bytes(q) \in Seq(DataAddr \X Nat)
         /\ Len(Bytes(q)) = Len(q)
         /\ \A i \in 1 .. Len(q) : /\ Bytes(q)[i] = <<OutputData + i - 1, q[i]>>
                                   /\ OutputData + i - 1 \in DataAddr /\ q[i] \in Nat
<1>1. q \in Seq(Byte) /\ Len(q) <= Capacity /\ Len(q) \in Nat /\ DOMAIN q = 1 .. Len(q)
  BY DEF Payload
<1>2. \A i \in 1 .. Len(q) : OutputData + i - 1 \in DataAddr
  BY <1>1, Region DEF DataAddr
<1>3. \A i \in 1 .. Len(q) : q[i] \in Nat
  <2>1. \A i \in 1 .. Len(q) : q[i] \in Byte
    BY <1>1
  <2>2. Byte \subseteq Nat
    BY DEF Byte
  <2> QED BY <2>1, <2>2
<1>4. Bytes(q) = [i \in 1 .. Len(q) |-> <<OutputData + i - 1, q[i]>>]
  BY <1>1 DEF Bytes
<1>5. \A i \in 1 .. Len(q) : <<OutputData + i - 1, q[i]>> \in DataAddr \X Nat
  BY <1>2, <1>3
<1> QED BY <1>1, <1>2, <1>3, <1>4, <1>5

\* output and output_raw: the flag comes last.
LEMMA OutputFields ==
  ASSUME NEW q \in Payload, NEW len \in Nat, len < W, NEW s, s = OutputStores(q, len)
  PROVE  /\ Stores(s)
         /\ Len(s) = Len(q) + 2
         /\ \A i \in 1 .. Len(q) : s[i] = <<OutputData + i - 1, q[i]>>
         /\ s[Len(q) + 1] = <<OutputLen, len>>
         /\ s[Len(q) + 2] = <<HaltFlag, 1>>
<1> DEFINE tail == <<<<OutputLen, len>>, <<HaltFlag, 1>>>>
<1>1. s = Bytes(q) \o tail
  BY DEF OutputStores
<1>2. tail \in Seq(Target \X Nat) /\ Len(tail) = 2
      /\ tail[1] = <<OutputLen, len>> /\ tail[2] = <<HaltFlag, 1>>
  BY DEF Target
<1>3. Bytes(q) \in Seq(Target \X Nat) /\ Len(Bytes(q)) = Len(q) /\ Len(q) \in Nat
  <2>1. DataAddr \X Nat \subseteq Target \X Nat
    BY DEF Target
  <2> QED BY <2>1, BytesFields DEF Payload
<1> HIDE DEF tail
<1>4. /\ s \in Seq(Target \X Nat) /\ Len(s) = Len(Bytes(q)) + Len(tail)
      /\ \A i \in 1 .. Len(Bytes(q)) : s[i] = Bytes(q)[i]
      /\ \A i \in 1 .. Len(tail) : s[Len(Bytes(q)) + i] = tail[i]
  <2>1. tail \in Seq(Target \X Nat) /\ Bytes(q) \in Seq(Target \X Nat)
    BY <1>2, <1>3
  <2> QED BY <2>1, <1>1, Joined
<1>5. s \in Seq(Target \X Nat) /\ Len(s) = Len(q) + 2
  BY <1>4, <1>2, <1>3
<1>6. \A i \in 1 .. Len(q) : s[i] = <<OutputData + i - 1, q[i]>>
  BY <1>4, <1>3, BytesFields
<1>7. s[Len(q) + 1] = <<OutputLen, len>> /\ s[Len(q) + 2] = <<HaltFlag, 1>>
  BY <1>4, <1>2, <1>3
<1>8. ASSUME NEW j \in DOMAIN s
      PROVE  /\ s[j][1] = OutputLen => s[j][2] < W
             /\ s[j][1] = HaltFlag => j = Len(s)
  <2>1. CASE j \in 1 .. Len(q)
    <3>1. s[j][1] \in DataAddr
      BY <2>1, <1>6, BytesFields
    <3> QED BY <3>1, Cells
  <2>2. CASE j = Len(q) + 1
    BY <2>2, <1>7, Cells
  <2>3. CASE j = Len(q) + 2
    BY <2>3, <1>5, <1>7, Cells
  <2>4. j \in 1 .. Len(q) + 2 /\ Len(q) \in Nat
    BY <1>3, <1>5
  <2> QED BY <2>1, <2>2, <2>3, <2>4
<1> QED BY <1>3, <1>5, <1>6, <1>7, <1>8 DEF Stores

\* write_output_bytes: the length comes first, and there is no flag.
LEMMA WriteFields ==
  ASSUME NEW q \in Payload, NEW s, s = <<<<OutputLen, Len(q)>>>> \o Bytes(q)
  PROVE  /\ Stores(s)
         /\ Len(s) = Len(q) + 1
         /\ s[1] = <<OutputLen, Len(q)>>
         /\ \A i \in 1 .. Len(q) : s[i + 1] = <<OutputData + i - 1, q[i]>>
         /\ \A j \in DOMAIN s : s[j][1] # HaltFlag
<1> DEFINE head == <<<<OutputLen, Len(q)>>>>
<1>1. s = head \o Bytes(q)
  OBVIOUS
<1>2. Len(q) \in Nat /\ Len(q) < W
  BY Region DEF Payload
<1>3. head \in Seq(Target \X Nat) /\ Len(head) = 1 /\ head[1] = <<OutputLen, Len(q)>>
  BY <1>2 DEF Target
<1>4. Bytes(q) \in Seq(Target \X Nat) /\ Len(Bytes(q)) = Len(q)
  <2>1. DataAddr \X Nat \subseteq Target \X Nat
    BY DEF Target
  <2> QED BY <2>1, BytesFields DEF Payload
<1> HIDE DEF head
<1>5. s \in Seq(Target \X Nat) /\ Len(s) = Len(q) + 1
  BY <1>1, <1>2, <1>3, <1>4
<1>6. s[1] = <<OutputLen, Len(q)>>
  BY <1>1, <1>2, <1>3, <1>4
<1>7. \A i \in 1 .. Len(q) : s[i + 1] = <<OutputData + i - 1, q[i]>>
  BY <1>1, <1>2, <1>3, <1>4, BytesFields
<1>8. ASSUME NEW j \in DOMAIN s
      PROVE  /\ s[j][1] = OutputLen => s[j][2] < W
             /\ s[j][1] # HaltFlag
  <2>1. CASE j = 1
    BY <2>1, <1>2, <1>6, Cells
  <2>2. CASE j # 1
    <3>1. PICK i \in 1 .. Len(q) : j = i + 1
      <4>1. j - 1 \in 1 .. Len(q) /\ j = (j - 1) + 1
        BY <2>2, <1>2, <1>5
      <4> QED BY <4>1
    <3>2. s[j][1] \in DataAddr
      BY <3>1, <1>7, BytesFields
    <3> QED BY <3>2, Cells
  <2> QED BY <2>1, <2>2
<1> QED BY <1>5, <1>6, <1>7, <1>8 DEF Stores

\* A call begins: what it is to store settles what it promises.
LEMMA StartCallStep ==
  ASSUME IoInv, NEW s, NEW p, StartCall(s, p), Stores(s),
         p = <<>> \/ \E q \in Payload : p = <<q>> /\ Kept(mem, s, q),
         \/ p = <<>>
         \/ \A j \in DOMAIN s : s[j][1] # HaltFlag
         \/ Len(s) <= 1
         \/ \E q, r \in Payload : /\ p = <<q>> /\ (r = q \/ q = <<>>)
                                  /\ s = OutputStores(r, Len(q))
  PROVE  IoInv'
<1>1. /\ status = "running" /\ mem[HaltFlag] = 0
      /\ todo' = s /\ made' = 0 /\ cut' = 0 /\ promised' = p
      /\ UNCHANGED <<given, mem, stored, got, asked, touched, segs, status>>
  BY DEF StartCall, Calls, Runs
<1>2. IoType'
  BY <1>1 DEF IoInv, IoType
<1>3. Promised'
  <2>1. CASE p = <<>>
    BY <2>1, <1>1 DEF Promised
  <2>2. ASSUME NEW q \in Payload, p = <<q>>, Kept(mem, s, q) PROVE Promised'
    <3>1. Kept(mem', todo', q)
      BY <2>2, <1>1
    <3> QED BY <2>2, <3>1, <1>1 DEF Promised
  <2> QED BY <2>1, <2>2
<1>4. Reported'
  BY <1>1 DEF IoInv, Reported
<1>5. Untouched' /\ Touched'
  BY <1>1 DEF IoInv, Untouched, GivenByte, Touched
<1>6. Calling'
  <2>1. CASE p = <<>>
    BY <2>1, <1>1 DEF Calling
  <2>2. CASE \A j \in DOMAIN s : s[j][1] # HaltFlag
    BY <2>2, <1>1 DEF Calling
  <2>3. CASE Len(s) <= 1
    <3>1. made' + Len(todo') <= 1
      BY <2>3, <1>1 DEF Stores
    <3> QED BY <3>1 DEF Calling
  <2>4. ASSUME NEW q \in Payload, NEW r \in Payload, p = <<q>>, r = q \/ q = <<>>,
               s = OutputStores(r, Len(q))
        PROVE  Calling'
    <3>1. Len(q) \in Nat /\ Len(q) < W /\ Len(r) \in Nat
      BY Region DEF Payload
    <3>2. Len(s) = Len(r) + 2
      BY <2>4, <3>1, OutputFields
    <3>3. Outputs(q, r)'
      BY <1>1, <2>4, <3>1, <3>2 DEF Outputs
    <3> QED BY <1>1, <2>4, <3>3 DEF Calling
  <2> QED BY <2>1, <2>2, <2>3, <2>4
<1> QED BY <1>2, <1>3, <1>4, <1>5, <1>6 DEF IoInv

\* An output call keeps what it promises: all of p, if the length it stores is that of p.
LEMMA OutputKept ==
  ASSUME NEW p \in Payload, NEW q \in Payload, p = q \/ p = <<>>
  PROVE  Kept(mem, OutputStores(q, Len(p)), p)
<1>1. PICK s : s = OutputStores(q, Len(p))
  OBVIOUS
<1>2. /\ Len(p) \in Nat /\ Len(p) < W /\ Len(q) \in Nat
      /\ DOMAIN p = 1 .. Len(p) /\ DOMAIN q = 1 .. Len(q)
  BY Region DEF Payload
<1>3. /\ s \in Seq(Target \X Nat) /\ Len(s) = Len(q) + 2
      /\ \A i \in 1 .. Len(q) : s[i] = <<OutputData + i - 1, q[i]>>
      /\ s[Len(q) + 1] = <<OutputLen, Len(p)>>
      /\ s[Len(q) + 2] = <<HaltFlag, 1>>
  <2>1. PICK len \in Nat : len = Len(p)
    BY <1>2
  <2>2. /\ Stores(s) /\ Len(s) = Len(q) + 2
        /\ \A i \in 1 .. Len(q) : s[i] = <<OutputData + i - 1, q[i]>>
        /\ s[Len(q) + 1] = <<OutputLen, len>>
        /\ s[Len(q) + 2] = <<HaltFlag, 1>>
    BY <1>1, <1>2, <2>1, OutputFields
  <2> QED BY <2>1, <2>2 DEF Stores
<1>4. DOMAIN s = 1 .. Len(q) + 2
  BY <1>2, <1>3
<1>5. ASSUME NEW j \in 1 .. Len(q)
      PROVE  s[j][1] \in DataAddr /\ s[j][1] = OutputData + j - 1 /\ s[j][2] = q[j]
  BY <1>3, BytesFields
<1>6. Will(mem, s, OutputLen, Len(p))
  <2>1. ASSUME NEW j \in DOMAIN s, s[j][1] = OutputLen PROVE s[j][2] = Len(p)
    <3>1. j \notin 1 .. Len(q)
      BY <1>5, <2>1, Cells
    <3>2. j = Len(q) + 1
      BY <1>2, <1>3, <1>4, <2>1, <3>1, Cells
    <3> QED BY <1>3, <3>2
  <2>2. Len(q) + 1 \in DOMAIN s /\ s[Len(q) + 1][1] = OutputLen
    BY <1>2, <1>3, <1>4
  <2> QED BY <2>1, <2>2 DEF Will
<1>7. ASSUME NEW i \in DOMAIN p PROVE Will(mem, s, OutputData + i - 1, p[i])
  <2>1. p = q /\ i \in 1 .. Len(q)
    BY <1>2
  <2>2. OutputData + i - 1 \in DataAddr /\ s[i][1] = OutputData + i - 1 /\ s[i][2] = p[i]
    BY <1>5, <2>1
  <2>3. ASSUME NEW j \in DOMAIN s, s[j][1] = OutputData + i - 1 PROVE s[j][2] = p[i]
    <3>1. j \in 1 .. Len(q)
      BY <1>2, <1>3, <1>4, <2>2, <2>3, Cells
    <3>2. j = i
      <4>1. OutputData + j - 1 = OutputData + i - 1
        BY <1>5, <2>3, <3>1
      <4> QED BY <4>1, <1>2, <2>1, <3>1, Region
    <3> QED BY <2>2, <3>2
  <2>4. i \in DOMAIN s
    BY <1>2, <1>4, <2>1
  <2> QED BY <2>2, <2>3, <2>4 DEF Will
<1> QED BY <1>1, <1>6, <1>7 DEF Kept

LEMMA WriteKept ==
  ASSUME NEW p \in Payload
  PROVE  Kept(mem, <<<<OutputLen, Len(p)>>>> \o Bytes(p), p)
<1>1. PICK s : s = <<<<OutputLen, Len(p)>>>> \o Bytes(p)
  OBVIOUS
<1>2. Len(p) \in Nat /\ DOMAIN p = 1 .. Len(p)
  BY DEF Payload
<1>3. /\ s \in Seq(Target \X Nat) /\ Len(s) = Len(p) + 1
      /\ s[1] = <<OutputLen, Len(p)>>
      /\ \A i \in 1 .. Len(p) : s[i + 1] = <<OutputData + i - 1, p[i]>>
  BY <1>1, WriteFields DEF Stores
<1>4. DOMAIN s = 1 .. Len(p) + 1
  BY <1>2, <1>3
<1>5. ASSUME NEW j \in DOMAIN s
      PROVE  j = 1 \/ /\ j - 1 \in 1 .. Len(p) /\ s[j][1] \in DataAddr
                      /\ s[j][1] = OutputData + (j - 1) - 1 /\ s[j][2] = p[j - 1]
  <2>1. CASE j = 1
    BY <2>1
  <2>2. CASE j # 1
    <3>1. j - 1 \in 1 .. Len(p) /\ j = (j - 1) + 1
      BY <1>2, <1>4, <2>2
    <3>2. s[j] = <<OutputData + (j - 1) - 1, p[j - 1]>>
      BY <1>3, <3>1
    <3> QED BY <3>1, <3>2, BytesFields
  <2> QED BY <2>1, <2>2
<1>6. Will(mem, s, OutputLen, Len(p))
  <2>1. 1 \in DOMAIN s /\ s[1][1] = OutputLen /\ s[1][2] = Len(p)
    BY <1>2, <1>3, <1>4
  <2>2. ASSUME NEW j \in DOMAIN s, s[j][1] = OutputLen PROVE s[j][2] = Len(p)
    BY <1>5, <2>1, <2>2, Cells
  <2> QED BY <2>1, <2>2 DEF Will
<1>7. ASSUME NEW i \in DOMAIN p PROVE Will(mem, s, OutputData + i - 1, p[i])
  <2>1. i \in 1 .. Len(p) /\ i + 1 \in DOMAIN s /\ OutputData + i - 1 \in DataAddr
    BY <1>2, <1>4, BytesFields
  <2>2. s[i + 1][1] = OutputData + i - 1 /\ s[i + 1][2] = p[i]
    BY <1>3, <2>1
  <2>3. ASSUME NEW j \in DOMAIN s, s[j][1] = OutputData + i - 1 PROVE s[j][2] = p[i]
    <3>1. j # 1
      BY <1>3, <2>1, <2>3, Cells
    <3>2. /\ j - 1 \in 1 .. Len(p) /\ s[j][1] = OutputData + (j - 1) - 1
          /\ s[j][2] = p[j - 1]
      BY <1>5, <3>1
    <3>3. j - 1 = i
      BY <2>1, <2>3, <3>2, Region
    <3> QED BY <3>2, <3>3
  <2> QED BY <2>1, <2>2, <2>3 DEF Will
<1> QED BY <1>1, <1>6, <1>7 DEF Kept

\* Every call that stores, with what it promises.
LEMMA OutputRawStep ==
  ASSUME IoInv, NEW p \in Payloads, OutputRaw(p)
  PROVE  IoInv'
<1>1. PICK q : q = Truncated(p)
  OBVIOUS
<1>2. q \in Payload
  BY <1>1, CallAssumption, Fits
<1>3. PICK s : s = OutputStores(q, Len(q))
  OBVIOUS
<1>4. StartCall(s, <<q>>)
  BY <1>1, <1>3 DEF OutputRaw
<1>5. Len(q) \in Nat /\ Len(q) < W
  BY <1>2, Region DEF Payload
<1>6. Stores(s)
  BY <1>2, <1>3, <1>5, OutputFields
<1>7. Kept(mem, s, q)
  BY <1>2, <1>3, OutputKept
<1> QED BY <1>2, <1>3, <1>4, <1>6, <1>7, StartCallStep

LEMMA OutputStep ==
  ASSUME IoInv, NEW p \in Payloads, Output(p)
  PROVE  IoInv'
<1>1. p \in Seq(Byte)
  BY CallAssumption
<1>2. PICK none \in Payload : none = <<>>
  <2>1. <<>> \in Seq(Byte) /\ Len(<<>>) <= Capacity
    BY Region
  <2> QED BY <2>1 DEF Payload
<1>3. Len(none) = 0 /\ 0 < W
  BY <1>2, Region
<1>4. CASE Len(p) <= Capacity /\ StartCall(OutputStores(p, Len(p)), <<p>>)
  <2>1. p \in Payload /\ Len(p) \in Nat /\ Len(p) < W
    BY <1>1, <1>4, Region DEF Payload
  <2>2. PICK s : s = OutputStores(p, Len(p))
    OBVIOUS
  <2>3. Stores(s)
    BY <2>1, <2>2, OutputFields
  <2>4. Kept(mem, s, p)
    BY <2>1, <2>2, OutputKept
  <2>5. StartCall(s, <<p>>)
    BY <1>4, <2>2
  <2> QED BY <2>1, <2>2, <2>3, <2>4, <2>5, StartCallStep
<1>5. ASSUME NEW n \in 0 .. Len(Truncated(p)),
             StartCall(OutputStores(SubSeq(p, 1, n), 0), <<<<>>>>)
      PROVE  IoInv'
  <2>1. PICK q \in Payload : q = SubSeq(p, 1, n)
    BY <1>1, Fits
  <2>2. PICK s : s = OutputStores(q, 0)
    OBVIOUS
  <2>3. Stores(s)
    BY <1>3, <2>2, OutputFields
  <2>4. Kept(mem, s, none)
    BY <1>2, <1>3, <2>2, OutputKept
  <2>5. StartCall(s, <<none>>)
    BY <1>2, <1>5, <2>1, <2>2
  <2>6. s = OutputStores(q, Len(none))
    BY <1>3, <2>2
  <2> QED BY <1>2, <2>3, <2>4, <2>5, <2>6, StartCallStep
<1> QED BY <1>4, <1>5 DEF Output

LEMMA WriteOutputStep ==
  ASSUME IoInv, NEW p \in Payloads, WriteOutput(p)
  PROVE  IoInv'
<1>1. PICK q : q = Truncated(p)
  OBVIOUS
<1>2. q \in Payload
  BY <1>1, CallAssumption, Fits
<1>3. PICK s : s = <<<<OutputLen, Len(q)>>>> \o Bytes(q)
  OBVIOUS
<1>4. StartCall(s, <<q>>)
  BY <1>1, <1>3 DEF WriteOutput
<1>5. Stores(s) /\ \A j \in DOMAIN s : s[j][1] # HaltFlag
  BY <1>2, <1>3, WriteFields
<1>6. Kept(mem, s, q)
  BY <1>2, <1>3, WriteKept
<1> QED BY <1>2, <1>4, <1>5, <1>6, StartCallStep

LEMMA PokeStep ==
  ASSUME IoInv, NEW len \in Lengths, Poke(len)
  PROVE  IoInv'
<1>1. PICK s : s = <<<<OutputLen, len>>>>
  OBVIOUS
<1>2. len \in Nat /\ len < W
  BY CallAssumption, Region
<1>3. Stores(s)
  BY <1>1, <1>2, Cells DEF Stores, Target
<1>4. StartCall(s, <<>>)
  BY <1>1 DEF Poke
<1> QED BY <1>3, <1>4, StartCallStep

LEMMA SetHaltStep ==
  ASSUME IoInv, SetHalt
  PROVE  IoInv'
<1>1. PICK s : s = <<<<HaltFlag, 1>>>>
  OBVIOUS
<1>2. Stores(s) /\ Len(s) <= 1 /\ DOMAIN s = {1} /\ s[1][1] = HaltFlag
  BY <1>1, Cells DEF Stores, Target
<1>3. StartCall(s, promised) /\ todo = <<>>
  BY <1>1 DEF SetHalt, StartCall, Calls
<1>4. ASSUME NEW q \in Payload, Kept(mem, todo, q) PROVE Kept(mem, s, q)
  <2>1. \A i \in DOMAIN q : OutputData + i - 1 \in DataAddr
    BY BytesFields DEF Payload
  <2> QED BY <1>2, <1>3, <1>4, <2>1, Cells DEF Kept, Will
<1>5. promised = <<>> \/ \E q \in Payload : promised = <<q>> /\ Kept(mem, s, q)
  BY <1>4 DEF IoInv, Promised
<1> QED BY <1>2, <1>3, <1>5, StartCallStep

\* One store of a call.
LEMMA StoreStep ==
  ASSUME IoInv, Store
  PROVE  IoInv'
<1>1. /\ status = "running" /\ mem[HaltFlag] = 0 /\ todo # <<>>
      /\ mem' = [mem EXCEPT ![todo[1][1]] = todo[1][2]]
      /\ stored' = stored \cup {WordOf(todo[1][1])}
      /\ todo' = Tail(todo) /\ made' = made + 1
      /\ UNCHANGED <<given, cut, promised, got, asked, touched, segs, status>>
  BY DEF Store, Runs
<1>2. /\ mem \in [Cell -> Nat] /\ mem[OutputLen] < W /\ Stores(todo)
      /\ made \in Nat /\ cut \in Nat
  BY DEF IoInv, IoType
<1>3. PICK a, v : a = todo[1][1] /\ v = todo[1][2]
  OBVIOUS
<1>4. todo \in Seq(Target \X Nat) /\ Len(todo) \in Nat \ {0} /\ DOMAIN todo = 1 .. Len(todo)
  BY <1>1, <1>2 DEF Stores
<1>5. a \in Target /\ v \in Nat /\ (a = OutputLen => v < W) /\ (a = HaltFlag => Len(todo) = 1)
  BY <1>2, <1>3, <1>4 DEF Stores
<1>6. a \in Cell
  BY <1>5, Cells
<1>7. /\ mem' \in [Cell -> Nat] /\ mem'[a] = v
      /\ \A c \in Cell : c # a => mem'[c] = mem[c]
  BY <1>1, <1>2, <1>3, <1>5, <1>6
<1>8. /\ todo' \in Seq(Target \X Nat) /\ Len(todo') = Len(todo) - 1
      /\ DOMAIN todo' = 1 .. Len(todo) - 1
      /\ \A j \in DOMAIN todo' : j + 1 \in DOMAIN todo /\ todo'[j] = todo[j + 1]
  BY <1>1, <1>4
<1>9. Stores(todo')
  <2>1. ASSUME NEW j \in DOMAIN todo'
        PROVE  /\ todo'[j][1] = OutputLen => todo'[j][2] < W
               /\ todo'[j][1] = HaltFlag => j = Len(todo')
    <3>1. j + 1 \in DOMAIN todo /\ todo'[j] = todo[j + 1]
      BY <1>8
    <3>2. todo'[j][1] = HaltFlag => j + 1 = Len(todo)
      BY <1>2, <3>1 DEF Stores
    <3>3. j \in Nat /\ Len(todo) \in Nat /\ Len(todo') = Len(todo) - 1
      BY <1>4, <1>8
    <3> QED BY <1>2, <3>1, <3>2, <3>3 DEF Stores
  <2> QED BY <2>1, <1>8 DEF Stores
<1>10. mem'[HaltFlag] # 0 => todo' = <<>>
  BY <1>1, <1>4, <1>5, <1>7, <1>8, Cells
<1>11. IoType'
  BY <1>1, <1>2, <1>5, <1>7, <1>9, <1>10, Cells DEF IoInv, IoType
<1>12. ASSUME NEW c \in Cell, NEW x, Will(mem, todo, c, x) PROVE Will(mem', todo', c, x)
  <2>1. \A j \in DOMAIN todo' : todo'[j][1] = c => todo'[j][2] = x
    BY <1>8, <1>12 DEF Will
  <2>2. mem'[c] = x \/ \E j \in DOMAIN todo' : todo'[j][1] = c
    <3>1. CASE c = a
      BY <3>1, <1>3, <1>4, <1>7, <1>12 DEF Will
    <3>2. CASE c # a /\ mem[c] = x
      BY <3>2, <1>7
    <3>3. ASSUME c # a, NEW j \in DOMAIN todo, todo[j][1] = c
          PROVE  \E k \in DOMAIN todo' : todo'[k][1] = c
      <4>1. j # 1
        BY <1>3, <3>3
      <4>2. j \in 1 .. Len(todo) /\ Len(todo) \in Nat /\ DOMAIN todo' = 1 .. Len(todo) - 1
        BY <1>4, <1>8
      <4>3. j - 1 \in DOMAIN todo' /\ (j - 1) + 1 = j
        BY <4>1, <4>2
      <4>4. todo'[j - 1] = todo[j]
        BY <1>8, <4>3
      <4> QED BY <3>3, <4>3, <4>4
    <3> QED BY <3>1, <3>2, <3>3, <1>12 DEF Will
  <2> QED BY <2>1, <2>2 DEF Will
<1>13. Promised'
  <2>1. ASSUME NEW p \in Payload, Kept(mem, todo, p) PROVE Kept(mem', todo', p)
    <3>1. \A i \in DOMAIN p : OutputData + i - 1 \in Cell
      <4>1. DOMAIN p = 1 .. Len(p)
        BY DEF Payload
      <4> QED BY <4>1, BytesFields, Cells
    <3> QED BY <1>12, <2>1, <3>1, Cells DEF Kept
  <2> QED BY <1>1, <2>1 DEF IoInv, Promised
<1>14. Reported'
  BY <1>1 DEF IoInv, Reported
<1>15. Untouched' /\ Touched'
  <2>1. \A c \in InputAddr : mem'[c] = mem[c]
    BY <1>5, <1>7, Cells
  <2> QED BY <1>1, <2>1 DEF IoInv, Untouched, GivenByte, Touched
<1>16. Calling'
  <2>1. CASE promised = <<>>
    BY <2>1, <1>1 DEF Calling
  <2>2. CASE \A j \in DOMAIN todo : todo[j][1] # HaltFlag
    <3>1. a # HaltFlag
      BY <1>3, <1>4, <2>2
    <3>2. mem'[HaltFlag] = 0 /\ \A j \in DOMAIN todo' : todo'[j][1] # HaltFlag
      BY <1>1, <1>7, <1>8, <2>2, <3>1, Cells
    <3> QED BY <3>2 DEF Calling
  <2>3. CASE made + Len(todo) <= 1
    BY <2>3, <1>1, <1>2, <1>4, <1>8 DEF Calling
  <2>4. ASSUME NEW p \in Payload, NEW q \in Payload, promised = <<p>>, q = p \/ p = <<>>,
               Outputs(p, q)
        PROVE  Calling'
    <3>1. PICK len \in Nat : len = Len(p) /\ len < W
      BY Region DEF Payload
    <3>2. PICK all : all = OutputStores(q, len)
      OBVIOUS
    <3>3. /\ Len(q) \in Nat /\ Len(all) = Len(q) + 2
          /\ \A i \in 1 .. Len(q) : all[i] = <<OutputData + i - 1, q[i]>>
          /\ all[Len(q) + 1] = <<OutputLen, len>>
          /\ all[Len(q) + 2] = <<HaltFlag, 1>>
      BY <3>1, <3>2, OutputFields DEF Payload
    <3>4. /\ made + Len(todo) = Len(all)
          /\ \A j \in DOMAIN todo : todo[j] = all[made + j]
          /\ mem[HaltFlag] # 0 <=> made = Len(all)
          /\ cut <= made /\ cut < Len(all)
          /\ \A j \in cut + 1 .. made : WordOf(all[j][1]) \in stored
          /\ cut > 0 => stored \subseteq {WordOf(all[j][1]) : j \in cut + 1 .. made}
      BY <2>4, <3>1, <3>2 DEF Outputs
    <3>5. todo[1] = all[made + 1] /\ made + 1 \in 1 .. Len(all)
      BY <1>2, <1>4, <3>3, <3>4
    <3>6. mem'[HaltFlag] # 0 <=> made + 1 = Len(all)
      <4>1. CASE made + 1 = Len(all)
        <5>1. a = HaltFlag /\ v = 1
          BY <1>3, <3>3, <3>5, <4>1
        <5> QED BY <1>7, <4>1, <5>1
      <4>2. CASE made + 1 # Len(all)
        <5>1. made + 1 \in 1 .. Len(q) \/ made + 1 = Len(q) + 1
          BY <1>2, <3>3, <3>5, <4>2
        <5>2. a # HaltFlag
          BY <1>3, <3>3, <3>5, <5>1, BytesFields, Cells
        <5> QED BY <1>1, <1>7, <4>2, <5>2, Cells
      <4> QED BY <4>1, <4>2
    <3>7. /\ made' + Len(todo') = Len(all)
          /\ \A j \in DOMAIN todo' : todo'[j] = all[made' + j]
          /\ cut <= made'
      <4>1. ASSUME NEW j \in DOMAIN todo' PROVE todo'[j] = all[made' + j]
        <5>1. j + 1 \in DOMAIN todo /\ todo'[j] = todo[j + 1] /\ made + (j + 1) = made' + j
          BY <1>1, <1>2, <1>8
        <5> QED BY <3>4, <5>1
      <4> QED BY <1>1, <1>2, <1>4, <1>8, <3>4, <4>1
    <3>8. \A j \in cut + 1 .. made' : WordOf(all[j][1]) \in stored'
      <4>1. ASSUME NEW j \in cut + 1 .. made' PROVE WordOf(all[j][1]) \in stored'
        <5>1. CASE j = made + 1
          BY <1>1, <3>5, <5>1
        <5>2. CASE j # made + 1
          BY <1>1, <1>2, <3>4, <5>2
        <5> QED BY <5>1, <5>2
      <4> QED BY <4>1
    <3>9. cut > 0 => stored' \subseteq {WordOf(all[j][1]) : j \in cut + 1 .. made'}
      <4>1. made + 1 \in cut + 1 .. made' /\ cut + 1 .. made \subseteq cut + 1 .. made'
        BY <1>1, <1>2, <3>4
      <4> QED BY <1>1, <3>4, <3>5, <4>1
    <3>10. Outputs(p, q)'
      <4>1. cut' = cut /\ made' = made + 1 /\ OutputStores(q, Len(p)) = all
        BY <1>1, <3>1, <3>2
      <4> QED BY <4>1, <3>4, <3>6, <3>7, <3>8, <3>9 DEF Outputs
    <3> QED BY <1>1, <2>4, <3>10 DEF Calling
  <2> QED BY <2>1, <2>2, <2>3, <2>4 DEF IoInv, Calling
<1> QED BY <1>11, <1>13, <1>14, <1>15, <1>16 DEF IoInv

\* The word that offset k of the input falls in.
LEMMA InputWords ==
  ASSUME NEW k \in Nat
  PROVE  /\ WordOf(IoStart + k) = Loaded(k)
         /\ Loaded(k) \in Nat
         /\ k \div 4 \in Nat /\ 4 * (k \div 4) <= k /\ k < 4 * (k \div 4) + 4
<1>1. IoStart \in Nat /\ IoStart % 4 = 0
  BY Region
<1>2. k \div 4 \in Nat /\ k = 4 * (k \div 4) + (k % 4) /\ k % 4 \in 0 .. 3
  OBVIOUS
<1>3. (IoStart + k) % 4 = k % 4
  BY <1>1
<1> QED BY <1>1, <1>2, <1>3 DEF WordOf, Loaded

\* A read loads the words of exactly the offsets asked for that the region has.
LEMMA ReadOffsets ==
  ASSUME NEW offset \in Nat, NEW n \in Nat, NEW m, m = ReadLen(offset, n)
  PROVE  /\ m \in Nat
         /\ \A i \in 1 .. m : offset + i - 1 \in (offset .. offset + n - 1) \cap InputOffset
         /\ \A k \in (offset .. offset + n - 1) \cap InputOffset :
              k - offset + 1 \in 1 .. m
<1>1. InputLen \in Nat
  BY Region
<1>2. CASE offset >= InputLen
  BY <1>1, <1>2 DEF ReadLen, InputOffset
<1>3. CASE ~(offset >= InputLen)
  <2>1. PICK b \in Nat : b = InputLen - offset
    BY <1>1, <1>3
  <2>2. m = IF n <= b THEN n ELSE b
    BY <1>3, <2>1, MinTwo DEF ReadLen
  <2> QED BY <1>1, <1>3, <2>1, <2>2 DEF InputOffset
<1> QED BY <1>2, <1>3

LEMMA ReadStep ==
  ASSUME IoInv, NEW r \in Requests, Read(r[1], r[2])
  PROVE  IoInv'
<1>1. PICK offset \in Nat, n \in Nat : offset = r[1] /\ n = r[2]
  BY CallAssumption
<1>2. PICK m : m = ReadLen(offset, n)
  OBVIOUS
<1>3. /\ m \in Nat
      /\ \A i \in 1 .. m : offset + i - 1 \in (offset .. offset + n - 1) \cap InputOffset
      /\ \A k \in (offset .. offset + n - 1) \cap InputOffset : k - offset + 1 \in 1 .. m
  BY <1>2, ReadOffsets
<1>4. PICK from : from = [i \in 1 .. m |-> IoStart + offset + i - 1]
  OBVIOUS
<1>5. /\ status = "running"
      /\ got' = [offset |-> offset, bytes |-> [i \in DOMAIN from |-> mem[from[i]]]]
      /\ asked' = asked \cup (offset .. offset + n - 1)
      /\ touched' = touched \cup {WordOf(from[i]) : i \in DOMAIN from}
      /\ UNCHANGED <<given, mem, todo, made, cut, promised, stored, segs, status>>
  BY <1>1, <1>2, <1>4 DEF Read, ReadAt, Calls, Runs
<1>6. ASSUME NEW i \in 1 .. m
      PROVE  /\ offset + i - 1 \in InputOffset
             /\ from[i] = IoStart + (offset + i - 1)
             /\ from[i] \in InputAddr /\ from[i] \in Cell
             /\ WordOf(from[i]) = Loaded(offset + i - 1)
  <2>1. offset + i - 1 \in InputOffset /\ offset + i - 1 \in Nat
    BY <1>3 DEF InputOffset
  <2>2. from[i] = IoStart + (offset + i - 1)
    BY <1>4, Region
  <2>3. from[i] \in InputAddr
    BY <2>1, <2>2, Region DEF InputAddr, InputOffset, InputEnd
  <2> QED BY <2>1, <2>2, <2>3, InputWords, Cells
<1>7. mem \in [Cell -> Nat] /\ asked \subseteq Nat
  BY DEF IoInv, IoType
<1>8. /\ got'.offset = offset /\ got'.bytes \in Seq(Nat) /\ DOMAIN got'.bytes = 1 .. m
      /\ \A i \in 1 .. m : got'.bytes[i] = mem[from[i]]
  <2>1. DOMAIN from = 1 .. m
    BY <1>4
  <2>2. [i \in 1 .. m |-> mem[from[i]]] \in [1 .. m -> Nat]
    BY <1>6, <1>7
  <2> QED BY <1>3, <1>5, <2>1, <2>2
<1>9. IoType'
  <2>1. got' \in [offset : Nat, bytes : Seq(Nat)]
    BY <1>5, <1>8
  <2>2. asked' \subseteq Nat
    BY <1>5, <1>7
  <2> QED BY <1>5, <2>1, <2>2 DEF IoInv, IoType
<1>10. Promised'
  BY <1>5 DEF IoInv, Promised
<1>11. Reported'
  BY <1>5 DEF IoInv, Reported
<1>12. Untouched'
  <2>1. \A a \in InputAddr : mem[a] = GivenByte(a - IoStart)
    BY <1>5 DEF IoInv, Untouched
  <2>2. ASSUME NEW i \in DOMAIN got'.bytes
        PROVE  got'.bytes[i] = GivenByte(got'.offset + i - 1)
    <3>1. i \in 1 .. m
      BY <1>8
    <3>2. from[i] - IoStart = offset + i - 1
      BY <1>6, <3>1, Region DEF InputOffset
    <3> QED BY <1>6, <1>8, <2>1, <3>1, <3>2
  <2> QED BY <1>5, <2>1, <2>2 DEF Untouched, GivenByte
<1>13. Touched'
  <2> DEFINE new == (offset .. offset + n - 1) \cap InputOffset
  <2>1. {WordOf(from[i]) : i \in DOMAIN from} = {Loaded(k) : k \in new}
    <3>1. DOMAIN from = 1 .. m
      BY <1>4
    <3>2. ASSUME NEW i \in 1 .. m PROVE \E k \in new : WordOf(from[i]) = Loaded(k)
      BY <1>3, <1>6
    <3>3. ASSUME NEW k \in new PROVE \E i \in 1 .. m : WordOf(from[i]) = Loaded(k)
      <4>1. PICK i \in 1 .. m : i = k - offset + 1
        BY <1>3
      <4>2. offset + i - 1 = k
        BY <4>1 DEF InputOffset
      <4> QED BY <1>6, <4>1, <4>2
    <3> QED BY <3>1, <3>2, <3>3
  <2>2. asked' \cap InputOffset = (asked \cap InputOffset) \cup new
    BY <1>5
  <2> QED BY <1>5, <2>1, <2>2 DEF IoInv, Touched
<1>14. Calling'
  BY <1>5 DEF IoInv, Calling, Outputs
<1> QED BY <1>9, <1>10, <1>11, <1>12, <1>13, <1>14 DEF IoInv

\* What changes neither the region nor a call.
LEMMA StillStep ==
  ASSUME IoInv,
         UNCHANGED <<given, mem, todo, made, cut, promised, stored, got, asked, touched,
                     segs, status>>
  PROVE  IoInv'
<1>1. IoType' /\ Promised'
  BY DEF IoInv, IoType, Promised
<1>2. Reported'
  BY DEF IoInv, Reported, Final, ReadOutput, OutputWords
<1>3. Untouched' /\ Touched'
  BY DEF IoInv, Untouched, GivenByte, Touched
<1>4. Calling'
  BY DEF IoInv, Calling, Outputs
<1> QED BY <1>1, <1>2, <1>3, <1>4 DEF IoInv

LEMMA CloseSegmentStep ==
  ASSUME IoInv, CloseSegment
  PROVE  IoInv'
<1>1. /\ status = "running" /\ mem[HaltFlag] = 0
      /\ segs' = Append(segs, Interior) /\ stored' = {} /\ cut' = made
      /\ UNCHANGED <<given, mem, todo, made, promised, got, asked, touched, status>>
  BY DEF CloseSegment, Runs, Interior
<1>2. segs \in Seq(Result) /\ made \in Nat /\ Interior \in Result
  BY DEF IoInv, IoType, Result, Interior
<1>3. IoType'
  <2>1. segs' \in Seq(Result)
    BY <1>1, <1>2
  <2> QED BY <1>1, <2>1 DEF IoInv, IoType
<1>4. Promised'
  BY <1>1 DEF IoInv, Promised
<1>5. Reported'
  <2>1. \A i \in DOMAIN segs' : segs'[i] = Interior
    BY <1>1, <1>2 DEF IoInv, Reported
  <2> QED BY <1>1, <2>1 DEF Reported, Interior
<1>6. Untouched' /\ Touched'
  BY <1>1 DEF IoInv, Untouched, GivenByte, Touched
<1>7. Calling'
  <2>1. ASSUME NEW p \in Payload, NEW q \in Payload, promised = <<p>>, q = p \/ p = <<>>,
               Outputs(p, q)
        PROVE  Calling'
    <3>1. PICK all : all = OutputStores(q, Len(p))
      OBVIOUS
    <3>2. /\ Len(all) = Len(q) + 2 /\ Len(q) \in Nat
      <4>1. PICK len \in Nat : len = Len(p) /\ len < W
        BY Region DEF Payload
      <4> QED BY <3>1, <4>1, OutputFields DEF Payload
    <3>3. /\ made + Len(todo) = Len(all) /\ made # Len(all)
          /\ \A j \in DOMAIN todo : todo[j] = all[made + j]
      BY <1>1, <2>1, <3>1 DEF Outputs
    <3>4. todo \in Seq(Target \X Nat)
      BY DEF IoInv, IoType, Stores
    <3>5. made < Len(all) /\ made + 1 .. made = {}
      BY <1>2, <3>2, <3>3, <3>4
    <3>6. Outputs(p, q)'
      BY <1>1, <1>2, <3>1, <3>3, <3>5 DEF Outputs
    <3> QED BY <1>1, <2>1, <3>6 DEF Calling
  <2> QED BY <1>1, <2>1 DEF IoInv, Calling
<1> QED BY <1>3, <1>4, <1>5, <1>6, <1>7 DEF IoInv

\* What the host makes of the region.
LEMMA ReportType ==
  ASSUME IoInv
  PROVE  ReadOutput \in Seq(Nat) /\ OutputWords \subseteq Nat
<1>1. PICK len \in Nat : len = mem[OutputLen] /\ len < W
  BY Cells DEF IoInv, IoType
<1>2. ReadOutput \in Seq(Nat)
  <2>1. CASE len > Capacity
    BY <1>1, <2>1 DEF ReadOutput
  <2>2. CASE ~(len > Capacity)
    <3>1. \A i \in 1 .. len : OutputData + i - 1 \in DataAddr
      BY <2>2, Region DEF DataAddr
    <3>2. \A i \in 1 .. len : mem[OutputData + i - 1] \in Nat
      BY <3>1, Cells DEF IoInv, IoType
    <3>3. ReadOutput = [i \in 1 .. len |-> mem[OutputData + i - 1]]
      BY <1>1, <2>2 DEF ReadOutput
    <3> QED BY <3>2, <3>3
  <2> QED BY <2>1, <2>2
<1>3. OutputWords \subseteq Nat
  BY Region DEF OutputWords
<1> QED BY <1>2, <1>3

LEMMA FinishStep ==
  ASSUME IoInv, Finish, todo = <<>>, status = "running"
  PROVE  IoInv'
<1>1. PICK last : last = [output |-> ReadOutput, words |-> OutputWords,
                          panics |-> ~(OutputWords \subseteq stored)]
  OBVIOUS
<1>2. /\ segs' = Append(segs, last) /\ status' = "ended"
      /\ UNCHANGED <<given, mem, todo, made, cut, promised, stored, got, asked, touched>>
  BY <1>1 DEF Finish
<1>3. segs \in Seq(Result) /\ last \in Result
  BY <1>1, ReportType DEF IoInv, IoType, Result
<1>4. /\ segs' \in Seq(Result) /\ Len(segs') = Len(segs) + 1 /\ segs' # <<>>
      /\ segs'[Len(segs')] = last
      /\ \A i \in DOMAIN segs' :
           i = Len(segs') \/ (i \in DOMAIN segs /\ segs'[i] = segs[i])
  <2>1. segs' = Append(segs, last)
    BY <1>2
  <2> QED BY <2>1, <1>3
<1>5. IoType'
  BY <1>2, <1>4 DEF IoInv, IoType
<1>6. Promised'
  BY <1>2 DEF IoInv, Promised
<1>7. Reported'
  <2>1. \A i \in DOMAIN segs : segs[i] = Interior
    BY DEF IoInv, Reported
  <2>2. last = [output |-> ReadOutput', words |-> OutputWords',
                panics |-> ~(OutputWords' \subseteq stored')]
    BY <1>1, <1>2 DEF ReadOutput, OutputWords
  <2> QED BY <1>2, <1>4, <2>1, <2>2 DEF Reported, Final, Interior
<1>8. Untouched' /\ Touched'
  BY <1>2 DEF IoInv, Untouched, GivenByte, Touched
<1>9. Calling'
  BY <1>2 DEF IoInv, Calling, Outputs
<1> QED BY <1>5, <1>6, <1>7, <1>8, <1>9 DEF IoInv

\* Every step of the guest and its host keeps the region's invariant.
LEMMA IoInvStep ==
  ASSUME IoInv, [Next]_vars
  PROVE  IoInv'
<1>1. ASSUME NEW r \in Requests, Read(r[1], r[2]) PROVE IoInv'
  BY <1>1, ReadStep
<1>2. ASSUME NEW p \in Payloads, OutputRaw(p) \/ Output(p) \/ WriteOutput(p) PROVE IoInv'
  BY <1>2, OutputRawStep, OutputStep, WriteOutputStep
<1>3. ASSUME NEW len \in Lengths, Poke(len) PROVE IoInv'
  BY <1>3, PokeStep
<1>4. CASE SetHalt
  BY <1>4, SetHaltStep
<1>5. ASSUME NEW l \in Layouts, Allocate(l) PROVE IoInv'
  <2>1. UNCHANGED <<given, mem, todo, made, cut, promised, stored, got, asked, touched,
                    segs, status>>
    BY <1>5 DEF Allocate
  <2> QED BY <2>1, StillStep
<1>6. CASE Store
  BY <1>6, StoreStep
<1>7. CASE CloseSegment
  BY <1>7, CloseSegmentStep
<1>8. CASE Halted
  BY <1>8, FinishStep DEF Halted, IoInv, IoType
<1>9. CASE Spin
  BY <1>9, FinishStep DEF Spin, Runs
<1>10. CASE UNCHANGED vars
  <2>1. UNCHANGED <<given, mem, todo, made, cut, promised, stored, got, asked, touched,
                    segs, status>>
    BY <1>10 DEF vars, ioVars
  <2> QED BY <2>1, StillStep
<1> QED BY <1>1, <1>2, <1>3, <1>4, <1>5, <1>6, <1>7, <1>8, <1>9, <1>10 DEF Next

\* A run starts with the input in place and nothing else.
LEMMA InitIoInv == Init => IoInv
<1> SUFFICES ASSUME Init PROVE IoInv
  OBVIOUS
<1>1. /\ given \in Inputs
      /\ status = IF Len(given) > InputLen THEN "too_large" ELSE "running"
      /\ mem = [a \in InputAddr \cup {HaltFlag, OutputLen} \cup DataAddr |->
                 IF a \in IoStart .. IoStart + Len(given) - 1 /\ status = "running"
                   THEN given[a - IoStart + 1] ELSE 0]
      /\ todo = <<>> /\ made = 0 /\ cut = 0 /\ promised = <<>>
      /\ got = [offset |-> 0, bytes |-> <<>>] /\ asked = {} /\ touched = {} /\ segs = <<>>
  BY DEF Init
<1>2. given \in Seq(Byte) /\ Len(given) \in Nat /\ DOMAIN given = 1 .. Len(given)
  BY <1>1, CallAssumption
<1>3. Cell = InputAddr \cup {HaltFlag, OutputLen} \cup DataAddr
  BY DEF Cell, Target
<1>4. \A a \in InputAddr : a \in Nat /\ a >= IoStart
  BY Region DEF InputAddr
<1>5. ASSUME NEW a \in Cell PROVE mem[a] \in Nat
  <2>1. CASE a \in IoStart .. IoStart + Len(given) - 1 /\ status = "running"
    <3>1. a - IoStart + 1 \in 1 .. Len(given)
      BY <1>2, <2>1, Region
    <3>2. given[a - IoStart + 1] \in Byte /\ Byte \subseteq Nat
      <4>1. given[a - IoStart + 1] \in Byte
        BY <1>2, <3>1
      <4> QED BY <4>1 DEF Byte
    <3> QED BY <1>1, <1>3, <2>1, <3>2
  <2>2. CASE ~(a \in IoStart .. IoStart + Len(given) - 1 /\ status = "running")
    BY <1>1, <1>3, <2>2
  <2> QED BY <2>1, <2>2
<1>6. ASSUME NEW a \in Target PROVE mem[a] = 0
  <2>1. CASE status = "running"
    <3>1. Len(given) <= InputLen
      BY <1>1, <1>2, <2>1, Region
    <3>2. a \in Nat /\ a >= IoStart + InputLen
      BY Region, Cells DEF Target, DataAddr
    <3>3. a \notin IoStart .. IoStart + Len(given) - 1
      BY <1>2, <3>1, <3>2, Region
    <3> QED BY <1>1, <1>3, <3>3, Cells
  <2>2. CASE status # "running"
    BY <1>1, <1>3, <2>2, Cells
  <2> QED BY <2>1, <2>2
<1>7. mem[HaltFlag] = 0 /\ mem[OutputLen] = 0
  BY <1>6 DEF Target
<1>8. IoType
  <2>1. mem \in [Cell -> Nat]
    BY <1>1, <1>3, <1>5
  <2>2. Stores(todo)
    BY <1>1 DEF Stores
  <2> QED BY <1>1, <1>7, <2>1, <2>2, Region DEF IoType
<1>9. Promised /\ Calling
  BY <1>1 DEF Promised, Calling
<1>10. Reported
  BY <1>1 DEF Reported
<1>11. Untouched
  <2>1. ASSUME status = "running", NEW a \in InputAddr
        PROVE  mem[a] = GivenByte(a - IoStart)
    <3>1. a \in IoStart .. IoStart + Len(given) - 1 <=> a - IoStart < Len(given)
      BY <1>2, <1>4, Region
    <3> QED BY <1>1, <2>1, <3>1 DEF GivenByte
  <2> QED BY <1>1, <2>1 DEF Untouched
<1>12. Touched
  BY <1>1 DEF Touched
<1> QED BY <1>8, <1>9, <1>10, <1>11, <1>12 DEF IoInv

LEMMA IoInvariance == Spec => []IoInv
BY InitIoInv, IoInvStep, PTL DEF Spec

\* io.rs, lib.rs: reads return what the host gave, and load exactly the published words
\* when they ask for a byte of each and nothing past them, for every input and region.
THEOREM ReadsGivenAlways == Spec => []ReadsGiven
<1>1. ASSUME IoInv PROVE ReadsGiven
  <2>1. given \in Seq(Byte) /\ Len(given) \in Nat /\ asked \subseteq Nat /\ got.offset \in Nat
        /\ got.bytes \in Seq(Nat)
    BY <1>1, CallAssumption DEF IoInv, IoType
  <2>2. ASSUME status # "too_large", NEW i \in DOMAIN got.bytes
        PROVE  got.bytes[i] = IF got.offset + i <= Len(given) THEN given[got.offset + i]
                              ELSE 0
    <3>1. got.bytes[i] = GivenByte(got.offset + i - 1)
      BY <1>1, <2>2 DEF IoInv, Untouched
    <3>2. i \in Nat /\ got.offset + i - 1 + 1 = got.offset + i
      BY <2>1
    <3> QED BY <2>1, <3>1, <3>2 DEF GivenByte
  <2> DEFINE A == {k \div 4 : k \in asked \cap InputOffset}
  <2> DEFINE B == {k \div 4 : k \in 0 .. Len(given) - 1}
  <2> DEFINE n == (Len(given) + 3) \div 4
  <2>3. n \in Nat /\ 4 * n <= Len(given) + 3 /\ Len(given) + 3 < 4 * n + 4
    BY <2>1
  <2>4. B = 0 .. n - 1
    <3> HIDE DEF n
    <3>1. ASSUME NEW k \in 0 .. Len(given) - 1 PROVE k \div 4 \in 0 .. n - 1
      <4>1. k \div 4 \in Nat /\ 4 * (k \div 4) <= k
        BY InputWords
      <4> QED BY <2>1, <2>3, <4>1
    <3>2. ASSUME NEW j \in 0 .. n - 1
          PROVE  \E k \in 0 .. Len(given) - 1 : j = k \div 4
      <4>1. 4 * j \in 0 .. Len(given) - 1 /\ j = (4 * j) \div 4
        BY <2>1, <2>3
      <4> QED BY <4>1
    <3> QED BY <3>1, <3>2
  <2>5. touched = {IoStart + 4 * x : x \in A}
    BY <1>1 DEF IoInv, Touched, Loaded
  <2>6. PublishedInput = {IoStart + 4 * x : x \in B}
    BY <2>4 DEF PublishedInput
  <2>7. A \subseteq Nat /\ B \subseteq Nat
    <3>1. A \subseteq Nat
      BY InputWords, <2>1
    <3> QED BY <2>3, <2>4, <3>1
  <2> HIDE DEF A, B, n
  <2>8. touched = PublishedInput <=> A = B
    <3>1. ASSUME NEW C \in SUBSET Nat, NEW D \in SUBSET Nat,
                 {IoStart + 4 * x : x \in C} = {IoStart + 4 * x : x \in D},
                 NEW x \in C
          PROVE  x \in D
      <4>1. PICK y \in D : IoStart + 4 * x = IoStart + 4 * y
        BY <3>1
      <4>2. x = y
        BY <4>1, Region
      <4> QED BY <4>2
    <3>2. touched = PublishedInput => A = B
      <4>1. ASSUME touched = PublishedInput PROVE A \subseteq B /\ B \subseteq A
        BY <2>5, <2>6, <2>7, <3>1, <4>1
      <4> QED BY <4>1
    <3> QED BY <2>5, <2>6, <3>2
  <2> QED BY <2>2, <2>8 DEF ReadsGiven, A, B, InputOffset
<1> QED BY <1>1, IoInvariance, PTL

\* glue.rs, lib.rs: the last segment's output is what the last output call promised, whole,
\* wherever segments were closed, and no other segment shows any.
THEOREM OutputDeliveredAlways == Spec => []OutputDelivered
<1>1. ASSUME IoInv PROVE OutputDelivered
  <2>1. ASSUME status = "ended", promised # <<>> PROVE Final.output = promised[1]
    <3>1. PICK p \in Payload : promised = <<p>> /\ Kept(mem, todo, p)
      BY <1>1, <2>1 DEF IoInv, Promised
    <3>2. todo = <<>> /\ Final.output = ReadOutput
      BY <1>1, <2>1 DEF IoInv, Reported
    <3>3. mem[OutputLen] = Len(p) /\ \A i \in DOMAIN p : mem[OutputData + i - 1] = p[i]
      BY <3>1, <3>2 DEF Kept, Will
    <3>4. p \in Seq(Byte) /\ Len(p) \in Nat /\ DOMAIN p = 1 .. Len(p) /\ Len(p) <= Capacity
      BY DEF Payload
    <3>5. ReadOutput = [i \in 1 .. Len(p) |-> mem[OutputData + i - 1]]
      BY <3>3, <3>4, Region DEF ReadOutput
    <3>6. p = [i \in 1 .. Len(p) |-> p[i]]
      BY <3>4
    <3>7. ReadOutput = p
      BY <3>3, <3>4, <3>5, <3>6
    <3> QED BY <3>1, <3>2, <3>7
  <2>2. ASSUME NEW i \in 1 .. Len(segs) - 1
        PROVE  segs[i].output = <<>> /\ segs[i].words = {}
    <3>1. segs \in Seq(Result)
      BY <1>1 DEF IoInv, IoType
    <3>2. i \in DOMAIN segs /\ i # Len(segs)
      BY <3>1
    <3> QED BY <1>1, <3>2 DEF IoInv, Reported, Interior
  <2> QED BY <2>1, <2>2 DEF OutputDelivered
<1> QED BY <1>1, IoInvariance, PTL

\* commitment.rs, lib.rs: the words listed are those the commitment leaves out, and cover
\* the output, for every length the guest may leave: rounding up may wrap only for lengths
\* past the region, of which nothing is read.
THEOREM WordsAnchoredAlways == Spec => []WordsAnchored
<1>1. ASSUME IoInv, status = "ended"
      PROVE  /\ Final.words = {a \in 0 .. W - 1 : a % 4 = 0 /\ IsPublicOutputAddr(a)}
             /\ \A i \in DOMAIN Final.output : WordOf(OutputData + i - 1) \in Final.words
  <2>1. Final.words = OutputWords /\ Final.output = ReadOutput
    BY <1>1 DEF IoInv, Reported
  <2>2. PICK len \in Nat : len = mem[OutputLen] /\ len < W
    BY <1>1, Cells DEF IoInv, IoType
  <2>3. PICK end : end = EndAligned(len)
    OBVIOUS
  <2>4. /\ end \in Nat /\ end < W
        /\ OutputData + len + 3 < W => end = WordOf(OutputData + len + 3)
    <3>1. PICK x \in Nat : /\ x = (OutputData + len) % W
                           /\ OutputData + len < W => x = OutputData + len
      BY Region
    <3>2. PICK y \in Nat : y = (x + 3) % W /\ y < W /\ (x + 3 < W => y = x + 3)
      BY <3>1, Region
    <3>3. end = WordOf(y)
      BY <2>3, <3>1, <3>2 DEF EndAligned
    <3>4. WordOf(y) \in Nat /\ WordOf(y) <= y
      BY <3>2, Words
    <3>5. OutputData + len + 3 < W => y = OutputData + len + 3
      BY <3>1, <3>2, Region
    <3> QED BY <3>2, <3>3, <3>4, <3>5, Region
  <2>5. ASSUME NEW a
        PROVE  a \in OutputWords <=> a \in 0 .. W - 1 /\ a % 4 = 0 /\ IsPublicOutputAddr(a)
    <3>1. a \in OutputWords <=>
            \/ a = OutputLen
            \/ len # 0 /\ a \in OutputData .. end - 1 /\ a % 4 = 0
      BY <2>2, <2>3 DEF OutputWords
    <3>2. IsPublicOutputAddr(a) <=> \/ a = OutputLen
                                    \/ len # 0 /\ a >= OutputData /\ a < end
      BY <2>2, <2>3 DEF IsPublicOutputAddr, EndAligned
    <3>3. OutputLen \in 0 .. W - 1 /\ OutputLen % 4 = 0
      BY Region
    <3>4. a \in OutputData .. end - 1 <=>
            a \in 0 .. W - 1 /\ a >= OutputData /\ a < end
      BY <2>4, Region
    <3> QED BY <3>1, <3>2, <3>3, <3>4
  <2>6. ASSUME NEW i \in DOMAIN ReadOutput
        PROVE  WordOf(OutputData + i - 1) \in OutputWords
    <3>1. len <= Capacity /\ i \in 1 .. len
      BY <2>2, Region DEF ReadOutput
    <3>2. end = WordOf(OutputData + len + 3)
      BY <2>4, <3>1, Region
    <3>3. PICK x \in Nat : x = OutputData + i - 1 /\ OutputData <= x /\ x < OutputData + len
      BY <3>1, Region
    <3>4. /\ WordOf(x) \in Nat /\ WordOf(x) % 4 = 0 /\ OutputData <= WordOf(x)
          /\ WordOf(x) <= x
      BY <3>3, Words, Region
    <3>5. WordOf(x) < end
      <4>1. PICK z \in Nat : z = OutputData + len + 3
        BY Region
      <4>2. WordOf(z) \in Nat /\ z < WordOf(z) + 4
        BY Words
      <4> QED BY <3>2, <3>3, <3>4, <4>1, <4>2, Region
    <3>6. len # 0 /\ WordOf(x) \in OutputData .. end - 1
      BY <2>4, <3>1, <3>4, <3>5, Region
    <3> QED BY <2>2, <2>3, <3>3, <3>4, <3>6 DEF OutputWords
  <2>7. OutputWords = {a \in 0 .. W - 1 : a % 4 = 0 /\ IsPublicOutputAddr(a)}
    BY <2>5
  <2> QED BY <2>1, <2>6, <2>7
<1>2. IoInv => WordsAnchored
  BY <1>1 DEF WordsAnchored
<1> QED BY <1>2, IoInvariance, PTL

\* What the host publishes of a payload: the length, and the words its bytes fall in.
LEMMA PublishedWords ==
  ASSUME IoInv, NEW p \in Payload, mem[OutputLen] = Len(p)
  PROVE  /\ \A a \in OutputWords :
              a = OutputLen \/ \E i \in 1 .. Len(p) : a = WordOf(OutputData + i - 1)
         /\ OutputLen \in OutputWords
         /\ Len(p) # 0 => OutputData \in OutputWords
<1>1. Len(p) \in Nat /\ Len(p) <= Capacity
  BY DEF Payload
<1>2. PICK z \in Nat : z = OutputData + Len(p) + 3 /\ z < W
  BY <1>1, Region
<1>3. EndAligned(Len(p)) = WordOf(z)
  <2>1. (OutputData + Len(p)) % W = OutputData + Len(p)
    BY <1>1, <1>2, Region
  <2>2. ((OutputData + Len(p)) + 3) % W = z
    BY <1>1, <1>2, Region
  <2> QED BY <2>1, <2>2 DEF EndAligned
<1>4. PICK end \in Nat : end = WordOf(z) /\ end <= z /\ z < end + 4 /\ end % 4 = 0
  BY Words
<1>5. OutputWords = {OutputLen} \cup
        (IF Len(p) = 0 THEN {} ELSE {a \in OutputData .. end - 1 : a % 4 = 0})
  BY <1>3, <1>4 DEF OutputWords
<1>6. ASSUME Len(p) # 0, NEW a \in OutputData .. end - 1, a % 4 = 0
      PROVE  \E i \in 1 .. Len(p) : a = WordOf(OutputData + i - 1)
  <2>1. a \in Nat /\ WordOf(a) = a
    <3>1. a \in Nat
      BY <1>4, <1>6, Region
    <3> QED BY <1>6, <3>1, Words
  <2>2. a + 4 <= end
    BY <1>4, <1>6, <2>1, Region
  <2>3. PICK i \in 1 .. Len(p) : i = a - OutputData + 1
    BY <1>1, <1>2, <1>4, <2>1, <2>2, Region
  <2>4. OutputData + i - 1 = a
    BY <2>1, <2>3, Region
  <2> QED BY <2>1, <2>4
<1>7. Len(p) # 0 => OutputData \in OutputData .. end - 1 /\ OutputData % 4 = 0
  BY <1>1, <1>2, <1>4, Region
<1> QED BY <1>5, <1>6, <1>7

\* A segment that holds the call's stores from before the end of its first word holds
\* every published word; one that does not lacks that word.
LEMMA HeldWords ==
  ASSUME IoInv, NEW p \in Payload, promised = <<p>>, NEW q \in Payload,
         q = p \/ p = <<>>, Outputs(p, q), todo = <<>>, mem[OutputLen] = Len(p)
  PROVE  OutputWords \subseteq stored <=> cut < FirstWordDone
<1>1. PICK len \in Nat : len = Len(p) /\ len < W
  BY Region DEF Payload
<1>2. PICK all : all = OutputStores(q, len)
  OBVIOUS
<1>3. /\ Len(q) \in Nat /\ Len(all) = Len(q) + 2
      /\ \A i \in 1 .. Len(q) : all[i] = <<OutputData + i - 1, q[i]>>
      /\ all[Len(q) + 1] = <<OutputLen, len>>
      /\ all[Len(q) + 2] = <<HaltFlag, 1>>
  BY <1>1, <1>2, OutputFields DEF Payload
<1>4. made \in Nat /\ cut \in Nat
  BY DEF IoInv, IoType
<1>5. /\ made = Len(q) + 2 /\ cut < Len(q) + 2
      /\ \A j \in cut + 1 .. made : WordOf(all[j][1]) \in stored
      /\ cut > 0 => stored \subseteq {WordOf(all[j][1]) : j \in cut + 1 .. made}
  BY <1>1, <1>2, <1>3, <1>4 DEF Outputs
<1>6. WordOf(OutputLen) = OutputLen /\ WordOf(HaltFlag) = HaltFlag
  BY Region, Words
<1>7. ASSUME NEW i \in 1 .. Len(q)
      PROVE  /\ all[i][1] = OutputData + i - 1 /\ OutputData + i - 1 \in Nat
             /\ WordOf(OutputData + i - 1) \in Nat
             /\ OutputData <= WordOf(OutputData + i - 1)
             /\ i <= 4 <=> WordOf(OutputData + i - 1) = OutputData
  <2>1. PICK x \in Nat : x = OutputData + i - 1 /\ OutputData <= x
    BY <1>3, Region
  <2>2. WordOf(x) \in Nat /\ OutputData <= WordOf(x) /\ WordOf(x) <= x /\ x < WordOf(x) + 4
        /\ WordOf(x) % 4 = 0
    BY <2>1, Words, Region
  <2>3. i <= 4 <=> WordOf(x) = OutputData
    <3>1. PICK w \in Nat, d \in Nat : w = WordOf(x) /\ d = OutputData /\ d % 4 = 0
      BY <2>2, Region
    <3>2. i \in Nat /\ x = d + i - 1 /\ d <= w /\ w <= x /\ x < w + 4 /\ w % 4 = 0
      BY <1>3, <2>1, <2>2, <3>1
    <3>3. w = d => i <= 4
      BY <3>1, <3>2
    <3>4. i <= 4 => w = d
      <4>1. i <= 4 => w < d + 4
        BY <3>1, <3>2
      <4>2. w < d + 4 => w = d
        BY <3>1, <3>2
      <4> QED BY <4>1, <4>2
    <3> QED BY <3>1, <3>3, <3>4
  <2> QED BY <1>3, <2>1, <2>2, <2>3
<1>8. CASE p = <<>>
  <2>1. FirstWordDone = Len(q) + 1 /\ OutputWords = {OutputLen}
    <3>1. promised[1] = <<>> /\ Len(p) = 0
      BY <1>8
    <3> QED BY <1>5, <3>1, <1>3 DEF FirstWordDone, OutputWords
  <2>2. ASSUME cut < Len(q) + 1 PROVE OutputLen \in stored
    <3>1. Len(q) + 1 \in cut + 1 .. made
      BY <1>3, <1>4, <1>5, <2>2
    <3> QED BY <1>3, <1>5, <1>6, <3>1
  <2>3. ASSUME ~(cut < Len(q) + 1) PROVE OutputLen \notin stored
    <3>1. cut = Len(q) + 1 /\ cut > 0 /\ cut + 1 .. made = {Len(q) + 2}
      BY <1>3, <1>4, <1>5, <2>3
    <3>2. stored \subseteq {HaltFlag}
      BY <1>3, <1>5, <1>6, <3>1
    <3> QED BY <3>2, Cells
  <2> QED BY <2>1, <2>2, <2>3
<1>9. CASE p # <<>>
  <2>1. q = p /\ Len(p) \in Nat \ {0}
    BY <1>9 DEF Payload
  <2>2. PICK first \in Nat : first = FirstWordDone
                             /\ first = (IF 4 <= Len(p) THEN 4 ELSE Len(p))
    <3>1. FirstWordDone = Min({4, Len(p)})
      BY <1>9 DEF FirstWordDone
    <3>2. 4 \in Nat
      OBVIOUS
    <3> QED BY <2>1, <3>1, <3>2, MinTwo
  <2>3. first \in 1 .. Len(p) /\ first <= 4 /\ \A i \in first + 1 .. Len(p) : i > 4
    BY <2>1, <2>2
  <2>4. ASSUME cut < first, NEW a \in OutputWords PROVE a \in stored
    <3>1. CASE a = OutputLen
      <4>1. Len(q) + 1 \in cut + 1 .. made
        BY <1>3, <1>4, <1>5, <2>1, <2>3, <2>4
      <4> QED BY <1>3, <1>5, <1>6, <3>1, <4>1
    <3>2. ASSUME NEW i \in 1 .. Len(p), a = WordOf(OutputData + i - 1) PROVE a \in stored
      <4>1. CASE i <= 4
        <5>1. a = WordOf(all[first][1])
          BY <1>7, <2>1, <2>3, <3>2, <4>1
        <5>2. first \in cut + 1 .. made
          BY <1>3, <1>4, <1>5, <2>1, <2>3, <2>4
        <5> QED BY <1>5, <5>1, <5>2
      <4>2. CASE ~(i <= 4)
        <5>1. i \in cut + 1 .. made
          BY <1>3, <1>4, <1>5, <2>1, <2>3, <2>4, <4>2
        <5> QED BY <1>5, <1>7, <2>1, <3>2, <5>1
      <4> QED BY <4>1, <4>2
    <3> QED BY <3>1, <3>2, PublishedWords
  <2>5. ASSUME ~(cut < first) PROVE OutputData \in OutputWords /\ OutputData \notin stored
    <3>1. cut > 0 /\ cut >= first
      BY <1>4, <2>3, <2>5
    <3>2. ASSUME NEW j \in cut + 1 .. made PROVE WordOf(all[j][1]) # OutputData
      <4>1. CASE j \in 1 .. Len(q)
        <5>1. ~(j <= 4)
          BY <1>4, <2>1, <2>3, <3>1, <4>1
        <5> QED BY <1>7, <4>1, <5>1
      <4>2. CASE j = Len(q) + 1
        BY <1>3, <1>6, <4>2, Region
      <4>3. CASE j = Len(q) + 2
        <5>1. WordOf(all[j][1]) = HaltFlag
          BY <1>3, <1>6, <4>3
        <5>2. HaltFlag # OutputData
          BY Region
        <5> QED BY <5>1, <5>2
      <4>4. j \in 1 .. Len(q) + 2
        BY <1>4, <1>5
      <4> QED BY <1>3, <4>1, <4>2, <4>3, <4>4
    <3>3. OutputData \notin stored
      BY <1>5, <3>1, <3>2
    <3> QED BY <2>1, <3>3, PublishedWords
  <2> QED BY <2>2, <2>4, <2>5
<1> QED BY <1>8, <1>9

\* glue.rs, public_data.rs: a cut after the first word of a payload, and only that, makes
\* the last segment of a halting run lack a clock of a published word.
THEOREM OutputCutAlways == Spec => []OutputCut
<1>1. ASSUME IoInv, status = "ended", mem[HaltFlag] # 0, made > 1, promised # <<>>
      PROVE  Final.panics <=> cut >= FirstWordDone
  <2>1. todo = <<>> /\ Final.panics = ~(OutputWords \subseteq stored)
    BY <1>1 DEF IoInv, Reported
  <2>2. made \in Nat /\ cut \in Nat /\ ~(made + Len(todo) <= 1)
    BY <1>1, <2>1 DEF IoInv, IoType
  <2>3. PICK p \in Payload, q \in Payload :
          promised = <<p>> /\ (q = p \/ p = <<>>) /\ Outputs(p, q)
    BY <1>1, <2>2 DEF IoInv, Calling
  <2>4. PICK r \in Payload : promised = <<r>> /\ Kept(mem, todo, r)
    BY <1>1 DEF IoInv, Promised
  <2>5. p = r
    BY <2>3, <2>4
  <2>6. mem[OutputLen] = Len(p)
    BY <2>1, <2>4, <2>5 DEF Kept, Will
  <2>7. OutputWords \subseteq stored <=> cut < FirstWordDone
    BY <1>1, <2>1, <2>3, <2>6, HeldWords
  <2>8. FirstWordDone \in Int
    <3>1. Len(p) \in Nat /\ 4 \in Nat /\ promised[1] = p
      BY <2>3 DEF Payload
    <3>2. Min({4, Len(p)}) \in Nat
      BY <3>1, MinTwo
    <3> QED BY <2>2, <3>1, <3>2 DEF FirstWordDone
  <2>9. cut >= FirstWordDone <=> ~(cut < FirstWordDone)
    BY <2>2, <2>8
  <2> QED BY <2>1, <2>7, <2>9
<1>2. IoInv => OutputCut
  BY <1>1 DEF OutputCut
<1> QED BY <1>2, IoInvariance, PTL
=============================================================================
