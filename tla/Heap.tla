-------------------------------- MODULE Heap ---------------------------------
(***************************************************************************)
(* The guest's global allocator (guest/guest-bin/src/heap.rs): a bump      *)
(* allocator between two linker symbols that never frees.  usize has W     *)
(* values; a release build wraps.                                          *)
(***************************************************************************)
EXTENDS Integers, Sequences

CONSTANTS
  HeapStart,  \* __heap_start
  HeapEnd,    \* __heap_end
  W,          \* the number of values of usize
  Layouts     \* the layouts a guest may ask for

\* Layout guarantees that size, rounded up to align, does not exceed isize::MAX, and
\* that align is a power of two; the data region ends in the lower half of the addresses.
ASSUME HeapAssumption ==
  /\ HeapStart \in Nat \ {0}
  /\ HeapEnd \in Nat
  /\ W \in Nat \ {0}
  /\ HeapStart <= HeapEnd
  /\ 2 * HeapEnd <= W
  /\ Layouts \subseteq [size : Nat, align : Nat \ {0}]
  /\ \A l \in Layouts : W % l.align = 0 /\ 2 * (l.size + l.align - 1) < W

VARIABLES
  next,   \* NEXT: the next free address, 0 before the first allocation
  blocks  \* history: the blocks handed out, in order

heapVars == <<next, blocks>>

HeapInit == next = 0 /\ blocks = <<>>

\* Bug: rounds down.
AlignDown(a, align) == a - (a % align)

\* (a + align - 1) & !(align - 1).
AlignUp(a, align) ==
  LET top == (a + (align - 1)) % W
  IN  top - (top % align)

\* Where the search for a block begins.
Free == IF next = 0 THEN HeapStart ELSE next

\* GlobalAlloc::alloc: a null pointer, and nothing changed, when the block would end
\* past the heap.
Alloc(l) ==
  LET aligned == AlignUp(Free, l.align)
      new_next == (aligned + l.size) % W
  IN  IF new_next > HeapEnd
        THEN UNCHANGED heapVars
        ELSE /\ next' = new_next
             /\ blocks' = Append(blocks, [at |-> aligned, size |-> l.size,
                                          align |-> l.align])

\* Blocks are aligned as asked.
Aligned == \A i \in DOMAIN blocks : blocks[i].at % blocks[i].align = 0

\* Blocks lie in the heap, in the order they were handed out, and never overlap.
Disjoint ==
  \A i \in DOMAIN blocks :
    /\ HeapStart <= blocks[i].at
    /\ blocks[i].at + blocks[i].size <= HeapEnd
    /\ \A j \in 1 .. i - 1 : blocks[j].at + blocks[j].size <= blocks[i].at

\* heap.rs: a block handed out is aligned, inside the heap and apart from every other
\* one, however close the sizes asked for come to the end of the heap or of the addresses.
AllocSound == Aligned /\ Disjoint
=============================================================================
