---------------------------- MODULE HeapFreelist ----------------------------
(***************************************************************************)
(* The memory allocator of the firmware: sys::heap_allocator on top of     *)
(* detail::freelist, a first-fit allocator with boundary headers.  It      *)
(* serves the FreeRTOS kernel objects (pvPortMalloc) and, through the      *)
(* aligned interface, the default memory resource of the standard library. *)
(*                                                                         *)
(* Addresses and sizes are counted in words of four bytes.  The list of    *)
(* all blocks in address order is the domain of heap.blocks; the doubly    *)
(* linked free list is the sequence heap.free, whose first element is      *)
(* m_first_free.  The assertions are those of a build that only logs them. *)
(***************************************************************************)
EXTENDS Integers, Sequences, FiniteSets, SequencesExt, FiniteSetsExt

CONSTANTS Words,        \* the size of the memory
          Requests,     \* the sizes asked for
          Alignments,   \* the alignments asked for
          Interfaces    \* whether callers use allocate(size, alignment)

Header   == 3           \* sizeof(block_header)
FreeNode == 5           \* sizeof(block)

ASSUME HeapAssumption ==
    /\ Words \in Nat /\ Words >= FreeNode
    /\ Requests \subseteq Nat \ {0}
    /\ \A n \in Requests : n + Header + 1 >= FreeNode
    /\ Alignments \subseteq Nat \ {0}
    /\ Interfaces \subseteq BOOLEAN

VARIABLES aligned,      \* all callers use the aligned interface, or none
          heap,         \* blocks: start |-> size and m_used; free: the list;
                        \* failed: the assertion in mark_used() failed
          padding,      \* the blocks that callers own |-> the words between
                        \* the header and the pointer the caller was given
          allocated,    \* m_allocated
          drained,      \* history: the free list was empty once
          misled        \* history: release() took a block in use for a free
                        \* one and wrote its list links into the user's data

vars == <<aligned, heap, padding, allocated, drained, misled>>

live == DOMAIN padding

Addresses == 0..(Words - 1)
PositionOf(s, a) == CHOOSE i \in DOMAIN s : s[i] = a

-----------------------------------------------------------------------------
(* block *)

(* Mutant of MarkUsed: only asserts. *)
MarkUsedNot(h, a) == [h EXCEPT !.failed = @ \/ h.blocks[a].used]

MarkUsed(h, a) == [h EXCEPT !.failed = @ \/ h.blocks[a].used,
                            !.blocks[a].used = TRUE]

UnlinkFromFreelist(h, a) ==
    [MarkUsed(h, a) EXCEPT !.free = RemoveAt(@, PositionOf(@, a))]

(* Mutant of MergeNext: leaves the swallowed block in the free list. *)
MergeKeepsLink(h, a, b) ==
    [h EXCEPT !.blocks = [c \in DOMAIN @ \ {b} |->
        IF c = a THEN [@[a] EXCEPT !.size = @ + h.blocks[b].size] ELSE @[c]]]

(* merge_next(): block a swallows b, its successor in both lists. *)
MergeNext(h, a, b) ==
    LET u == UnlinkFromFreelist([h EXCEPT !.blocks[a].size = @ + h.blocks[b].size], b)
    IN  [u EXCEPT !.blocks = [c \in DOMAIN @ \ {b} |-> @[c]]]

End(h, a) == a + h.blocks[a].size

(* Mutant of Merge: joins p with the next block only. *)
MergeForward(h, p) ==
    LET i == PositionOf(h.free, p)
    IN  IF i < Len(h.free) /\ End(h, p) = h.free[i + 1]
        THEN MergeNext(h, p, h.free[i + 1])
        ELSE h

(* merge(): joins p with the next block of the free list, and then the     *)
(* previous one with p, where they touch.                                  *)
Merge(h, p) ==
    LET i == PositionOf(h.free, p)
        g == IF i < Len(h.free) /\ End(h, p) = h.free[i + 1]
             THEN MergeNext(h, p, h.free[i + 1])
             ELSE h
    IN  IF i > 1 /\ End(g, g.free[i - 1]) = p
        THEN MergeNext(g, g.free[i - 1], p)
        ELSE g

AppendToFreelist(h, a, p) ==
    Merge([h EXCEPT !.free = InsertAt(@, PositionOf(@, a) + 1, p),
                    !.blocks[p].used = FALSE], p)

PrependToFreelist(h, p) ==
    Merge([h EXCEPT !.free = <<p>> \o @, !.blocks[p].used = FALSE], p)

(* Mutant of Split: the block keeps its size. *)
SplitUnshrunk(h, a, n) ==
    LET tail == a + n
        cut  == [b \in DOMAIN h.blocks \cup {tail} |->
                    IF b = tail THEN [size |-> h.blocks[a].size - n, used |-> FALSE]
                                ELSE h.blocks[b]]
    IN  AppendToFreelist([h EXCEPT !.blocks = cut], a, tail)

(* The tail joins both lists before the block it was cut from shrinks. *)
Split(h, a, n) ==
    LET tail == a + n
        cut  == [b \in DOMAIN h.blocks \cup {tail} |->
                    IF b = tail THEN [size |-> h.blocks[a].size - n, used |-> FALSE]
                                ELSE h.blocks[b]]
    IN  [AppendToFreelist([h EXCEPT !.blocks = cut], a, tail)
            EXCEPT !.blocks[a].size = n]

-----------------------------------------------------------------------------
(* freelist *)

Fitting(h, n) == {i \in DOMAIN h.free : h.blocks[h.free[i]].size >= n}

(* request(): takes block a for a request of n words. *)
Request(h, a, n) ==
    LET s == IF h.blocks[a].size - n >= FreeNode THEN Split(h, a, n) ELSE h
    IN  UnlinkFromFreelist(s, a)

(* release(): links the block behind the nearest one before it that is     *)
(* marked free.  Alone in the list it is not marked free itself.           *)
FreeBefore(h, a) == {b \in DOMAIN h.blocks : b < a /\ ~h.blocks[b].used}

Release(h, a) ==
    IF FreeBefore(h, a) # {}
    THEN AppendToFreelist(h, Max(FreeBefore(h, a)), a)
    ELSE IF h.free # <<>>
         THEN PrependToFreelist(h, a)
         ELSE [h EXCEPT !.free = <<a>>]

-----------------------------------------------------------------------------
(* heap_allocator *)

Init == /\ aligned \in Interfaces
        /\ heap = [blocks |-> [a \in {0} |-> [size |-> Words, used |-> FALSE]],
                   free |-> <<0>>, failed |-> FALSE]
        /\ padding = [a \in {} |-> 0] /\ allocated = 0
        /\ drained = FALSE /\ misled = FALSE

(* allocate(size) adds between one and four bytes to every size: a word. *)
BlockSize(words) == words + 1 + Header

(* allocate(size, alignment) keeps the padding in the byte before the      *)
(* pointer it returns.  Without padding that byte is the last of the       *)
(* header, and writing the zero clears m_used.  Alignment 0 stands for the *)
(* plain interface.                                                        *)
Padding(a, alignment) ==
    IF alignment = 0 THEN 0 ELSE (-(a + Header)) % alignment

StorePadding(h, a, alignment) ==
    IF alignment # 0 /\ Padding(a, alignment) = 0
    THEN [h EXCEPT !.blocks[a].used = FALSE]
    ELSE h

(* Takes the first block of the list that is large enough. *)
Grant(n, alignment) ==
    /\ Fitting(heap, n) # {}
    /\ LET a == heap.free[Min(Fitting(heap, n))]
       IN  /\ heap' = StorePadding(Request(heap, a, n), a, alignment)
           /\ padding' = [b \in live \cup {a} |->
                             IF b = a THEN Padding(a, alignment) ELSE padding[b]]
           /\ allocated' = allocated + heap'.blocks[a].size
    /\ drained' = (drained \/ heap'.free = <<>>)
    /\ UNCHANGED <<aligned, misled>>

Allocate(words) == Grant(BlockSize(words), 0)

AllocateAligned(words, alignment) == Grant(BlockSize(words + alignment), alignment)

(* Both forms of deallocate(): the padding is read back from its byte. *)
Deallocate(a) ==
    /\ a \in live
    /\ padding' = [b \in live \ {a} |-> padding[b]]
    /\ allocated' = allocated - heap.blocks[a].size
    /\ LET before == FreeBefore(heap, a)
       IN  IF before # {} /\ Max(before) \in live
           THEN misled' = TRUE /\ UNCHANGED heap
           ELSE heap' = Release(heap, a) /\ UNCHANGED misled
    /\ UNCHANGED <<aligned, drained>>

Next == /\ ~misled
        /\ \/ \E n \in Requests :
                 \/ ~aligned /\ Allocate(n)
                 \/ aligned /\ \E al \in Alignments : AllocateAligned(n, al)
           \/ \E a \in Addresses : Deallocate(a)

Spec == Init /\ [][Next]_vars

-----------------------------------------------------------------------------
TypeOK ==
    /\ aligned \in BOOLEAN
    /\ DOMAIN heap.blocks \subseteq Addresses
    /\ \A a \in DOMAIN heap.blocks :
           heap.blocks[a] \in [size : 1..Words, used : BOOLEAN]
    /\ heap.free \in Seq(DOMAIN heap.blocks)
    /\ heap.failed \in BOOLEAN
    /\ live \subseteq DOMAIN heap.blocks
    /\ \A a \in live : padding[a] \in 0..(heap.blocks[a].size - Header)
    /\ allocated \in Nat
    /\ drained \in BOOLEAN /\ misled \in BOOLEAN

(* The blocks cover the memory without a hole or an overlap, each of them  *)
(* large enough for the links it carries when it is free.                  *)
MemoryTiled ==
    LET starts == DOMAIN heap.blocks
    IN  /\ 0 \in starts
        /\ \A a \in starts :
              /\ heap.blocks[a].size >= FreeNode
              /\ End(heap, a) \in starts \cup {Words}
              /\ \A b \in starts : b > a => b >= End(heap, a)

(* They do, and allocated() is the sum of the blocks in use, across splits *)
(* and merges.                                                             *)
BlocksTile ==
    /\ MemoryTiled
    /\ allocated = MapThenSumSet(LAMBDA a : heap.blocks[a].size, live)

(* The free list holds exactly the blocks that nobody owns, each once: no  *)
(* sequence of calls leaks a block or hands one out twice.  With the plain *)
(* interface that is so also after the list ran empty and blocks keep      *)
(* their used mark; with the aligned one until release() is misled.        *)
FreeListExact ==
    ~aligned \/ ~misled =>
        /\ Range(heap.free) = DOMAIN heap.blocks \ live
        /\ Len(heap.free) = Cardinality(Range(heap.free))

(* Until the list runs empty for the first time it is sorted by address,   *)
(* no two free blocks touch, as release() has joined them all, and what    *)
(* mark_used() asserts is so: the block it marks was free.  (Padding bytes *)
(* may mislead the aligned interface.)                                     *)
CoalescedUntilDrained ==
    ~drained /\ ~aligned =>
        /\ ~heap.failed
        /\ \A i, j \in DOMAIN heap.free :
               i < j => End(heap, heap.free[i]) < heap.free[j]

(* release() never takes a block in use for a free one: what the comment   *)
(* "Find first free node." says of its loop.                               *)
WalkFindsFreeBlock == ~misled

(* The allocator keeps the promise of Arena: the words behind the pointer  *)
(* are as many as asked for, nobody else's, and stay put until given back. *)
Data(a)  == a + Header + padding[a]
Owner(d) == CHOOSE a \in live : Data(a) = d
Given    == [d \in {Data(a) : a \in live} |-> End(heap, Owner(d)) - d]
Granted  == INSTANCE Arena WITH regions <- Given
ImplementsArena == Granted!Spec
=============================================================================
