------------------------ MODULE HeapFreelist_proofs ------------------------
(***************************************************************************)
(* Proofs about the allocator, for every size of the memory, every set of  *)
(* requests and alignments and both interfaces: the free list is exact,    *)
(* free blocks are joined until the list runs empty, blocks tile the       *)
(* memory and are counted, and callers get what Arena promises.            *)
(*                                                                         *)
(* The blocks are followed through merge(), append_to_freelist(), split(), *)
(* request() and release() in turn, each described by an operator of its   *)
(* own (Swallowed, Fused, Freed, Carved, Granting) of the heap before and  *)
(* after; allocate() and deallocate() then preserve HeapInv.               *)
(***************************************************************************)
EXTENDS HeapFreelist, SequenceTheorems, FiniteSetTheorems, WellFoundedInduction, TLAPS

(* The elements of a list are those of a set, each once. *)
Lists(F, S) == /\ F \in Seq(S)
               /\ \A i, j \in 1..Len(F) : F[i] = F[j] => i = j
               /\ \A s \in S : \E i \in 1..Len(F) : F[i] = s

(* What a list of S is, unfolded. *)
LEMMA ListFacts ==
    ASSUME NEW S, NEW F, Lists(F, S)
    PROVE  /\ F \in Seq(S) /\ Len(F) \in Nat /\ DOMAIN F = 1..Len(F)
           /\ \A i \in 1..Len(F) : F[i] \in S
           /\ \A i, j \in 1..Len(F) : F[i] = F[j] => i = j
           /\ \A s \in S : \E i \in 1..Len(F) : F[i] = s
BY DEF Lists

Inserted(G, F, k, e) ==
    /\ Len(G) = Len(F) + 1
    /\ \A j \in 1..(Len(F) + 1) : G[j] = IF j < k THEN F[j] ELSE IF j = k THEN e ELSE F[j - 1]

(* InsertAt() puts a new element at its place and moves the rest up by     *)
(* one.                                                                    *)
LEMMA InsertList ==
    ASSUME NEW S, NEW F, Lists(F, S), NEW e, e \notin S, NEW k \in 1..(Len(F) + 1)
    PROVE  Lists(InsertAt(F, k, e), S \cup {e}) /\ Inserted(InsertAt(F, k, e), F, k, e)
<1> DEFINE T == S \cup {e}
           A == SubSeq(F, 1, k - 1)
           B == SubSeq(F, k, Len(F))
           G == InsertAt(F, k, e)
<1>0. F \in Seq(S) /\ Len(F) \in Nat /\ \A i \in 1..Len(F) : F[i] \in S
  BY DEF Lists
<1>1. A \in Seq(T) /\ Len(A) = k - 1 /\ \A i \in 1..(k - 1) : A[i] = F[i]
  <2>1. \A i \in 1..(k - 1) : F[i] \in T
    BY <1>0
  <2>2. k - 1 \in Int /\ 1 \in Int
    BY <1>0
  <2>3. /\ A \in Seq(T)
        /\ Len(A) = IF 1 <= k - 1 THEN (k - 1) - 1 + 1 ELSE 0
        /\ \A i \in 1..((k - 1) - 1 + 1) : A[i] = F[1 + i - 1]
    BY <2>1, <2>2, SubSeqProperties
  <2> QED
    BY <1>0, <2>3
<1>2. B \in Seq(T) /\ Len(B) = Len(F) - k + 1 /\ \A i \in 1..(Len(F) - k + 1) : B[i] = F[k + i - 1]
  <2>1. \A i \in k..Len(F) : F[i] \in T
    BY <1>0
  <2>2. k \in Int /\ Len(F) \in Int
    BY <1>0
  <2>3. /\ B \in Seq(T)
        /\ Len(B) = IF k <= Len(F) THEN Len(F) - k + 1 ELSE 0
        /\ \A i \in 1..(Len(F) - k + 1) : B[i] = F[k + i - 1]
    BY <2>1, <2>2, SubSeqProperties
  <2> QED
    BY <1>0, <2>3
<1>3. <<e>> \in Seq(T) /\ Len(<<e>>) = 1 /\ <<e>>[1] = e
  OBVIOUS
<1> DEFINE C == A \o <<e>>
<1>4. C \in Seq(T) /\ Len(C) = k /\ \A i \in 1..k : C[i] = IF i < k THEN F[i] ELSE e
  <2>1. /\ C \in Seq(T) /\ Len(C) = Len(A) + Len(<<e>>)
        /\ \A i \in 1..(Len(A) + Len(<<e>>)) : C[i] = IF i <= Len(A) THEN A[i] ELSE <<e>>[i - Len(A)]
    BY <1>1, <1>3, ConcatProperties
  <2> HIDE DEF A, C
  <2> QED
    BY <1>1, <1>3, <2>1, <1>0
<1>5. G = C \o B
  BY DEF InsertAt
<1>6. /\ G \in Seq(T) /\ Len(G) = Len(F) + 1
      /\ \A j \in 1..(Len(F) + 1) : G[j] = IF j < k THEN F[j] ELSE IF j = k THEN e ELSE F[j - 1]
  <2> HIDE DEF A, B, C, G, T
  <2>1. /\ G \in Seq(T) /\ Len(G) = Len(C) + Len(B)
        /\ \A i \in 1..(Len(C) + Len(B)) : G[i] = IF i <= Len(C) THEN C[i] ELSE B[i - Len(C)]
    BY <1>2, <1>4, <1>5, ConcatProperties
  <2>2. Len(G) = Len(F) + 1
    BY <1>0, <1>2, <1>4, <2>1
  <2>3. ASSUME NEW j \in 1..(Len(F) + 1) PROVE G[j] = IF j < k THEN F[j] ELSE IF j = k THEN e ELSE F[j - 1]
    <3>1. CASE j <= k
      BY <1>0, <1>2, <1>4, <2>1, <3>1
    <3>2. CASE j > k
      <4>1. G[j] = B[j - k] /\ j - k \in 1..(Len(F) - k + 1)
        BY <1>0, <1>2, <1>4, <2>1, <3>2
      <4>2. B[j - k] = F[k + (j - k) - 1] /\ k + (j - k) - 1 = j - 1
        BY <1>0, <1>2, <4>1
      <4> QED
        BY <3>2, <4>1, <4>2
    <3> QED
      BY <1>0, <3>1, <3>2
  <2> QED
    BY <2>1, <2>2, <2>3
<1> HIDE DEF A, B, C, G
<1>7. \A i, j \in 1..Len(G) : G[i] = G[j] => i = j
  <2> DEFINE Old(i) == IF i < k THEN i ELSE i - 1
  <2>1. ASSUME NEW i \in 1..Len(G), i # k PROVE Old(i) \in 1..Len(F) /\ G[i] = F[Old(i)] /\ G[i] # e
    <3>1. Old(i) \in 1..Len(F)
      BY <1>0, <1>6, <2>1
    <3>2. G[i] = F[Old(i)]
      BY <1>0, <1>6, <2>1
    <3> QED
      BY <1>0, <3>1, <3>2
  <2>2. \A i, j \in 1..Len(F) : F[i] = F[j] => i = j
    BY DEF Lists
  <2>3. G[k] = e
    BY <1>0, <1>6
  <2>4. ASSUME NEW i \in 1..Len(G), NEW j \in 1..Len(G), i # k, j # k, G[i] = G[j] PROVE i = j
    <3>1. Old(i) = Old(j)
      BY <2>1, <2>2, <2>4
    <3> QED
      BY <1>0, <1>6, <2>4, <3>1
  <2> QED
    BY <2>1, <2>3, <2>4
<1>8. \A s \in T : \E i \in 1..Len(G) : G[i] = s
  <2>1. G[k] = e /\ k \in 1..Len(G)
    BY <1>0, <1>6
  <2>2. ASSUME NEW s \in S PROVE \E i \in 1..Len(G) : G[i] = s
    <3>1. PICK i \in 1..Len(F) : F[i] = s
      BY DEF Lists
    <3>2. CASE i < k
      <4>1. G[i] = s /\ i \in 1..Len(G)
        BY <1>0, <1>6, <3>1, <3>2
      <4> QED
        BY <4>1
    <3>3. CASE i >= k
      <4>1. G[i + 1] = F[(i + 1) - 1] /\ i + 1 \in 1..Len(G) /\ (i + 1) - 1 = i
        BY <1>0, <1>6, <3>1, <3>3
      <4>2. G[i + 1] = s
        BY <3>1, <4>1
      <4> QED
        BY <4>1, <4>2
    <3> QED
      BY <1>0, <3>2, <3>3
  <2> QED
    BY <2>1, <2>2 DEF T
<1>9. Lists(G, T)
  BY <1>6, <1>7, <1>8 DEF Lists
<1>10. Inserted(G, F, k, e)
  BY <1>6, Zenon DEF Inserted
<1> QED
  BY <1>9, <1>10 DEF G, T

(* RemoveAt() takes one element out and moves the rest down by one. *)
LEMMA RemoveList ==
    ASSUME NEW S, NEW F, Lists(F, S), NEW k \in 1..Len(F)
    PROVE  /\ Lists(RemoveAt(F, k), S \ {F[k]})
           /\ Len(RemoveAt(F, k)) = Len(F) - 1
           /\ \A j \in 1..(Len(F) - 1) : RemoveAt(F, k)[j] = IF j < k THEN F[j] ELSE F[j + 1]
<1> DEFINE T == S \ {F[k]}
           A == SubSeq(F, 1, k - 1)
           B == SubSeq(F, k + 1, Len(F))
           G == RemoveAt(F, k)
<1>0. /\ F \in Seq(S) /\ Len(F) \in Nat /\ \A i \in 1..Len(F) : F[i] \in S
      /\ \A i \in 1..Len(F) : i # k => F[i] \in T
  BY DEF Lists
<1>1. A \in Seq(T) /\ Len(A) = k - 1 /\ \A i \in 1..(k - 1) : A[i] = F[i]
  <2>1. \A i \in 1..(k - 1) : F[i] \in T
    BY <1>0
  <2>2. k - 1 \in Int /\ 1 \in Int
    BY <1>0
  <2>3. /\ A \in Seq(T)
        /\ Len(A) = IF 1 <= k - 1 THEN (k - 1) - 1 + 1 ELSE 0
        /\ \A i \in 1..((k - 1) - 1 + 1) : A[i] = F[1 + i - 1]
    BY <2>1, <2>2, SubSeqProperties
  <2> QED
    BY <1>0, <2>3
<1>2. B \in Seq(T) /\ Len(B) = Len(F) - k /\ \A i \in 1..(Len(F) - k) : B[i] = F[k + i]
  <2>1. \A i \in (k + 1)..Len(F) : F[i] \in T
    BY <1>0
  <2>2. k + 1 \in Int /\ Len(F) \in Int
    BY <1>0
  <2>3. /\ B \in Seq(T)
        /\ Len(B) = IF k + 1 <= Len(F) THEN Len(F) - (k + 1) + 1 ELSE 0
        /\ \A i \in 1..(Len(F) - (k + 1) + 1) : B[i] = F[(k + 1) + i - 1]
    BY <2>1, <2>2, SubSeqProperties
  <2>4. \A i \in 1..(Len(F) - k) : i \in 1..(Len(F) - (k + 1) + 1) /\ (k + 1) + i - 1 = k + i
    BY <1>0
  <2> HIDE DEF B
  <2> QED
    BY <1>0, <2>3, <2>4
<1>5. G = A \o B
  BY DEF RemoveAt
<1>6. /\ G \in Seq(T) /\ Len(G) = Len(F) - 1
      /\ \A j \in 1..(Len(F) - 1) : G[j] = IF j < k THEN F[j] ELSE F[j + 1]
  <2> HIDE DEF A, B, G, T
  <2>1. /\ G \in Seq(T) /\ Len(G) = Len(A) + Len(B)
        /\ \A i \in 1..(Len(A) + Len(B)) : G[i] = IF i <= Len(A) THEN A[i] ELSE B[i - Len(A)]
    BY <1>1, <1>2, <1>5, ConcatProperties
  <2>2. Len(G) = Len(F) - 1
    BY <1>0, <1>1, <1>2, <2>1
  <2>3. ASSUME NEW j \in 1..(Len(F) - 1) PROVE G[j] = IF j < k THEN F[j] ELSE F[j + 1]
    <3>0. /\ j \in 1..(Len(A) + Len(B)) /\ Len(A) = k - 1
          /\ G[j] = IF j <= k - 1 THEN A[j] ELSE B[j - (k - 1)]
      <4>1. j \in 1..(Len(A) + Len(B)) /\ Len(A) = k - 1
        BY <1>0, <1>1, <1>2
      <4> QED
        BY <2>1, <4>1
    <3>1. CASE j < k
      <4>1. j \in 1..(k - 1) /\ j <= k - 1
        BY <1>0, <3>1
      <4> QED
        BY <1>1, <3>0, <3>1, <4>1
    <3>2. CASE j >= k
      <4>1. G[j] = B[j - (k - 1)] /\ j - (k - 1) \in 1..(Len(F) - k)
        BY <1>0, <3>0, <3>2
      <4>2. B[j - (k - 1)] = F[k + (j - (k - 1))] /\ k + (j - (k - 1)) = j + 1
        BY <1>0, <1>2, <4>1
      <4> QED
        BY <3>2, <4>1, <4>2
    <3> QED
      BY <1>0, <3>1, <3>2
  <2> QED
    BY <2>1, <2>2, <2>3
<1> HIDE DEF A, B, G, T
<1>7. \A i, j \in 1..Len(G) : G[i] = G[j] => i = j
  <2> DEFINE Old(i) == IF i < k THEN i ELSE i + 1
  <2>1. ASSUME NEW i \in 1..Len(G) PROVE Old(i) \in 1..Len(F) /\ G[i] = F[Old(i)]
    <3>1. Old(i) \in 1..Len(F)
      BY <1>0, <1>6, <2>1
    <3>2. G[i] = F[Old(i)]
      BY <1>0, <1>6, <2>1
    <3> QED
      BY <3>1, <3>2
  <2>2. \A i, j \in 1..Len(F) : F[i] = F[j] => i = j
    BY DEF Lists
  <2>4. ASSUME NEW i \in 1..Len(G), NEW j \in 1..Len(G), G[i] = G[j] PROVE i = j
    <3>1. Old(i) = Old(j)
      BY <2>1, <2>2, <2>4
    <3> QED
      BY <1>0, <1>6, <2>4, <3>1
  <2> QED
    BY <2>4
<1>8. \A s \in T : \E i \in 1..Len(G) : G[i] = s
  <2> SUFFICES ASSUME NEW s \in T PROVE \E i \in 1..Len(G) : G[i] = s
    OBVIOUS
  <2>1. PICK i \in 1..Len(F) : F[i] = s /\ i # k
    BY DEF Lists, T
  <2>2. CASE i < k
    <3>1. G[i] = s /\ i \in 1..Len(G)
      BY <1>0, <1>6, <2>1, <2>2
    <3> QED
      BY <3>1
  <2>3. CASE i > k
    <3>1. i - 1 \in 1..Len(G) /\ G[i - 1] = F[(i - 1) + 1] /\ (i - 1) + 1 = i
      BY <1>0, <1>6, <2>1, <2>3
    <3>2. G[i - 1] = s
      BY <2>1, <3>1
    <3> QED
      BY <3>1, <3>2
  <2> QED
    BY <1>0, <2>1, <2>2, <2>3
<1>9. Lists(G, T)
  BY <1>6, <1>7, <1>8 DEF Lists
<1> QED
  BY <1>6, <1>9 DEF G, T

(* PositionOf() is the one place at which an element of the list is. *)
LEMMA PositionInList ==
    ASSUME NEW S, NEW F, Lists(F, S), NEW a \in S
    PROVE  /\ PositionOf(F, a) \in 1..Len(F) /\ F[PositionOf(F, a)] = a
           /\ \A i \in 1..Len(F) : F[i] = a => i = PositionOf(F, a)
<1>1. DOMAIN F = 1..Len(F)
  BY DEF Lists
<1>2. \E i \in DOMAIN F : F[i] = a
  BY <1>1 DEF Lists
<1>3. PositionOf(F, a) \in DOMAIN F /\ F[PositionOf(F, a)] = a
  BY <1>2 DEF PositionOf
<1> QED
  BY <1>1, <1>3 DEF Lists

(* A list of S is as long as S has elements: what FreeListExact counts. *)
LEMMA ListLength ==
    ASSUME NEW S, NEW F, Lists(F, S)
    PROVE  Range(F) = S /\ Len(F) = Cardinality(Range(F))
<1>1. DOMAIN F = 1..Len(F) /\ Len(F) \in Nat /\ F \in [1..Len(F) -> S]
  BY DEF Lists
<1>2. Range(F) = S
  BY <1>1 DEF Lists, Range
<1>3. F \in Bijection(1..Len(F), S)
  BY <1>1 DEF Lists, Bijection, Injection, Surjection, IsInjective
<1>4. IsFiniteSet(1..Len(F)) /\ Cardinality(1..Len(F)) = Len(F)
  BY <1>1, FS_Interval
<1>5. Cardinality(S) = Cardinality(1..Len(F))
  BY <1>3, <1>4, FS_Bijection DEF ExistsBijection
<1> QED
  BY <1>2, <1>4, <1>5

-----------------------------------------------------------------------------
IsBlock(r)  == r = [size |-> r.size, used |-> r.used]
IsBlocks(B) == B = [a \in DOMAIN B |-> B[a]] /\ \A a \in DOMAIN B : IsBlock(B[a])
IsHeap(h)  == /\ h = [blocks |-> h.blocks, free |-> h.free, failed |-> h.failed]
               /\ IsBlocks(h.blocks)

(* Writing the mark of one block leaves sizes and the other marks. *)
LEMMA MarkBlocks ==
    ASSUME NEW B, IsBlocks(B), NEW a \in DOMAIN B, NEW x, NEW C, C = [B EXCEPT ![a].used = x]
    PROVE  /\ IsBlocks(C) /\ DOMAIN C = DOMAIN B
           /\ \A c \in DOMAIN B : C[c].size = B[c].size /\ (c # a => C[c].used = B[c].used)
           /\ C[a].used = x
<1>1. DOMAIN C = DOMAIN B /\ C = [c \in DOMAIN C |-> C[c]]
  BY DEF IsBlocks
<1>2. \A c \in DOMAIN B \ {a} : C[c] = B[c]
  BY DEF IsBlocks
<1>3. C[a] = [B[a] EXCEPT !.used = x] /\ IsBlock(B[a])
  BY DEF IsBlocks
<1>4. IsBlock(C[a])
  BY <1>3 DEF IsBlock
<1>5. C[a].size = B[a].size /\ C[a].used = x
  BY <1>3 DEF IsBlock
<1> QED
  BY <1>1, <1>2, <1>4, <1>5 DEF IsBlocks

(* Writing the size of one block leaves marks and the other sizes. *)
LEMMA SizeBlocks ==
    ASSUME NEW B, IsBlocks(B), NEW a \in DOMAIN B, NEW x, NEW C, C = [B EXCEPT ![a].size = x]
    PROVE  /\ IsBlocks(C) /\ DOMAIN C = DOMAIN B
           /\ \A c \in DOMAIN B : C[c].used = B[c].used /\ (c # a => C[c].size = B[c].size)
           /\ C[a].size = x
<1>1. DOMAIN C = DOMAIN B /\ C = [c \in DOMAIN C |-> C[c]]
  BY DEF IsBlocks
<1>2. \A c \in DOMAIN B \ {a} : C[c] = B[c]
  BY DEF IsBlocks
<1>3. C[a] = [B[a] EXCEPT !.size = x] /\ IsBlock(B[a])
  BY DEF IsBlocks
<1>4. IsBlock(C[a])
  BY <1>3 DEF IsBlock
<1>5. C[a].used = B[a].used /\ C[a].size = x
  BY <1>3 DEF IsBlock
<1> QED
  BY <1>1, <1>2, <1>4, <1>5 DEF IsBlocks

(* mark_used() asserts that the block was not. *)
Asserts(g, h, a) == g.failed = (h.failed \/ h.blocks[a].used)

Marked(m, h, a) ==
    /\ IsHeap(m) /\ DOMAIN m.blocks = DOMAIN h.blocks
    /\ \A c \in DOMAIN h.blocks :
          /\ m.blocks[c].size = h.blocks[c].size
          /\ c # a => m.blocks[c].used = h.blocks[c].used
    /\ m.blocks[a].used

(* mark_used() marks its block and touches neither sizes nor the list. *)
LEMMA MarkHeap ==
    ASSUME NEW h, IsHeap(h), NEW a \in DOMAIN h.blocks
    PROVE  LET m == MarkUsed(h, a) IN Marked(m, h, a) /\ m.free = h.free /\ Asserts(m, h, a)
<1>m. PICK m : m = MarkUsed(h, a)
  OBVIOUS
<1>1. PICK g, x : /\ m = [h EXCEPT !.failed = g, !.blocks[a].used = x]
                  /\ g = (h.failed \/ h.blocks[a].used) /\ x = TRUE
  BY <1>m DEF MarkUsed
<1>2. PICK C : C = [h.blocks EXCEPT ![a].used = x]
  OBVIOUS
<1>3. m = [blocks |-> C, free |-> h.free, failed |-> g]
  BY <1>1, <1>2 DEF IsHeap
<1>4. m.blocks = C /\ m.free = h.free /\ m.failed = g
  BY <1>3
<1>5. m = [blocks |-> m.blocks, free |-> m.free, failed |-> m.failed]
  BY <1>3, <1>4
<1>0. IsBlocks(h.blocks)
  BY DEF IsHeap
<1>6. /\ IsBlocks(C) /\ DOMAIN C = DOMAIN h.blocks
      /\ \A c \in DOMAIN h.blocks : C[c].size = h.blocks[c].size /\ (c # a => C[c].used = h.blocks[c].used)
      /\ C[a].used = x
  BY <1>0, <1>2, MarkBlocks
<1>7. Asserts(m, h, a)
  BY <1>1, <1>4, Zenon DEF Asserts
<1>8. Marked(m, h, a)
  BY <1>1, <1>4, <1>5, <1>6, Zenon DEF IsHeap, Marked
<1> QED
  BY <1>m, <1>4, <1>7, <1>8, Zenon

-----------------------------------------------------------------------------
Tiled(h) ==
    /\ DOMAIN h.blocks \subseteq 0..(Words - 1) /\ 0 \in DOMAIN h.blocks
    /\ \A a \in DOMAIN h.blocks :
          /\ h.blocks[a].size \in Nat /\ h.blocks[a].size >= FreeNode
          /\ a + h.blocks[a].size \in DOMAIN h.blocks \cup {Words}
          /\ \A b \in DOMAIN h.blocks : b > a => b >= a + h.blocks[a].size

(* Block c is in g as it is in h. *)
SameBlock(g, h, c) == g.blocks[c].size = h.blocks[c].size /\ g.blocks[c].used = h.blocks[c].used

(* unlink_from_freelist() marks the block and takes it out of the list. *)
LEMMA UnlinkHeap ==
    ASSUME NEW h, IsHeap(h), NEW a \in DOMAIN h.blocks
    PROVE  LET g == UnlinkFromFreelist(h, a)
           IN  /\ Marked(g, h, a) /\ Asserts(g, h, a)
               /\ g.free = RemoveAt(h.free, PositionOf(h.free, a))
<1>1. PICK m : m = MarkUsed(h, a)
  OBVIOUS
<1>2. Marked(m, h, a) /\ m.free = h.free /\ Asserts(m, h, a)
  BY <1>1, MarkHeap, Zenon
<1>3. PICK F : F = RemoveAt(h.free, PositionOf(h.free, a))
  OBVIOUS
<1>g. PICK g : g = UnlinkFromFreelist(h, a)
  OBVIOUS
<1>4. g = [m EXCEPT !.free = F]
  BY <1>g, <1>1, <1>2, <1>3, Zenon DEF UnlinkFromFreelist
<1>5. g = [blocks |-> m.blocks, free |-> F, failed |-> m.failed]
  BY <1>2, <1>4 DEF IsHeap, Marked
<1>6. g.blocks = m.blocks /\ g.free = F /\ g.failed = m.failed
  BY <1>5
<1>7. g = [blocks |-> g.blocks, free |-> g.free, failed |-> g.failed]
  BY <1>5, <1>6
<1>8. Marked(g, h, a) /\ Asserts(g, h, a)
  BY <1>2, <1>6, <1>7, Zenon DEF IsHeap, Marked, Asserts
<1> QED
  BY <1>g, <1>3, <1>6, <1>8, Zenon

(* merge_next(): block a takes over what b was. *)
Swallowed(g, h, a, b) ==
    /\ IsHeap(g) /\ DOMAIN g.blocks = DOMAIN h.blocks \ {b}
    /\ \A c \in DOMAIN h.blocks \ {a, b} : SameBlock(g, h, c)
    /\ g.blocks[a].size = h.blocks[a].size + h.blocks[b].size
    /\ g.blocks[a].used = h.blocks[a].used

(* merge_next() does: sizes add up and the link of b goes. *)
LEMMA MergeNextHeap ==
    ASSUME NEW h, IsHeap(h), NEW a \in DOMAIN h.blocks, NEW b \in DOMAIN h.blocks, a # b
    PROVE  LET g == MergeNext(h, a, b)
           IN  /\ Swallowed(g, h, a, b) /\ Asserts(g, h, b)
               /\ g.free = RemoveAt(h.free, PositionOf(h.free, b))
<1>g. PICK g : g = MergeNext(h, a, b)
  OBVIOUS
<1>0. IsBlocks(h.blocks)
  BY DEF IsHeap
<1>1. PICK x : x = h.blocks[a].size + h.blocks[b].size
  OBVIOUS
<1>2. PICK C : C = [h.blocks EXCEPT ![a].size = x]
  OBVIOUS
<1>3. /\ IsBlocks(C) /\ DOMAIN C = DOMAIN h.blocks
      /\ \A c \in DOMAIN h.blocks : C[c].used = h.blocks[c].used /\ (c # a => C[c].size = h.blocks[c].size)
      /\ C[a].size = x
  BY <1>0, <1>2, SizeBlocks
<1>4. PICK k : k = [h EXCEPT !.blocks[a].size = x]
  OBVIOUS
<1>5. k = [blocks |-> C, free |-> h.free, failed |-> h.failed]
  BY <1>2, <1>4 DEF IsHeap
<1>6. k.blocks = C /\ k.free = h.free /\ k.failed = h.failed
  BY <1>5
<1>7. IsHeap(k) /\ b \in DOMAIN k.blocks
  BY <1>3, <1>5, <1>6 DEF IsHeap
<1>8. PICK u : u = UnlinkFromFreelist(k, b)
  OBVIOUS
<1>9. Marked(u, k, b) /\ Asserts(u, k, b) /\ u.free = RemoveAt(k.free, PositionOf(k.free, b))
  BY <1>7, <1>8, UnlinkHeap, Zenon
<1>10. PICK D : D = [c \in DOMAIN u.blocks \ {b} |-> u.blocks[c]]
  OBVIOUS
<1>11. g = [u EXCEPT !.blocks = D]
  <2>1. h.blocks[a].size + h.blocks[b].size = x
    BY <1>1
  <2>2. u = UnlinkFromFreelist([h EXCEPT !.blocks[a].size = h.blocks[a].size + h.blocks[b].size], b)
    BY <1>4, <1>8, <2>1
  <2> QED
    BY <1>g, <1>10, <2>2 DEF MergeNext
<1>12. g = [blocks |-> D, free |-> u.free, failed |-> u.failed]
  BY <1>9, <1>11 DEF IsHeap, Marked
<1>13. g.blocks = D /\ g.free = u.free /\ g.failed = u.failed
  BY <1>12
<1>14. IsBlocks(D) /\ DOMAIN D = DOMAIN u.blocks \ {b} /\ \A c \in DOMAIN D : D[c] = u.blocks[c]
  BY <1>9, <1>10 DEF IsHeap, IsBlocks, Marked
<1>15. IsHeap(g)
  BY <1>12, <1>13, <1>14 DEF IsHeap
<1>16. g.free = RemoveAt(h.free, PositionOf(h.free, b)) /\ DOMAIN g.blocks = DOMAIN h.blocks \ {b}
  BY <1>3, <1>6, <1>9, <1>13, <1>14, Zenon DEF Marked
<1>17. Asserts(g, h, b)
  <2>1. k.blocks[b].used = h.blocks[b].used
    BY <1>3, <1>6
  <2> QED
    BY <1>6, <1>9, <1>13, <2>1, Zenon DEF Asserts
<1>18. \A c \in DOMAIN h.blocks \ {b} :
          /\ g.blocks[c].size = C[c].size
          /\ g.blocks[c].used = h.blocks[c].used
  <2> SUFFICES ASSUME NEW c \in DOMAIN h.blocks \ {b}
               PROVE g.blocks[c].size = C[c].size /\ g.blocks[c].used = h.blocks[c].used
    OBVIOUS
  <2>1. c \in DOMAIN D /\ c \in DOMAIN k.blocks /\ c # b
    BY <1>3, <1>6, <1>9, <1>14 DEF Marked
  <2>2. g.blocks[c] = u.blocks[c]
    BY <1>13, <1>14, <2>1
  <2>3. u.blocks[c].size = C[c].size /\ u.blocks[c].used = C[c].used
    BY <1>6, <1>9, <2>1, Zenon DEF Marked
  <2> QED
    BY <1>3, <1>6, <2>1, <2>2, <2>3
<1>19. Swallowed(g, h, a, b)
  BY <1>1, <1>3, <1>15, <1>16, <1>18 DEF SameBlock, Swallowed
<1> QED
  BY <1>g, <1>16, <1>17, <1>19, Zenon

-----------------------------------------------------------------------------
(* A block that swallows the one it touches leaves the memory tiled. *)
LEMMA MergeTiles ==
    ASSUME NEW h, IsHeap(h), Tiled(h), NEW a \in DOMAIN h.blocks, NEW b \in DOMAIN h.blocks,
           a + h.blocks[a].size = b, NEW g, Swallowed(g, h, a, b)
    PROVE  Tiled(g)
<1>1. a # b /\ a < b /\ a \in Nat /\ b \in Nat
  BY DEF Tiled, FreeNode
<1>2. /\ DOMAIN g.blocks = DOMAIN h.blocks \ {b}
      /\ \A c \in DOMAIN h.blocks \ {a, b} : g.blocks[c].size = h.blocks[c].size
      /\ g.blocks[a].size = h.blocks[a].size + h.blocks[b].size
  BY <1>1 DEF SameBlock, Swallowed
<1>3. ASSUME NEW c \in DOMAIN g.blocks
      PROVE  /\ g.blocks[c].size \in Nat /\ g.blocks[c].size >= FreeNode
             /\ c + g.blocks[c].size \in DOMAIN g.blocks \cup {Words}
             /\ \A d \in DOMAIN g.blocks : d > c => d >= c + g.blocks[c].size
  <2>1. CASE c = a
    <3>1. g.blocks[a].size \in Nat /\ a + g.blocks[a].size = b + h.blocks[b].size /\ g.blocks[a].size >= FreeNode
      BY <1>1, <1>2 DEF Tiled, FreeNode
    <3>2. b + h.blocks[b].size \in DOMAIN h.blocks \cup {Words} /\ b + h.blocks[b].size # b
      BY <1>1 DEF Tiled, FreeNode
    <3>3. ASSUME NEW d \in DOMAIN g.blocks, d > a PROVE d >= b + h.blocks[b].size
      <4>1. d \in DOMAIN h.blocks /\ d # b /\ d \in Int
        BY <1>2 DEF Tiled
      <4>2. d >= b
        BY <3>3, <4>1 DEF Tiled
      <4>3. d > b
        BY <1>1, <4>1, <4>2
      <4> QED
        BY <4>1, <4>3 DEF Tiled
    <3> QED
      BY <1>2, <2>1, <3>1, <3>2, <3>3
  <2>2. CASE c # a
    <3>1. c \in DOMAIN h.blocks /\ c # b /\ g.blocks[c].size = h.blocks[c].size
      BY <1>2, <2>2
    <3>2. c + h.blocks[c].size # b
      <4> SUFFICES ASSUME c + h.blocks[c].size = b PROVE FALSE
        OBVIOUS
      <4>1. c \in Int /\ h.blocks[c].size \in Nat /\ h.blocks[a].size \in Nat
        BY <3>1 DEF Tiled
      <4>2. CASE c < a
        <5>1. a >= c + h.blocks[c].size
          BY <3>1, <4>2 DEF Tiled
        <5> QED
          BY <1>1, <5>1
      <4>3. CASE c > a
        <5>1. c >= a + h.blocks[a].size
          BY <3>1, <4>3 DEF Tiled
        <5>2. c < b
          BY <3>1, <4>1 DEF Tiled, FreeNode
        <5> QED
          BY <1>1, <4>1, <5>1, <5>2
      <4> QED
        BY <1>1, <2>2, <4>1, <4>2, <4>3
    <3> QED
      BY <1>2, <3>1, <3>2 DEF Tiled
  <2> QED
    BY <2>1, <2>2
<1>4. DOMAIN g.blocks \subseteq 0..(Words - 1) /\ 0 \in DOMAIN g.blocks
  BY <1>1, <1>2 DEF Tiled
<1> QED
  BY <1>3, <1>4 DEF Tiled

-----------------------------------------------------------------------------
Ordered(F) == \A i, j \in 1..Len(F) : i < j => F[i] < F[j]
Apart(h, S) == \A x, y \in S : End(h, x) # y

(* What merging may do to a heap whose list has the blocks of S: some of   *)
(* them are swallowed by others and T is left.                             *)
Fused(g, h, S, T) ==
    /\ IsHeap(g)
    /\ T \subseteq S /\ T # {} /\ Lists(g.free, T)
    /\ DOMAIN g.blocks = DOMAIN h.blocks \ (S \ T)
    /\ \A c \in DOMAIN h.blocks \ S : SameBlock(g, h, c)
    /\ \A c \in T : g.blocks[c].used = h.blocks[c].used
    /\ ~h.failed /\ (\A c \in S : ~h.blocks[c].used) => ~g.failed
    /\ Ordered(h.free) => Ordered(g.free)

(* A sorted list stays sorted when an element is taken out. *)
LEMMA RemoveOrdered ==
    ASSUME NEW S, NEW F, Lists(F, S), S \subseteq Int, Ordered(F), NEW k \in 1..Len(F)
    PROVE  Ordered(RemoveAt(F, k))
<1>1. /\ Len(RemoveAt(F, k)) = Len(F) - 1
      /\ \A j \in 1..(Len(F) - 1) : RemoveAt(F, k)[j] = IF j < k THEN F[j] ELSE F[j + 1]
  BY RemoveList
<1>0. Len(F) \in Nat
  BY ListFacts
<1>2. PICK G : G = RemoveAt(F, k)
  OBVIOUS
<1>3. ASSUME NEW i \in 1..Len(G), NEW j \in 1..Len(G), i < j PROVE G[i] < G[j]
  <2> DEFINE Old(n) == IF n < k THEN n ELSE n + 1
  <2>1. ASSUME NEW n \in 1..Len(G) PROVE G[n] = F[Old(n)] /\ Old(n) \in 1..Len(F)
    <3>1. n \in 1..(Len(F) - 1)
      BY <1>1, <1>2, <2>1
    <3>2. G[n] = IF n < k THEN F[n] ELSE F[n + 1]
      BY <1>1, <1>2, <3>1
    <3> QED
      BY <1>0, <3>1, <3>2
  <2>2. Old(i) < Old(j)
    BY <1>0, <1>1, <1>2, <1>3
  <2> HIDE DEF Old
  <2> QED
    BY <2>1, <2>2 DEF Ordered
<1> QED
  BY <1>2, <1>3 DEF Ordered

(* merge_next() of two free blocks is such a change, by one block. *)
LEMMA SwallowFuses ==
    ASSUME NEW h, IsHeap(h), NEW S, S \subseteq DOMAIN h.blocks, S \subseteq Int, Lists(h.free, S),
           NEW a \in S, NEW b \in S, a # b
    PROVE  /\ Fused(MergeNext(h, a, b), h, S, S \ {b})
           /\ Swallowed(MergeNext(h, a, b), h, a, b)
           /\ MergeNext(h, a, b).free = RemoveAt(h.free, PositionOf(h.free, b))
<1>1. PICK g : g = MergeNext(h, a, b)
  OBVIOUS
<1>2. Swallowed(g, h, a, b) /\ Asserts(g, h, b) /\ g.free = RemoveAt(h.free, PositionOf(h.free, b))
  BY <1>1, MergeNextHeap, Zenon
<1>3. PICK k : k = PositionOf(h.free, b)
  OBVIOUS
<1>4. k \in 1..Len(h.free) /\ h.free[k] = b
  BY <1>3, PositionInList
<1>5. Lists(g.free, S \ {b})
  BY <1>2, <1>3, <1>4, RemoveList
<1>6. Ordered(h.free) => Ordered(g.free)
  BY <1>2, <1>3, <1>4, RemoveOrdered
<1>7. ~h.failed /\ (\A c \in S : ~h.blocks[c].used) => ~g.failed
  BY <1>2, Zenon DEF Asserts
<1>8. \A c \in DOMAIN h.blocks \ S : SameBlock(g, h, c)
  BY <1>2 DEF Swallowed
<1>9. \A c \in S \ {b} : g.blocks[c].used = h.blocks[c].used
  BY <1>2 DEF Swallowed, SameBlock
<1>10. IsHeap(g) /\ S \ {b} # {} /\ S \ {b} \subseteq S /\ DOMAIN g.blocks = DOMAIN h.blocks \ (S \ (S \ {b}))
  BY <1>2 DEF Swallowed
<1>11. Fused(g, h, S, S \ {b})
  BY <1>5, <1>6, <1>7, <1>8, <1>9, <1>10, Zenon DEF Fused
<1> QED
  BY <1>1, <1>2, <1>11, Zenon

(* So is no change at all, *)
LEMMA StillFused ==
    ASSUME NEW h, IsHeap(h), NEW S, S \subseteq DOMAIN h.blocks, S # {}, Lists(h.free, S)
    PROVE  Fused(h, h, S, S)
<1>1. DOMAIN h.blocks = DOMAIN h.blocks \ (S \ S)
  OBVIOUS
<1> QED
  BY <1>1, Zenon DEF Fused, SameBlock

(* and one such change after another. *)
LEMMA FusedTwice ==
    ASSUME NEW h, NEW g, NEW k, NEW S, NEW T, NEW U, S \subseteq DOMAIN h.blocks, Fused(g, h, S, T), Fused(k, g, T, U)
    PROVE  Fused(k, h, S, U)
<1>1. /\ IsHeap(k) /\ U \subseteq T /\ U # {} /\ T \subseteq S /\ Lists(k.free, U)
      /\ DOMAIN g.blocks = DOMAIN h.blocks \ (S \ T) /\ DOMAIN k.blocks = DOMAIN g.blocks \ (T \ U)
      /\ \A c \in DOMAIN h.blocks \ S : SameBlock(g, h, c)
      /\ \A c \in DOMAIN g.blocks \ T : SameBlock(k, g, c)
      /\ \A c \in T : g.blocks[c].used = h.blocks[c].used
      /\ \A c \in U : k.blocks[c].used = g.blocks[c].used
      /\ Ordered(h.free) => Ordered(g.free)
      /\ Ordered(g.free) => Ordered(k.free)
      /\ ~h.failed /\ (\A c \in S : ~h.blocks[c].used) => ~g.failed
      /\ ~g.failed /\ (\A c \in T : ~g.blocks[c].used) => ~k.failed
  BY Zenon DEF Fused
<1>2. DOMAIN k.blocks = DOMAIN h.blocks \ (S \ U) /\ U \subseteq S
  BY <1>1
<1>3. \A c \in DOMAIN h.blocks \ S : SameBlock(k, h, c)
  BY <1>1 DEF SameBlock
<1>4. \A c \in U : k.blocks[c].used = h.blocks[c].used
  BY <1>1
<1>5. ~h.failed /\ (\A c \in S : ~h.blocks[c].used) => ~k.failed
  <2>1. (\A c \in S : ~h.blocks[c].used) => (\A c \in T : ~g.blocks[c].used)
    <3> SUFFICES ASSUME \A c \in S : ~h.blocks[c].used, NEW c \in T PROVE ~g.blocks[c].used
      OBVIOUS
    <3>1. g.blocks[c].used = h.blocks[c].used /\ c \in S
      BY <1>1, Zenon
    <3> QED
      BY <3>1, Zenon
  <2> QED
    BY <1>1, <2>1, Zenon
<1> QED
  BY <1>1, <1>2, <1>3, <1>4, <1>5, Zenon DEF Fused

-----------------------------------------------------------------------------
(* The first half of merge(): the next block of the list. *)
Onward(h, p) ==
    LET i == PositionOf(h.free, p)
    IN  IF i < Len(h.free) /\ End(h, p) = h.free[i + 1]
        THEN MergeNext(h, p, h.free[i + 1])
        ELSE h

(* p touches no next block, or swallows it. *)
OnwardStays(g, h, S, p) ==
    /\ g = h /\ Fused(h, h, S, S)
    /\ \A y \in S : PositionOf(h.free, y) = PositionOf(h.free, p) + 1 => End(h, p) # y

OnwardTakes(g, h, S, p, y) ==
    /\ y # p /\ End(h, p) = y
    /\ PositionOf(h.free, y) = PositionOf(h.free, p) + 1
    /\ Fused(g, h, S, S \ {y}) /\ Swallowed(g, h, p, y)
    /\ g.free = RemoveAt(h.free, PositionOf(h.free, p) + 1)

(* The first half does nothing, for no block of the list touches, or one   *)
(* merge_next().                                                           *)
LEMMA OnwardFuses ==
    ASSUME NEW h, IsHeap(h), NEW S, S \subseteq DOMAIN h.blocks, S \subseteq Int, Lists(h.free, S), NEW p \in S
    PROVE  \/ OnwardStays(Onward(h, p), h, S, p)
           \/ \E y \in S : OnwardTakes(Onward(h, p), h, S, p, y)
<1>1. PICK i : i = PositionOf(h.free, p)
  OBVIOUS
<1>2. i \in 1..Len(h.free) /\ h.free[i] = p /\ Len(h.free) \in Nat
  BY <1>1, PositionInList, ListFacts
<1>3. CASE i < Len(h.free) /\ End(h, p) = h.free[i + 1]
  <2>1. PICK y : y = h.free[i + 1]
    OBVIOUS
  <2>2. i + 1 \in 1..Len(h.free) /\ y \in S
    <3>1. \A j \in 1..Len(h.free) : h.free[j] \in S
      BY ListFacts
    <3>2. i + 1 \in 1..Len(h.free)
      BY <1>2, <1>3
    <3> QED
      BY <2>1, <3>1, <3>2
  <2>3. y # p
    <3>1. \A j, k \in 1..Len(h.free) : h.free[j] = h.free[k] => j = k
      BY ListFacts
    <3>2. i # i + 1 /\ i + 1 \in 1..Len(h.free)
      BY <1>2, <2>2
    <3> QED
      BY <1>2, <2>1, <3>1, <3>2
  <2>4. Onward(h, p) = MergeNext(h, p, y)
    BY <1>1, <1>3, <2>1, Zenon DEF Onward
  <2>5. PositionOf(h.free, y) = i + 1
    BY <2>1, <2>2, PositionInList
  <2>6. /\ Fused(MergeNext(h, p, y), h, S, S \ {y}) /\ Swallowed(MergeNext(h, p, y), h, p, y)
        /\ MergeNext(h, p, y).free = RemoveAt(h.free, PositionOf(h.free, y))
    BY <2>2, <2>3, SwallowFuses
  <2> QED
    BY <1>1, <1>3, <2>1, <2>2, <2>3, <2>4, <2>5, <2>6, Zenon DEF OnwardTakes
<1>4. CASE ~(i < Len(h.free) /\ End(h, p) = h.free[i + 1])
  <2>1. Onward(h, p) = h
    BY <1>1, <1>4, Zenon DEF Onward
  <2>2. ASSUME NEW y \in S, PositionOf(h.free, y) = PositionOf(h.free, p) + 1 PROVE End(h, p) # y
    <3>1. i + 1 \in 1..Len(h.free) /\ h.free[i + 1] = y
      BY <1>1, <2>2, PositionInList
    <3> QED
      BY <1>2, <1>4, <3>1
  <2> QED
    BY <2>1, <2>2, StillFused, Zenon DEF OnwardStays
<1> QED
  BY <1>3, <1>4

-----------------------------------------------------------------------------
(* The second half: the previous block of the list. *)
Backward(h, p) ==
    LET i == PositionOf(h.free, p)
    IN  IF i > 1 /\ End(h, h.free[i - 1]) = p
        THEN MergeNext(h, h.free[i - 1], p)
        ELSE h

BackwardStays(g, h, S, p) ==
    /\ g = h /\ Fused(h, h, S, S)
    /\ \A x \in S : PositionOf(h.free, p) = PositionOf(h.free, x) + 1 => End(h, x) # p

BackwardTakes(g, h, S, p, x) ==
    x # p /\ End(h, x) = p /\ Fused(g, h, S, S \ {p}) /\ Swallowed(g, h, x, p)

(* The second half likewise. *)
LEMMA BackwardFuses ==
    ASSUME NEW h, IsHeap(h), NEW S, S \subseteq DOMAIN h.blocks, S \subseteq Int, Lists(h.free, S), NEW p \in S
    PROVE  \/ BackwardStays(Backward(h, p), h, S, p)
           \/ \E x \in S : BackwardTakes(Backward(h, p), h, S, p, x)
<1>1. PICK i : i = PositionOf(h.free, p)
  OBVIOUS
<1>2. i \in 1..Len(h.free) /\ h.free[i] = p /\ Len(h.free) \in Nat
  BY <1>1, PositionInList, ListFacts
<1>3. CASE i > 1 /\ End(h, h.free[i - 1]) = p
  <2>1. PICK x : x = h.free[i - 1]
    OBVIOUS
  <2>2. i - 1 \in 1..Len(h.free) /\ x \in S
    <3>1. \A j \in 1..Len(h.free) : h.free[j] \in S
      BY ListFacts
    <3>2. i \in Int /\ i > 1 /\ i <= Len(h.free)
      BY <1>2, <1>3
    <3>4. i - 1 \in 1..Len(h.free)
      BY <1>2, <3>2
    <3> QED
      BY <2>1, <3>1, <3>4
  <2>3. x # p
    <3>1. \A j, k \in 1..Len(h.free) : h.free[j] = h.free[k] => j = k
      BY ListFacts
    <3>2. i # i - 1 /\ i - 1 \in 1..Len(h.free)
      BY <1>2, <2>2
    <3> QED
      BY <1>2, <2>1, <3>1, <3>2
  <2>4. Backward(h, p) = MergeNext(h, x, p)
    BY <1>1, <1>3, <2>1, Zenon DEF Backward
  <2>6. Fused(MergeNext(h, x, p), h, S, S \ {p}) /\ Swallowed(MergeNext(h, x, p), h, x, p)
    BY <2>2, <2>3, SwallowFuses
  <2> QED
    BY <1>1, <1>3, <2>1, <2>2, <2>3, <2>4, <2>6, Zenon DEF BackwardTakes
<1>4. CASE ~(i > 1 /\ End(h, h.free[i - 1]) = p)
  <2>1. Backward(h, p) = h
    BY <1>1, <1>4, Zenon DEF Backward
  <2>2. ASSUME NEW x \in S, PositionOf(h.free, p) = PositionOf(h.free, x) + 1 PROVE End(h, x) # p
    <3>1. /\ PositionOf(h.free, x) \in 1..Len(h.free)
          /\ h.free[PositionOf(h.free, x)] = x
      BY PositionInList
    <3>2. PositionOf(h.free, x) = i - 1 /\ i > 1
      BY <1>1, <1>2, <2>2, <3>1
    <3> QED
      BY <1>4, <3>1, <3>2
  <2> QED
    BY <2>1, <2>2, StillFused, Zenon DEF BackwardStays
<1> QED
  BY <1>3, <1>4

(* merge() is the one half and then the other. *)
LEMMA MergeHalves ==
    ASSUME NEW h, IsHeap(h), NEW S, S \subseteq DOMAIN h.blocks, S \subseteq Int, Lists(h.free, S), NEW p \in S
    PROVE  Merge(h, p) = Backward(Onward(h, p), p)
<1>1. PICK i : i = PositionOf(h.free, p)
  OBVIOUS
<1>2. PICK g : g = Onward(h, p)
  OBVIOUS
<1>3. Merge(h, p) = IF i > 1 /\ End(g, g.free[i - 1]) = p THEN MergeNext(g, g.free[i - 1], p) ELSE g
  BY <1>1, <1>2, Zenon DEF Merge, Onward
<1>4. PositionOf(g.free, p) = i
  <2>1. CASE g = h
    BY <1>1, <2>1
  <2>2. CASE \E y \in S : OnwardTakes(g, h, S, p, y)
    <3>1. PICK y \in S : /\ y # p /\ PositionOf(h.free, y) = i + 1
                         /\ Fused(g, h, S, S \ {y})
                         /\ g.free = RemoveAt(h.free, i + 1)
      BY <1>1, <2>2, Zenon DEF OnwardTakes
    <3>2. i \in 1..Len(h.free) /\ h.free[i] = p /\ i + 1 \in 1..Len(h.free)
      BY <1>1, <3>1, PositionInList
    <3>7. PICK k : k = i + 1
      OBVIOUS
    <3>8. /\ Len(RemoveAt(h.free, k)) = Len(h.free) - 1
          /\ \A j \in 1..(Len(h.free) - 1) : RemoveAt(h.free, k)[j] = IF j < k THEN h.free[j] ELSE h.free[j + 1]
      BY <3>2, <3>7, RemoveList
    <3>3. /\ Len(g.free) = Len(h.free) - 1
          /\ \A j \in 1..(Len(h.free) - 1) : g.free[j] = IF j < i + 1 THEN h.free[j] ELSE h.free[j + 1]
      BY <3>1, <3>7, <3>8, Zenon
    <3>4. i \in 1..Len(g.free) /\ i \in 1..(Len(h.free) - 1) /\ i < i + 1
      BY <3>2, <3>3
    <3>5. g.free[i] = p
      BY <3>2, <3>3, <3>4
    <3>6. Lists(g.free, S \ {y}) /\ p \in S \ {y}
      BY <3>1 DEF Fused
    <3> QED
      BY <3>4, <3>5, <3>6, PositionInList
  <2> QED
    BY <1>1, <1>2, <2>1, <2>2, OnwardFuses, Zenon DEF OnwardStays
<1> QED
  BY <1>2, <1>3, <1>4, Zenon DEF Backward

-----------------------------------------------------------------------------
(* In a sorted list blocks that touch are neighbours. *)
LEMMA TouchingNeighbours ==
    ASSUME NEW h, Tiled(h), NEW S, S \subseteq DOMAIN h.blocks, Lists(h.free, S), Ordered(h.free),
           NEW p \in S, NEW z \in S, End(h, p) = z
    PROVE  PositionOf(h.free, z) = PositionOf(h.free, p) + 1
<1>1. PICK i, j : i = PositionOf(h.free, p) /\ j = PositionOf(h.free, z)
  OBVIOUS
<1>2. /\ i \in 1..Len(h.free) /\ h.free[i] = p /\ j \in 1..Len(h.free) /\ h.free[j] = z
      /\ Len(h.free) \in Nat
  BY <1>1, PositionInList, ListFacts
<1>3. p \in Int /\ z \in Int /\ p < z
  BY DEF Tiled, FreeNode, End
<1>4. i < j
  <2>1. i # j
    BY <1>2, <1>3
  <2>2. ~(j < i)
    <3>1. j < i => h.free[j] < h.free[i]
      BY <1>2 DEF Ordered
    <3> QED
      BY <1>2, <1>3, <3>1
  <2> QED
    BY <1>2, <2>1, <2>2
<1>5. CASE i + 1 < j
  <2>1. i + 1 \in 1..Len(h.free) /\ i < i + 1
    BY <1>2, <1>5
  <2>2. h.free[i] < h.free[i + 1] /\ h.free[i + 1] < h.free[j]
    BY <1>2, <1>5, <2>1 DEF Ordered
  <2>3. PICK w : w = h.free[i + 1]
    OBVIOUS
  <2>4. w \in DOMAIN h.blocks /\ w > p /\ w < z
    <3>1. w \in S
      BY <2>1, <2>3, ListFacts
    <3>2. w \in Int
      BY <3>1 DEF Tiled
    <3> QED
      BY <1>2, <1>3, <2>2, <2>3, <3>1, <3>2
  <2>5. w >= z
    BY <2>4 DEF Tiled, End
  <2> QED
    BY <1>3, <2>4, <2>5 DEF Tiled
<1> QED
  BY <1>1, <1>2, <1>4, <1>5

(* What the two halves leave of a heap without touching blocks but p.      *)
OnwardLeaves(g, h, S, T, p) ==
    /\ p \in T /\ Fused(g, h, S, T) /\ Tiled(g)
    /\ Ordered(h.free) /\ Apart(h, S \ {p}) => \A x, z \in T : End(g, x) = z => z = p

MergeLeaves(m, h, S, T, p) ==
    /\ Fused(m, h, S, T) /\ Tiled(m)
    /\ Ordered(h.free) /\ Apart(h, S \ {p}) => Apart(m, T)

(* After the first half only p can be touched by another free block. *)
LEMMA OnwardApart ==
    ASSUME NEW h, IsHeap(h), Tiled(h), NEW S, S \subseteq DOMAIN h.blocks, Lists(h.free, S), NEW p \in S
    PROVE  \E T : OnwardLeaves(Onward(h, p), h, S, T, p)
<1>1. PICK g : g = Onward(h, p)
  OBVIOUS
<1>0. S \subseteq Int
  BY DEF Tiled
<1>2. CASE OnwardStays(g, h, S, p)
  <2>1. ASSUME Ordered(h.free), Apart(h, S \ {p}), NEW x \in S, NEW z \in S, End(h, x) = z, z # p
        PROVE FALSE
    <3>1. CASE x = p
      BY <1>2, <2>1, <3>1, TouchingNeighbours DEF OnwardStays
    <3>2. CASE x # p
      BY <2>1, <3>2 DEF Apart
    <3> QED
      BY <3>1, <3>2
  <2> QED
    BY <1>1, <1>2, <2>1, Zenon DEF OnwardStays, OnwardLeaves
<1>3. ASSUME NEW y \in S, OnwardTakes(g, h, S, p, y) PROVE \E T : OnwardLeaves(g, h, S, T, p)
  <2>0. y # p /\ End(h, p) = y /\ Fused(g, h, S, S \ {y}) /\ Swallowed(g, h, p, y)
    BY <1>3, Zenon DEF OnwardTakes
  <2>1. Tiled(g)
    BY <2>0, MergeTiles DEF End
  <2>2. ASSUME Apart(h, S \ {p}), NEW x \in S \ {y}, NEW z \in S \ {y}, End(g, x) = z, z # p
        PROVE FALSE
    <3>1. CASE x = p
      <4>1. End(g, p) = End(h, y)
        <5>1. h.blocks[p].size \in Nat /\ h.blocks[y].size \in Nat /\ p \in Nat
          BY DEF Tiled
        <5>2. g.blocks[p].size = h.blocks[p].size + h.blocks[y].size
          BY <2>0 DEF Swallowed
        <5> QED
          BY <2>0, <5>1, <5>2 DEF End
      <4> QED
        BY <2>0, <2>2, <3>1, <4>1 DEF Apart
    <3>2. CASE x # p
      <4>1. End(g, x) = End(h, x)
        BY <2>0, <3>2 DEF Swallowed, SameBlock, End
      <4> QED
        BY <2>2, <3>2, <4>1 DEF Apart
    <3> QED
      BY <3>1, <3>2
  <2>3. p \in S \ {y}
    BY <2>0
  <2> QED
    BY <2>0, <2>1, <2>2, <2>3, Zenon DEF OnwardLeaves
<1> QED
  BY <1>0, <1>1, <1>2, <1>3, OnwardFuses, Zenon

(* After both halves none is; and whatever the list was, it stays exact. *)
LEMMA MergeHeap ==
    ASSUME NEW h, IsHeap(h), Tiled(h), NEW S, S \subseteq DOMAIN h.blocks, Lists(h.free, S), NEW p \in S
    PROVE  \E T : MergeLeaves(Merge(h, p), h, S, T, p)
<1>1. PICK g : g = Onward(h, p)
  OBVIOUS
<1>2. PICK m : m = Merge(h, p)
  OBVIOUS
<1>3. PICK T : /\ p \in T /\ Fused(g, h, S, T) /\ Tiled(g)
               /\ Ordered(h.free) /\ Apart(h, S \ {p}) => \A x, z \in T : End(g, x) = z => z = p
  <2>1. PICK T : OnwardLeaves(g, h, S, T, p)
    BY <1>1, OnwardApart, Zenon
  <2> QED
    BY <2>1, Zenon DEF OnwardLeaves
<1>4. m = Backward(g, p)
  <2>1. S \subseteq Int
    BY DEF Tiled
  <2> QED
    BY <1>1, <1>2, <2>1, MergeHalves, Zenon
<1>5. /\ IsHeap(g) /\ T \subseteq DOMAIN g.blocks /\ Lists(g.free, T) /\ T \subseteq Int
      /\ Ordered(h.free) => Ordered(g.free)
  <2>1. T \subseteq DOMAIN g.blocks
    BY <1>3 DEF Fused
  <2> QED
    BY <1>3, <2>1 DEF Fused, Tiled
<1>6. CASE BackwardStays(m, g, T, p)
  <2>1. Fused(m, h, S, T) /\ Tiled(m) /\ m = g
    BY <1>3, <1>6 DEF BackwardStays
  <2>2. ASSUME Ordered(h.free), Apart(h, S \ {p}), NEW x \in T, NEW z \in T, End(g, x) = z PROVE FALSE
    <3>1. z = p /\ Ordered(g.free)
      BY <1>3, <1>5, <2>2
    <3>2. PositionOf(g.free, p) = PositionOf(g.free, x) + 1
      BY <1>3, <1>5, <2>2, <3>1, TouchingNeighbours
    <3> QED
      BY <1>6, <2>2, <3>1, <3>2 DEF BackwardStays
  <2> QED
    BY <1>2, <2>1, <2>2, Zenon DEF Apart, MergeLeaves
<1>7. ASSUME NEW q \in T, BackwardTakes(m, g, T, p, q) PROVE \E U : MergeLeaves(m, h, S, U, p)
  <2>0. q # p /\ End(g, q) = p /\ Fused(m, g, T, T \ {p}) /\ Swallowed(m, g, q, p)
    BY <1>7, Zenon DEF BackwardTakes
  <2>1. Tiled(m)
    BY <1>3, <1>5, <2>0, MergeTiles DEF End
  <2>2. Fused(m, h, S, T \ {p})
    BY <1>3, <2>0, FusedTwice
  <2>3. ASSUME Ordered(h.free), Apart(h, S \ {p}), NEW x \in T \ {p}, NEW z \in T \ {p}, End(m, x) = z PROVE FALSE
    <3>1. CASE x = q
      <4>1. End(m, q) = End(g, p)
        <5>1. g.blocks[p].size \in Nat /\ g.blocks[q].size \in Nat /\ q \in Nat
          BY <1>3, <1>5 DEF Tiled
        <5>2. m.blocks[q].size = g.blocks[q].size + g.blocks[p].size
          BY <2>0 DEF Swallowed
        <5> QED
          BY <2>0, <5>1, <5>2 DEF End
      <4> QED
        BY <1>3, <2>3, <3>1, <4>1
    <3>2. CASE x # q
      <4>1. End(m, x) = End(g, x)
        BY <1>5, <2>0, <3>2 DEF Swallowed, SameBlock, End
      <4> QED
        BY <1>3, <2>3, <4>1
    <3> QED
      BY <3>1, <3>2
  <2> QED
    BY <2>1, <2>2, <2>3, Zenon DEF Apart, MergeLeaves
<1>8. BackwardStays(m, g, T, p) \/ \E q \in T : BackwardTakes(m, g, T, p, q)
  BY <1>3, <1>4, <1>5, BackwardFuses, Zenon
<1> QED
  BY <1>2, <1>6, <1>7, <1>8, Zenon

-----------------------------------------------------------------------------
(* A set of numbers that is not empty has a least one, and a bounded one   *)
(* a greatest.                                                             *)
LEMMA LeastNumber ==
    ASSUME NEW S \in SUBSET Nat, S # {} PROVE \E h \in S : \A g \in S : h <= g
<1> DEFINE R == OpToRel(<, Nat)
<1>1. R = {ss \in Nat \X Nat : ss[1] < ss[2]}
  BY Zenon DEF OpToRel
<1>2. IsWellFoundedOn(R, Nat)
  BY NatLessThanWellFounded, Zenon
<1> HIDE DEF R
<1>3. \E h \in S : \A g \in S : ~(<<g, h>> \in R)
  BY <1>2, WFMin
<1>4. ASSUME NEW g \in Nat, NEW h \in Nat, g < h PROVE <<g, h>> \in R
  <2>1. <<g, h>> \in Nat \X Nat /\ <<g, h>>[1] < <<g, h>>[2]
    BY <1>4
  <2> QED
    BY <1>1, <2>1, Zenon
<1>5. PICK h \in S : \A g \in S : ~(<<g, h>> \in R)
  BY <1>3
<1>6. \A g \in S : ~(g < h)
  BY <1>4, <1>5, Zenon
<1> QED
  BY <1>6

(* Min() finds the one *)
LEMMA MinNumber ==
    ASSUME NEW S \in SUBSET Nat, S # {} PROVE Min(S) \in S /\ \A g \in S : Min(S) <= g
<1>1. \E h \in S : \A g \in S : h <= g
  BY LeastNumber
<1> QED
  BY <1>1 DEF Min

(* and Max() the other. *)
LEMMA MaxNumber ==
    ASSUME NEW m \in Nat, NEW S \in SUBSET (0..m), S # {} PROVE Max(S) \in S /\ \A g \in S : g <= Max(S)
<1> DEFINE M == {m - s : s \in S}
<1>1. M \in SUBSET Nat /\ M # {}
  <2>1. \A s \in S : s \in 0..m /\ m - s \in Nat
    OBVIOUS
  <2>2. \A x \in M : x \in Nat
    BY <2>1
  <2>3. PICK s \in S : TRUE
    OBVIOUS
  <2>4. m - s \in M
    BY <2>3
  <2> QED
    BY <2>2, <2>4
<1>2. PICK a \in M : \A b \in M : a <= b
  <2> HIDE DEF M
  <2> QED BY <1>1, LeastNumber
<1>3. PICK s \in S : a = m - s
  OBVIOUS
<1>4. \A g \in S : s >= g
  <2> SUFFICES ASSUME NEW g \in S PROVE s >= g
    OBVIOUS
  <2>1. m - g \in M
    OBVIOUS
  <2>2. m - s <= m - g
    BY <1>2, <1>3, <2>1
  <2>3. s \in Int /\ g \in Int
    OBVIOUS
  <2> QED
    BY <2>2, <2>3
<1>5. Max(S) \in S /\ \A g \in S : Max(S) >= g
  BY <1>4 DEF Max
<1>6. PICK x : x = Max(S)
  OBVIOUS
<1> HIDE DEF M
<1>7. x \in S /\ x \in Int /\ \A g \in S : g \in Int /\ x >= g
  <2>1. x \in S /\ \A g \in S : x >= g
    BY <1>5, <1>6, Zenon
  <2>2. \A g \in S : g \in 0..m
    BY Zenon
  <2>3. \A g \in 0..m : g \in Int
    OBVIOUS
  <2> QED
    BY <2>1, <2>2, <2>3, Zenon
<1>8. \A g \in S : g <= x
  BY <1>7
<1> QED
  BY <1>6, <1>7, <1>8

-----------------------------------------------------------------------------
(* k is h with another free list, and with p marked free. *)
Linked(k, h, p) ==
    /\ IsHeap(k) /\ DOMAIN k.blocks = DOMAIN h.blocks
    /\ \A c \in DOMAIN h.blocks :
          /\ k.blocks[c].size = h.blocks[c].size
          /\ c # p => k.blocks[c].used = h.blocks[c].used
    /\ ~k.blocks[p].used
    /\ ~h.failed => ~k.failed

Link(h, F, p) == [h EXCEPT !.free = F, !.blocks[p].used = FALSE]

(* Linking a block into the list so leaves sizes and the other marks. *)
LEMMA LinkHeap ==
    ASSUME NEW h, IsHeap(h), NEW p \in DOMAIN h.blocks, NEW F
    PROVE  Linked(Link(h, F, p), h, p) /\ Link(h, F, p).free = F
<1>k. PICK k : k = Link(h, F, p)
  OBVIOUS
<1>1. PICK x : x = FALSE
  OBVIOUS
<1>2. PICK C : C = [h.blocks EXCEPT ![p].used = x]
  OBVIOUS
<1>3. k = [h EXCEPT !.free = F, !.blocks[p].used = x]
  BY <1>1, <1>k DEF Link
<1>f. PICK f : f = h.failed
  OBVIOUS
<1>4. k = [blocks |-> C, free |-> F, failed |-> f]
  BY <1>2, <1>3, <1>f DEF IsHeap
<1>5. k.blocks = C /\ k.free = F /\ k.failed = f
  BY <1>4
<1>6. IsBlocks(h.blocks)
  BY DEF IsHeap
<1>7. /\ IsBlocks(C) /\ DOMAIN C = DOMAIN h.blocks
      /\ \A c \in DOMAIN h.blocks : C[c].size = h.blocks[c].size /\ (c # p => C[c].used = h.blocks[c].used)
      /\ C[p].used = x
  BY <1>2, <1>6, MarkBlocks
<1>8. IsHeap(k)
  BY <1>4, <1>5, <1>7 DEF IsHeap
<1> QED
  BY <1>1, <1>k, <1>f, <1>5, <1>7, <1>8, Zenon DEF Linked

(* Blocks of the same places and sizes tile the memory alike. *)
LEMMA TilesAlike ==
    ASSUME NEW h, Tiled(h), NEW g, DOMAIN g.blocks = DOMAIN h.blocks,
           \A c \in DOMAIN h.blocks : g.blocks[c].size = h.blocks[c].size
    PROVE  Tiled(g)
BY DEF Tiled

(* The free list is sorted, free blocks are marked so and do not touch.    *)
Tidy(h, S) == /\ ~h.failed /\ \A c \in S : ~h.blocks[c].used
              /\ Ordered(h.free) /\ Apart(h, S)

(* p has come to the free blocks, and may have been joined with others.    *)
Freed(g, h, S, T, p) ==
    /\ IsHeap(g) /\ Tiled(g) /\ T \subseteq DOMAIN g.blocks /\ T # {} /\ Lists(g.free, T)
    /\ DOMAIN g.blocks \ T = (DOMAIN h.blocks \ S) \ {p}
    /\ \A c \in (DOMAIN h.blocks \ S) \ {p} : SameBlock(g, h, c)

(* merge() after the links are written frees p, tidily if the list was     *)
(* tidy.                                                                   *)
LEMMA LinkedMerges ==
    ASSUME NEW h, IsHeap(h), Tiled(h), NEW S, S \subseteq DOMAIN h.blocks, NEW p \in DOMAIN h.blocks \ S,
           NEW k, Linked(k, h, p), Lists(k.free, S \cup {p})
    PROVE  \E T : /\ Freed(Merge(k, p), h, S, T, p)
                  /\ Tidy(h, S) /\ Ordered(k.free) => Tidy(Merge(k, p), T)
<1>1. PICK g : g = Merge(k, p)
  OBVIOUS
<1>2. PICK U : U = S \cup {p}
  OBVIOUS
<1>3. /\ IsHeap(k) /\ Tiled(k) /\ U \subseteq DOMAIN k.blocks /\ Lists(k.free, U) /\ p \in U
      /\ DOMAIN k.blocks = DOMAIN h.blocks
  <2>1. Tiled(k)
    BY TilesAlike DEF Linked
  <2> QED
    BY <1>2, <2>1 DEF Linked
<1>4. PICK T : MergeLeaves(g, k, U, T, p)
  BY <1>1, <1>3, MergeHeap, Zenon
<1>5. Fused(g, k, U, T) /\ Tiled(g) /\ (Ordered(k.free) /\ Apart(k, U \ {p}) => Apart(g, T))
  BY <1>4, Zenon DEF MergeLeaves
<1>6. /\ IsHeap(g) /\ T \subseteq U /\ T # {} /\ Lists(g.free, T)
      /\ DOMAIN g.blocks = DOMAIN k.blocks \ (U \ T)
      /\ \A c \in DOMAIN k.blocks \ U : SameBlock(g, k, c)
      /\ \A c \in T : g.blocks[c].used = k.blocks[c].used
      /\ ~k.failed /\ (\A c \in U : ~k.blocks[c].used) => ~g.failed
      /\ Ordered(k.free) => Ordered(g.free)
  BY <1>5, Zenon DEF Fused
<1>7. T \subseteq DOMAIN g.blocks /\ DOMAIN g.blocks \ T = (DOMAIN h.blocks \ S) \ {p}
  BY <1>2, <1>3, <1>6
<1>8. \A c \in (DOMAIN h.blocks \ S) \ {p} : SameBlock(g, h, c)
  BY <1>2, <1>3, <1>6 DEF Linked, SameBlock
<1>9. Freed(g, h, S, T, p)
  BY <1>5, <1>6, <1>7, <1>8, Zenon DEF Freed
<1>10. ASSUME Tidy(h, S), Ordered(k.free) PROVE Tidy(g, T)
  <2>1. ASSUME NEW c \in U PROVE ~k.blocks[c].used
    <3>1. CASE c = p
      BY <3>1, Zenon DEF Linked
    <3>2. CASE c # p
      <4>1. c \in S /\ c \in DOMAIN h.blocks
        BY <1>2, <2>1, <3>2
      <4>2. ~h.blocks[c].used
        BY <1>10, <4>1, Zenon DEF Tidy
      <4> QED
        BY <3>2, <4>1, <4>2, Zenon DEF Linked
    <3> QED
      BY <3>1, <3>2
  <2>2. ~k.failed
    BY <1>10, Zenon DEF Tidy, Linked
  <2>3. Apart(k, U \ {p})
    <3>1. Apart(h, S) /\ U \ {p} \subseteq S
      BY <1>2, <1>10 DEF Tidy
    <3>2. \A c \in S : End(k, c) = End(h, c)
      BY DEF Linked, End
    <3> QED
      BY <3>1, <3>2 DEF Apart
  <2>4. \A c \in T : ~g.blocks[c].used
    <3> SUFFICES ASSUME NEW c \in T PROVE ~g.blocks[c].used
      OBVIOUS
    <3>1. g.blocks[c].used = k.blocks[c].used /\ c \in U
      BY <1>6, Zenon
    <3> QED
      BY <2>1, <3>1, Zenon
  <2> QED
    BY <1>5, <1>6, <1>10, <2>1, <2>2, <2>3, <2>4, Zenon DEF Tidy
<1> QED
  BY <1>1, <1>9, <1>10, Zenon

-----------------------------------------------------------------------------
(* Where a block goes in a sorted list. *)
LEMMA InsertOrdered ==
    ASSUME NEW S, S \subseteq Int, NEW F, Lists(F, S), Ordered(F), NEW e \in Int, e \notin S,
           NEW k \in 1..(Len(F) + 1),
           \A j \in 1..Len(F) : IF j < k THEN F[j] < e ELSE e < F[j]
    PROVE  Ordered(InsertAt(F, k, e))
<1>1. PICK G : G = InsertAt(F, k, e)
  OBVIOUS
<1>2. /\ Len(G) = Len(F) + 1 /\ Len(F) \in Nat
      /\ \A j \in 1..(Len(F) + 1) : G[j] = IF j < k THEN F[j] ELSE IF j = k THEN e ELSE F[j - 1]
  <2>1. Len(F) \in Nat
    BY ListFacts
  <2>2. Inserted(G, F, k, e)
    BY <1>1, InsertList, Zenon
  <2> QED
    BY <2>1, <2>2, Zenon DEF Inserted
<1>3. \A i \in 1..Len(F) : F[i] \in Int
  BY ListFacts
<1>4. \A i, j \in 1..Len(F) : i < j => F[i] < F[j]
  BY DEF Ordered
<1>5. ASSUME NEW i \in 1..(Len(F) + 1), NEW j \in 1..(Len(F) + 1), i < j PROVE G[i] < G[j]
  <2>1. CASE j < k
    <3>1. i \in 1..Len(F) /\ j \in 1..Len(F) /\ G[i] = F[i] /\ G[j] = F[j]
      BY <1>2, <1>5, <2>1
    <3> QED
      BY <1>4, <1>5, <3>1
  <2>2. CASE j = k
    <3>1. i \in 1..Len(F) /\ i < k /\ G[i] = F[i] /\ G[j] = e
      BY <1>2, <1>5, <2>2
    <3> QED
      BY <3>1
  <2>3. CASE j > k
    <3>1. j - 1 \in 1..Len(F) /\ G[j] = F[j - 1] /\ ~(j - 1 < k)
      BY <1>2, <1>5, <2>3
    <3>2. e < F[j - 1] /\ F[j - 1] \in Int
      BY <1>3, <3>1
    <3>3. CASE i < k
      <4>1. i \in 1..Len(F) /\ G[i] = F[i]
        BY <1>2, <1>5, <3>3
      <4>2. F[i] < e /\ F[i] \in Int
        BY <1>3, <3>3, <4>1
      <4> QED
        BY <3>1, <3>2, <4>1, <4>2
    <3>4. CASE i = k
      <4>1. G[i] = e
        BY <1>2, <1>5, <3>4
      <4> QED
        BY <3>1, <3>2, <4>1
    <3>5. CASE i > k
      <4>1. i - 1 \in 1..Len(F) /\ G[i] = F[i - 1] /\ i - 1 < j - 1
        BY <1>2, <1>5, <3>5
      <4> QED
        BY <1>4, <3>1, <4>1
    <3> QED
      BY <3>3, <3>4, <3>5
  <2> QED
    BY <2>1, <2>2, <2>3
<1> QED
  BY <1>1, <1>2, <1>5 DEF Ordered

(* Prepending is inserting at the first place. *)
LEMMA PrependInserts ==
    ASSUME NEW S, NEW F, Lists(F, S), NEW e PROVE <<e>> \o F = InsertAt(F, 1, e)
<1>1. F \in Seq(S) /\ Len(F) \in Nat
  BY ListFacts
<1>2. SubSeq(F, 1, 0) = <<>>
  BY <1>1
<1>3. SubSeq(F, 1, Len(F)) = F
  BY <1>1
<1>4. <<>> \o <<e>> = <<e>>
  OBVIOUS
<1>5. InsertAt(F, 1, e) = SubSeq(F, 1, 0) \o <<e>> \o SubSeq(F, 1, Len(F))
  BY <1>1 DEF InsertAt
<1> QED
  BY <1>2, <1>3, <1>4, <1>5, Zenon

-----------------------------------------------------------------------------
(* append_to_freelist() behind x frees p, tidily if x is the nearest free  *)
(* one before p.                                                           *)
LEMMA AppendHeap ==
    ASSUME NEW h, IsHeap(h), Tiled(h), NEW S, S \subseteq DOMAIN h.blocks, Lists(h.free, S),
           NEW x \in S, NEW p \in DOMAIN h.blocks \ S
    PROVE  \E T : /\ Freed(AppendToFreelist(h, x, p), h, S, T, p)
                  /\ Tidy(h, S) /\ x < p /\ (\A c \in S : c < p => c <= x) =>
                         Tidy(AppendToFreelist(h, x, p), T)
<1>1. PICK i, j : i = PositionOf(h.free, x) /\ j = i + 1
  OBVIOUS
<1>2. i \in 1..Len(h.free) /\ h.free[i] = x /\ Len(h.free) \in Nat
  BY <1>1, PositionInList, ListFacts
<1>3. j \in 1..(Len(h.free) + 1) /\ p \notin S /\ p \in DOMAIN h.blocks
  BY <1>1, <1>2
<1>4. PICK F : F = InsertAt(h.free, j, p)
  OBVIOUS
<1>5. Lists(F, S \cup {p})
  BY <1>3, <1>4, InsertList, Zenon
<1>6. PICK k : k = Link(h, F, p)
  OBVIOUS
<1>7. Linked(k, h, p) /\ k.free = F
  BY <1>3, <1>6, LinkHeap, Zenon
<1>8. AppendToFreelist(h, x, p) = Merge(k, p)
  BY <1>1, <1>4, <1>6 DEF AppendToFreelist, Link
<1>9. PICK T : /\ Freed(Merge(k, p), h, S, T, p)
               /\ Tidy(h, S) /\ Ordered(k.free) => Tidy(Merge(k, p), T)
  BY <1>5, <1>7, LinkedMerges, Zenon
<1>10. ASSUME Tidy(h, S), x < p, \A c \in S : c < p => c <= x PROVE Ordered(k.free)
  <2>1. S \subseteq Int /\ p \in Int
    BY DEF Tiled
  <2>2. Ordered(h.free)
    BY <1>10, Zenon DEF Tidy
  <2>3. ASSUME NEW m \in 1..Len(h.free) PROVE IF m < j THEN h.free[m] < p ELSE p < h.free[m]
    <3>1. h.free[m] \in S /\ h.free[m] \in Int /\ h.free[m] # p
      <4>1. h.free[m] \in S
        BY ListFacts
      <4> QED
        BY <2>1, <4>1
    <3>2. CASE m < j
      <4>1. m = i \/ m < i
        BY <1>1, <1>2, <3>2
      <4>2. m < i => h.free[m] < h.free[i]
        BY <1>2, <2>2 DEF Ordered
      <4> QED
        BY <1>2, <1>10, <2>1, <3>1, <3>2, <4>1, <4>2
    <3>3. CASE ~(m < j)
      <4>1. i < m
        BY <1>1, <1>2, <3>3
      <4>2. h.free[i] < h.free[m]
        BY <1>2, <2>2, <4>1 DEF Ordered
      <4>3. ~(h.free[m] < p)
        BY <1>2, <1>10, <2>1, <3>1, <4>2
      <4> QED
        BY <2>1, <3>1, <3>3, <4>3
    <3> QED
      BY <3>2, <3>3
  <2>4. Ordered(InsertAt(h.free, j, p))
    BY <1>3, <2>1, <2>2, <2>3, InsertOrdered
  <2> QED
    BY <1>4, <1>7, <2>4, Zenon
<1> QED
  BY <1>8, <1>9, <1>10, Zenon

(* prepend_to_freelist() frees p, tidily if p is before all free blocks. *)
LEMMA PrependHeap ==
    ASSUME NEW h, IsHeap(h), Tiled(h), NEW S, S \subseteq DOMAIN h.blocks, Lists(h.free, S),
           NEW p \in DOMAIN h.blocks \ S
    PROVE  \E T : /\ Freed(PrependToFreelist(h, p), h, S, T, p)
                  /\ Tidy(h, S) /\ (\A c \in S : p < c) => Tidy(PrependToFreelist(h, p), T)
<1>1. PICK F : F = InsertAt(h.free, 1, p)
  OBVIOUS
<1>2. 1 \in 1..(Len(h.free) + 1) /\ p \notin S /\ p \in DOMAIN h.blocks
  <2>1. Len(h.free) \in Nat
    BY ListFacts
  <2> QED
    BY <2>1
<1>3. Lists(F, S \cup {p})
  BY <1>1, <1>2, InsertList, Zenon
<1>4. PICK k : k = Link(h, F, p)
  OBVIOUS
<1>5. Linked(k, h, p) /\ k.free = F
  BY <1>2, <1>4, LinkHeap, Zenon
<1>6. PrependToFreelist(h, p) = Merge(k, p)
  <2>1. <<p>> \o h.free = F
    BY <1>1, PrependInserts
  <2> QED
    BY <1>4, <2>1 DEF PrependToFreelist, Link
<1>7. PICK T : /\ Freed(Merge(k, p), h, S, T, p)
               /\ Tidy(h, S) /\ Ordered(k.free) => Tidy(Merge(k, p), T)
  BY <1>3, <1>5, LinkedMerges, Zenon
<1>8. ASSUME Tidy(h, S), \A c \in S : p < c PROVE Ordered(k.free)
  <2>1. S \subseteq Int /\ p \in Int
    BY DEF Tiled
  <2>2. Ordered(h.free)
    BY <1>8, Zenon DEF Tidy
  <2>3. ASSUME NEW m \in 1..Len(h.free) PROVE IF m < 1 THEN h.free[m] < p ELSE p < h.free[m]
    <3>1. h.free[m] \in S
      BY ListFacts
    <3> QED
      BY <1>8, <3>1
  <2>4. Ordered(InsertAt(h.free, 1, p))
    BY <1>2, <2>1, <2>2, <2>3, InsertOrdered
  <2> QED
    BY <1>1, <1>5, <2>4, Zenon
<1> QED
  BY <1>6, <1>7, <1>8, Zenon

(* release() puts the block into a free list which stays exact; and if the *)
(* list was tidy and not empty, and all other blocks were marked used, it  *)
(* stays tidy.                                                             *)
LEMMA ReleaseHeap ==
    ASSUME NEW h, IsHeap(h), Tiled(h), NEW S, S \subseteq DOMAIN h.blocks, Lists(h.free, S),
           NEW p \in DOMAIN h.blocks \ S,
           FreeBefore(h, p) # {} => Max(FreeBefore(h, p)) \in S
    PROVE  \E T : /\ Freed(Release(h, p), h, S, T, p)
                  /\ Tidy(h, S) /\ S # {} /\ (\A c \in DOMAIN h.blocks \ S : h.blocks[c].used) =>
                         Tidy(Release(h, p), T)
<1>0. DOMAIN h.blocks \subseteq Nat /\ p \in Nat
  BY DEF Tiled
<1>1. CASE FreeBefore(h, p) # {}
  <2>1. PICK x : x = Max(FreeBefore(h, p))
    OBVIOUS
  <2>2. x \in S /\ x \in FreeBefore(h, p) /\ \A c \in FreeBefore(h, p) : c <= x
    <3>1. FreeBefore(h, p) \in SUBSET (0..p)
      BY <1>0 DEF FreeBefore
    <3> QED
      BY <1>0, <1>1, <2>1, <3>1, MaxNumber
  <2>3. Release(h, p) = AppendToFreelist(h, x, p)
    BY <1>1, <2>1 DEF Release
  <2>4. PICK T : /\ Freed(AppendToFreelist(h, x, p), h, S, T, p)
                 /\ Tidy(h, S) /\ x < p /\ (\A c \in S : c < p => c <= x) =>
                        Tidy(AppendToFreelist(h, x, p), T)
    BY <2>2, AppendHeap, Zenon
  <2>5. x < p
    BY <2>2 DEF FreeBefore
  <2>6. ASSUME Tidy(h, S), NEW c \in S, c < p PROVE c <= x
    <3>1. ~h.blocks[c].used
      BY <2>6, Zenon DEF Tidy
    <3>2. c \in FreeBefore(h, p)
      BY <2>6, <3>1 DEF FreeBefore
    <3> QED
      BY <2>2, <3>2
  <2> QED
    BY <2>3, <2>4, <2>5, <2>6, Zenon
<1>2. CASE FreeBefore(h, p) = {} /\ h.free # <<>>
  <2>1. Release(h, p) = PrependToFreelist(h, p)
    BY <1>2 DEF Release
  <2>2. PICK T : /\ Freed(PrependToFreelist(h, p), h, S, T, p)
                 /\ Tidy(h, S) /\ (\A c \in S : p < c) => Tidy(PrependToFreelist(h, p), T)
    BY PrependHeap, Zenon
  <2>3. ASSUME Tidy(h, S), NEW c \in S PROVE p < c
    <3>1. ~h.blocks[c].used /\ c \in DOMAIN h.blocks /\ c # p
      BY <2>3, Zenon DEF Tidy
    <3>2. ~(c < p)
      BY <1>2, <3>1 DEF FreeBefore
    <3> QED
      BY <1>0, <3>1, <3>2
  <2> QED
    BY <2>1, <2>2, <2>3, Zenon
<1>3. CASE FreeBefore(h, p) = {} /\ h.free = <<>>
  <2>1. S = {}
    <3>1. Len(h.free) = 0 /\ \A s \in S : \E i \in 1..Len(h.free) : h.free[i] = s
      BY <1>3, ListFacts
    <3> QED
      BY <3>1
  <2>2. PICK f, g : f = h.failed /\ g = Release(h, p)
    OBVIOUS
  <2>3. g = [h EXCEPT !.free = <<p>>]
    BY <1>3, <2>2 DEF Release
  <2>4. g = [blocks |-> h.blocks, free |-> <<p>>, failed |-> f]
    BY <2>2, <2>3 DEF IsHeap
  <2>5. g.blocks = h.blocks /\ g.free = <<p>> /\ g.failed = f
    BY <2>4
  <2>6. IsHeap(g)
    BY <2>4, <2>5 DEF IsHeap
  <2>7. Tiled(g)
    BY <2>5, TilesAlike
  <2>8. Lists(g.free, {p})
    BY <2>5 DEF Lists
  <2>9. \A c \in DOMAIN h.blocks : SameBlock(g, h, c)
    BY <2>5 DEF SameBlock
  <2>10. {p} \subseteq DOMAIN g.blocks /\ {p} # {} /\ DOMAIN g.blocks \ {p} = (DOMAIN h.blocks \ S) \ {p}
    BY <2>1, <2>5
  <2>11. Freed(g, h, S, {p}, p)
    BY <2>6, <2>7, <2>8, <2>9, <2>10, Zenon DEF Freed
  <2> QED
    BY <2>1, <2>2, <2>11, Zenon
<1> QED
  BY <1>1, <1>2, <1>3

-----------------------------------------------------------------------------
(* Block a of the free ones has n words at least, and free blocks touch    *)
(* nowhere but at a.                                                       *)
Carved(s, h, S, T, a, n) ==
    /\ IsHeap(s) /\ Tiled(s) /\ T \subseteq DOMAIN s.blocks /\ a \in T /\ Lists(s.free, T)
    /\ DOMAIN s.blocks \ T = DOMAIN h.blocks \ S
    /\ \A c \in DOMAIN h.blocks \ S : SameBlock(s, h, c)
    /\ s.blocks[a].size >= n
    /\ Tidy(h, S) => /\ ~s.failed /\ \A c \in T : ~s.blocks[c].used
                     /\ Ordered(s.free) /\ Apart(s, T \ {a})

(* The blocks after the tail is cut off, before the block shrinks.         *)
WithTail(h, a, n) ==
    [b \in DOMAIN h.blocks \cup {a + n} |->
        IF b = a + n THEN [size |-> h.blocks[a].size - n, used |-> FALSE] ELSE h.blocks[b]]
Cut(h, a, n) == [h EXCEPT !.blocks = WithTail(h, a, n)]

CutTo(k, h, a, n) ==
    /\ IsHeap(k) /\ DOMAIN k.blocks = DOMAIN h.blocks \cup {a + n}
    /\ \A c \in DOMAIN h.blocks \ {a + n} : SameBlock(k, h, c)
    /\ k.blocks[a + n].size = h.blocks[a].size - n
    /\ k.free = h.free /\ (~h.failed => ~k.failed)

(* Cutting adds the tail and leaves the other blocks. *)
LEMMA CutHeap ==
    ASSUME NEW h, IsHeap(h), NEW a \in DOMAIN h.blocks, NEW n
    PROVE  CutTo(Cut(h, a, n), h, a, n)
<1>1. PICK k, B, f : k = Cut(h, a, n) /\ B = WithTail(h, a, n) /\ f = h.failed
  OBVIOUS
<1>2. k = [h EXCEPT !.blocks = B]
  BY <1>1 DEF Cut
<1>3. k = [blocks |-> B, free |-> h.free, failed |-> f]
  BY <1>1, <1>2 DEF IsHeap
<1>4. k.blocks = B /\ k.free = h.free /\ k.failed = f
  BY <1>3
<1>5. /\ DOMAIN B = DOMAIN h.blocks \cup {a + n} /\ B = [c \in DOMAIN B |-> B[c]]
      /\ B[a + n] = [size |-> h.blocks[a].size - n, used |-> FALSE]
      /\ \A c \in DOMAIN h.blocks \ {a + n} : B[c] = h.blocks[c]
  BY <1>1 DEF WithTail
<1>6. IsBlocks(B)
  <2>1. IsBlock(B[a + n])
    BY <1>5 DEF IsBlock
  <2>2. \A c \in DOMAIN h.blocks : IsBlock(h.blocks[c])
    BY DEF IsHeap, IsBlocks
  <2> QED
    BY <1>5, <2>1, <2>2 DEF IsBlocks
<1>7. IsHeap(k)
  BY <1>3, <1>4, <1>6 DEF IsHeap
<1>8. \A c \in DOMAIN h.blocks \ {a + n} : SameBlock(k, h, c)
  BY <1>4, <1>5 DEF SameBlock
<1>9. k.blocks[a + n].size = h.blocks[a].size - n
  BY <1>4, <1>5
<1>10. DOMAIN k.blocks = DOMAIN h.blocks \cup {a + n}
  BY <1>4, <1>5
<1> QED
  BY <1>1, <1>4, <1>7, <1>8, <1>9, <1>10, Zenon DEF CutTo

Shrink(h, a, n) == [h EXCEPT !.blocks[a].size = n]

Shrunk(s, h, a, n) ==
    /\ IsHeap(s) /\ DOMAIN s.blocks = DOMAIN h.blocks
    /\ \A c \in DOMAIN h.blocks \ {a} : SameBlock(s, h, c)
    /\ s.blocks[a].size = n /\ s.blocks[a].used = h.blocks[a].used
    /\ s.free = h.free /\ (~h.failed => ~s.failed)

(* Shrinking writes the size of one block only. *)
LEMMA ShrinkHeap ==
    ASSUME NEW h, IsHeap(h), NEW a \in DOMAIN h.blocks, NEW n
    PROVE  Shrunk(Shrink(h, a, n), h, a, n)
<1>1. PICK s, B, f : s = Shrink(h, a, n) /\ B = [h.blocks EXCEPT ![a].size = n] /\ f = h.failed
  OBVIOUS
<1>2. s = [h EXCEPT !.blocks[a].size = n]
  BY <1>1 DEF Shrink
<1>3. s = [blocks |-> B, free |-> h.free, failed |-> f]
  BY <1>1, <1>2 DEF IsHeap
<1>4. s.blocks = B /\ s.free = h.free /\ s.failed = f
  BY <1>3
<1>5. /\ IsBlocks(B) /\ DOMAIN B = DOMAIN h.blocks
      /\ \A c \in DOMAIN h.blocks : B[c].used = h.blocks[c].used /\ (c # a => B[c].size = h.blocks[c].size)
      /\ B[a].size = n
  <2>1. IsBlocks(h.blocks)
    BY DEF IsHeap
  <2> QED
    BY <1>1, <2>1, SizeBlocks
<1>7. IsHeap(s)
  BY <1>3, <1>4, <1>5 DEF IsHeap
<1>8. \A c \in DOMAIN h.blocks \ {a} : SameBlock(s, h, c)
  BY <1>4, <1>5 DEF SameBlock
<1> QED
  BY <1>1, <1>4, <1>5, <1>7, <1>8, Zenon DEF Shrunk

(* A tail that is large enough lies inside its block, and after the cut    *)
(* the blocks tile the memory again.                                       *)
LEMMA TailInside ==
    ASSUME NEW h, Tiled(h), NEW a \in DOMAIN h.blocks, NEW n \in Nat, n >= FreeNode,
           h.blocks[a].size - n >= FreeNode
    PROVE  /\ a + n \in Nat /\ a < a + n /\ a + n < End(h, a) /\ a + n < Words /\ a + n \notin DOMAIN h.blocks
           /\ \A c \in DOMAIN h.blocks : c > a => a + n < c
           /\ \A c \in DOMAIN h.blocks : c # a => End(h, c) # a + n
<1>1. /\ a \in Nat /\ h.blocks[a].size \in Nat /\ End(h, a) = a + h.blocks[a].size /\ End(h, a) <= Words
  BY HeapAssumption DEF Tiled, End
<1>2. a + n \in Nat /\ a < a + n /\ a + n < End(h, a) /\ a + n < Words
  BY <1>1, HeapAssumption DEF FreeNode
<1>3. \A c \in DOMAIN h.blocks : c > a => c >= End(h, a)
  BY <1>1 DEF Tiled
<1>4. \A c \in DOMAIN h.blocks : c \in Nat
  BY DEF Tiled
<1>5. \A c \in DOMAIN h.blocks : c > a => a + n < c
  BY <1>1, <1>2, <1>3, <1>4
<1>6. a + n \notin DOMAIN h.blocks
  BY <1>2, <1>5
<1>7. ASSUME NEW c \in DOMAIN h.blocks, c # a, End(h, c) = a + n PROVE FALSE
  <2>1. End(h, c) \in DOMAIN h.blocks \cup {Words}
    BY DEF Tiled, End
  <2> QED
    BY <1>2, <1>6, <1>7, <2>1, HeapAssumption
<1> QED
  BY <1>2, <1>5, <1>6, <1>7

(* Cut at its tail, the block and the tail tile what the block did. *)
LEMMA TailTiles ==
    ASSUME NEW h, Tiled(h), NEW a \in DOMAIN h.blocks, NEW n \in Nat, n >= FreeNode,
           h.blocks[a].size - n >= FreeNode,
           NEW t, DOMAIN t.blocks = DOMAIN h.blocks \cup {a + n},
           \A c \in DOMAIN h.blocks \ {a} : t.blocks[c].size = h.blocks[c].size,
           t.blocks[a].size = n, t.blocks[a + n].size = h.blocks[a].size - n
    PROVE  Tiled(t)
<1>1. /\ a + n \in Nat /\ a < a + n /\ a + n < End(h, a) /\ a + n < Words /\ a + n \notin DOMAIN h.blocks
      /\ \A c \in DOMAIN h.blocks : c > a => a + n < c
  BY TailInside
<1>2. DOMAIN h.blocks \subseteq 0..(Words - 1) /\ 0 \in DOMAIN h.blocks /\ a \in Nat /\ h.blocks[a].size \in Nat
  BY DEF Tiled
<1>3. DOMAIN t.blocks \subseteq 0..(Words - 1) /\ 0 \in DOMAIN t.blocks
  BY <1>1, <1>2, HeapAssumption
<1>4. ASSUME NEW c \in DOMAIN t.blocks
      PROVE  /\ t.blocks[c].size \in Nat /\ t.blocks[c].size >= FreeNode
             /\ c + t.blocks[c].size \in DOMAIN t.blocks \cup {Words}
             /\ \A d \in DOMAIN t.blocks : d > c => d >= c + t.blocks[c].size
  <2>1. CASE c = a
    <3>1. \A d \in DOMAIN t.blocks : d > a => d >= a + n
      BY <1>1, <1>2
    <3> QED
      BY <2>1, <3>1
  <2>2. CASE c = a + n
    <3>1. /\ t.blocks[c].size \in Nat /\ t.blocks[c].size >= FreeNode
          /\ c + t.blocks[c].size = End(h, a)
      <4>1. PICK m, q : m = h.blocks[a].size /\ q = t.blocks[c].size
        OBVIOUS
      <4>2. q = m - n /\ m - n >= FreeNode /\ m \in Nat /\ End(h, a) = a + m
        BY <1>2, <2>2, <4>1 DEF End
      <4>3. q \in Nat /\ q >= FreeNode /\ c + q = a + m
        BY <1>2, <2>2, <4>2 DEF FreeNode
      <4> QED
        BY <4>1, <4>2, <4>3, Zenon
    <3>2. End(h, a) \in DOMAIN h.blocks \cup {Words}
      BY DEF Tiled, End
    <3>3. \A d \in DOMAIN h.blocks : d > a => d >= End(h, a)
      BY DEF Tiled, End
    <3>4. \A d \in DOMAIN t.blocks : d > c => d \in DOMAIN h.blocks /\ d > a
      BY <1>1, <1>2, <2>2
    <3> QED
      BY <3>1, <3>2, <3>3, <3>4
  <2>3. CASE c # a /\ c # a + n
    <3>1. c \in DOMAIN h.blocks /\ t.blocks[c].size = h.blocks[c].size /\ c \in Nat
      BY <1>2, <2>3
    <3>2. /\ h.blocks[c].size \in Nat /\ h.blocks[c].size >= FreeNode
          /\ c + h.blocks[c].size \in DOMAIN h.blocks \cup {Words}
          /\ \A d \in DOMAIN h.blocks : d > c => d >= c + h.blocks[c].size
      BY <3>1 DEF Tiled
    <3>3. a + n > c => a + n >= c + h.blocks[c].size
      <4>1. CASE c > a
        BY <1>1, <3>1, <4>1
      <4>2. CASE c < a
        BY <1>1, <1>2, <3>1, <3>2, <4>2
      <4> QED
        BY <1>2, <2>3, <3>1, <4>1, <4>2
    <3> QED
      BY <3>1, <3>2, <3>3
  <2> QED
    BY <2>1, <2>2, <2>3
<1> QED
  BY <1>3, <1>4 DEF Tiled

-----------------------------------------------------------------------------
(* The heap in the middle of split(): the tail b is cut from a, which      *)
(* keeps its size, and has joined both lists.                              *)
Overlapping(k, h, S, a, b) ==
    /\ IsHeap(k) /\ DOMAIN k.blocks = DOMAIN h.blocks \cup {b} /\ b \notin DOMAIN h.blocks
    /\ \A c \in DOMAIN h.blocks : SameBlock(k, h, c)
    /\ k.blocks[b].size = h.blocks[a].size - (b - a) /\ ~k.blocks[b].used
    /\ Lists(k.free, S \cup {b})
    /\ ~h.failed => ~k.failed
    /\ Ordered(h.free) => Ordered(k.free)

(* split() is this heap merged at the tail, with block a shrunk after. *)
LEMMA SplitJoins ==
    ASSUME NEW h, IsHeap(h), Tiled(h), NEW S, S \subseteq DOMAIN h.blocks, Lists(h.free, S), NEW a \in S,
           NEW n \in Nat, n >= FreeNode, h.blocks[a].size - n >= FreeNode
    PROVE  \E k : Overlapping(k, h, S, a, a + n) /\ Split(h, a, n) = Shrink(Merge(k, a + n), a, n)
<1>1. PICK b : b = a + n
  OBVIOUS
<1>2. /\ b \in Nat /\ a < b /\ b < End(h, a) /\ b < Words /\ b \notin DOMAIN h.blocks
      /\ \A c \in DOMAIN h.blocks : c > a => b < c
  BY <1>1, TailInside
<1>3. PICK u : u = Cut(h, a, n)
  OBVIOUS
<1>4. /\ IsHeap(u) /\ DOMAIN u.blocks = DOMAIN h.blocks \cup {b}
      /\ \A c \in DOMAIN h.blocks \ {b} : SameBlock(u, h, c)
      /\ u.blocks[b].size = h.blocks[a].size - n
      /\ u.free = h.free /\ (~h.failed => ~u.failed)
  <2>1. a \in DOMAIN h.blocks
    OBVIOUS
  <2>2. CutTo(u, h, a, n)
    BY <1>3, <2>1, CutHeap, Zenon
  <2> QED
    BY <1>1, <2>2, Zenon DEF CutTo
<1>5. PICK j : j = PositionOf(h.free, a) + 1
  OBVIOUS
<1>6. j \in 1..(Len(h.free) + 1) /\ j - 1 \in 1..Len(h.free) /\ h.free[j - 1] = a /\ Len(h.free) \in Nat
  <2>1. Len(h.free) \in Nat
    BY ListFacts
  <2>2. PositionOf(h.free, a) \in 1..Len(h.free) /\ h.free[PositionOf(h.free, a)] = a
    BY PositionInList
  <2>3. j - 1 = PositionOf(h.free, a)
    BY <1>5, <2>2
  <2> QED
    BY <1>5, <2>1, <2>2, <2>3
<1>7. PICK F : F = InsertAt(h.free, j, b)
  OBVIOUS
<1>8. b \notin S
  BY <1>2
<1>9. Lists(F, S \cup {b})
  BY <1>6, <1>7, <1>8, InsertList, Zenon
<1>10. PICK k : k = Link(u, F, b)
  OBVIOUS
<1>11. Linked(k, u, b) /\ k.free = F
  <2>1. b \in DOMAIN u.blocks
    BY <1>4
  <2>2. IsHeap(u)
    BY <1>4, Zenon
  <2> QED
    BY <1>10, <2>1, <2>2, LinkHeap, Zenon
<1>12. Ordered(h.free) => Ordered(F)
  <2> SUFFICES ASSUME Ordered(h.free) PROVE Ordered(F)
    OBVIOUS
  <2>1. S \subseteq Int /\ b \in Int
    BY <1>2 DEF Tiled
  <2>2. ASSUME NEW m \in 1..Len(h.free) PROVE IF m < j THEN h.free[m] < b ELSE b < h.free[m]
    <3>1. h.free[m] \in S
      BY ListFacts
    <3>2. h.free[m] \in Int /\ h.free[m] \in DOMAIN h.blocks /\ a \in Int
      BY <2>1, <3>1
    <3>3. CASE m < j
      <4>1. m = j - 1 \/ m < j - 1
        BY <1>6, <3>3
      <4>2. m < j - 1 => h.free[m] < h.free[j - 1]
        BY <1>6 DEF Ordered
      <4>3. h.free[m] = a \/ h.free[m] < a
        BY <1>6, <4>1, <4>2
      <4> QED
        BY <1>2, <2>1, <3>2, <3>3, <4>3
    <3>4. CASE ~(m < j)
      <4>1. j - 1 < m
        BY <1>6, <3>4
      <4>2. a < h.free[m]
        BY <1>6, <4>1 DEF Ordered
      <4> QED
        BY <1>2, <3>2, <3>4, <4>2
    <3> QED
      BY <3>3, <3>4
  <2>3. Ordered(InsertAt(h.free, j, b))
    BY <1>6, <1>8, <2>1, <2>2, InsertOrdered
  <2> QED
    BY <1>7, <2>3
<1>13. Overlapping(k, h, S, a, b)
  <2>1. IsHeap(k) /\ DOMAIN k.blocks = DOMAIN h.blocks \cup {b} /\ b \notin DOMAIN h.blocks
    BY <1>2, <1>4, <1>11 DEF Linked
  <2>2. \A c \in DOMAIN h.blocks : SameBlock(k, h, c)
    BY <1>2, <1>4, <1>11 DEF Linked, SameBlock
  <2>3. n = b - a
    <3>1. a \in Nat
      BY DEF Tiled
    <3> QED
      BY <1>1, <3>1
  <2>4. k.blocks[b].size = h.blocks[a].size - (b - a)
    BY <1>4, <1>11, <2>3 DEF Linked
  <2>5. ~k.blocks[b].used /\ (~h.failed => ~k.failed)
    BY <1>4, <1>11, Zenon DEF Linked
  <2> QED
    BY <1>9, <1>11, <1>12, <2>1, <2>2, <2>4, <2>5, Zenon DEF Overlapping
<1>14. Split(h, a, n) = Shrink(Merge(k, b), a, n)
  <2>1. InsertAt(u.free, PositionOf(u.free, a) + 1, b) = F
    BY <1>4, <1>5, <1>7
  <2>2. AppendToFreelist(u, a, b) = Merge(k, b)
    BY <1>10, <2>1 DEF AppendToFreelist, Link
  <2>3. Split(h, a, n) = Shrink(AppendToFreelist(u, a, b), a, n)
    BY <1>1, <1>3 DEF Split, Shrink, Cut, WithTail
  <2> QED
    BY <2>2, <2>3
<1> QED
  BY <1>1, <1>13, <1>14, Zenon

-----------------------------------------------------------------------------
(* The tail may swallow the next block; it is not joined with a, whose end *)
(* is beyond its start.                                                    *)
LEMMA TailMerges ==
    ASSUME NEW h, IsHeap(h), Tiled(h), NEW S, S \subseteq DOMAIN h.blocks, Lists(h.free, S), NEW a \in S,
           NEW n \in Nat, n >= FreeNode, h.blocks[a].size - n >= FreeNode,
           NEW k, Overlapping(k, h, S, a, a + n), NEW b, b = a + n, NEW U, U = S \cup {b}
    PROVE  /\ Merge(k, b) = Onward(k, b)
           /\ OnwardStays(Onward(k, b), k, U, b) \/ \E y \in U : OnwardTakes(Onward(k, b), k, U, b, y)
<1>1. /\ b \in Nat /\ a < b /\ b < End(h, a) /\ b < Words /\ b \notin DOMAIN h.blocks
      /\ \A c \in DOMAIN h.blocks : c # a => End(h, c) # b
  BY TailInside
<1>2. /\ IsHeap(k) /\ DOMAIN k.blocks = DOMAIN h.blocks \cup {b} /\ Lists(k.free, U)
      /\ \A c \in DOMAIN h.blocks : k.blocks[c].size = h.blocks[c].size
  BY DEF Overlapping, SameBlock
<1>3. U \subseteq DOMAIN k.blocks /\ U \subseteq Int /\ b \in U
  BY <1>1, <1>2 DEF Tiled
<1>4. PICK g : g = Onward(k, b)
  OBVIOUS
<1>5. OnwardStays(g, k, U, b) \/ \E y \in U : OnwardTakes(g, k, U, b, y)
  BY <1>2, <1>3, <1>4, OnwardFuses, Zenon
<1>6. PICK T : /\ T \subseteq U /\ b \in T /\ Fused(g, k, U, T)
               /\ \A c \in T \ {b} : g.blocks[c].size = k.blocks[c].size
  <2>1. CASE OnwardStays(g, k, U, b)
    <3>1. g = k /\ Fused(g, k, U, U)
      BY <2>1 DEF OnwardStays
    <3> QED
      BY <1>3, <3>1
  <2>2. ASSUME NEW y \in U, OnwardTakes(g, k, U, b, y)
        PROVE  \E T : /\ T \subseteq U /\ b \in T /\ Fused(g, k, U, T)
                      /\ \A c \in T \ {b} : g.blocks[c].size = k.blocks[c].size
    <3>1. y # b /\ Fused(g, k, U, U \ {y}) /\ Swallowed(g, k, b, y)
      BY <2>2, Zenon DEF OnwardTakes
    <3>2. \A c \in (U \ {y}) \ {b} : g.blocks[c].size = k.blocks[c].size
      BY <1>3, <3>1 DEF Swallowed, SameBlock
    <3>3. U \ {y} \subseteq U /\ b \in U \ {y}
      BY <1>3, <3>1
    <3> QED
      BY <3>1, <3>2, <3>3
  <2> QED
    BY <1>5, <2>1, <2>2
<1>7. IsHeap(g) /\ T \subseteq DOMAIN g.blocks /\ T \subseteq Int /\ Lists(g.free, T)
  BY <1>3, <1>6 DEF Fused
<1>8. ASSUME NEW x \in T, x # b PROVE End(g, x) # b
  <2>1. x \in S /\ x \in DOMAIN h.blocks
    BY <1>6, <1>8
  <2>2. End(g, x) = End(h, x)
    BY <1>2, <1>6, <1>8, <2>1 DEF End
  <2>3. End(h, x) # b
    <3>1. CASE x = a
      <4>1. End(h, a) \in Int
        BY DEF End, Tiled
      <4> QED
        BY <1>1, <3>1, <4>1
    <3>2. CASE x # a
      BY <1>1, <2>1, <3>2
    <3> QED
      BY <3>1, <3>2
  <2> QED
    BY <2>2, <2>3
<1>9. Backward(g, b) = g
  <2>1. \/ BackwardStays(Backward(g, b), g, T, b)
        \/ \E x \in T : BackwardTakes(Backward(g, b), g, T, b, x)
    BY <1>6, <1>7, BackwardFuses, Zenon
  <2>2. ASSUME NEW x \in T, BackwardTakes(Backward(g, b), g, T, b, x) PROVE FALSE
    BY <1>8, <2>2, Zenon DEF BackwardTakes
  <2> QED
    BY <2>1, <2>2, Zenon DEF BackwardStays
<1>10. Merge(k, b) = g
  BY <1>2, <1>3, <1>4, <1>9, MergeHalves, Zenon
<1> QED
  BY <1>4, <1>5, <1>10, Zenon

-----------------------------------------------------------------------------
(* split() leaves block a with n words and the tail, joined with the next  *)
(* block where they touch.                                                 *)
SplitLeaves(s, g, k, h, S, U, T, a) ==
    /\ T \subseteq U /\ a \in T /\ Fused(g, k, U, T) /\ Tiled(s)
    /\ Apart(h, S) => Apart(s, T \ {a})

(* After the shrinking the blocks tile the memory and no two touch but a   *)
(* and its tail.                                                           *)
LEMMA SplitTiles ==
    ASSUME NEW h, IsHeap(h), Tiled(h), NEW S, S \subseteq DOMAIN h.blocks, Lists(h.free, S), NEW a \in S,
           NEW n \in Nat, n >= FreeNode, h.blocks[a].size - n >= FreeNode,
           NEW k, Overlapping(k, h, S, a, a + n), NEW b, b = a + n, NEW U, U = S \cup {b},
           NEW g, OnwardStays(g, k, U, b) \/ \E y \in U : OnwardTakes(g, k, U, b, y),
           NEW s, Shrunk(s, g, a, n)
    PROVE  \E T : SplitLeaves(s, g, k, h, S, U, T, a)
<1>1. /\ b \in Nat /\ a < b /\ b < End(h, a) /\ b < Words /\ b \notin DOMAIN h.blocks
      /\ \A c \in DOMAIN h.blocks : c # a => End(h, c) # b
  BY TailInside
<1>2. a \in U /\ b \in U /\ a # b /\ a \in Nat /\ h.blocks[a].size \in Nat
  <2>1. a \in Nat /\ h.blocks[a].size \in Nat
    BY DEF Tiled
  <2> QED
    BY <1>1, <2>1
<1>3. /\ IsHeap(k) /\ DOMAIN k.blocks = DOMAIN h.blocks \cup {b}
      /\ \A c \in DOMAIN h.blocks : k.blocks[c].size = h.blocks[c].size
      /\ k.blocks[b].size = h.blocks[a].size - n
  <2>1. b - a = n
    BY <1>2
  <2> QED
    BY <2>1 DEF Overlapping, SameBlock
<1>4. PICK t : t = Shrink(k, a, n)
  OBVIOUS
<1>5. Shrunk(t, k, a, n)
  <2>1. a \in DOMAIN k.blocks
    BY <1>3
  <2> QED
    BY <1>3, <1>4, <2>1, ShrinkHeap, Zenon
<1>6. /\ IsHeap(t) /\ DOMAIN t.blocks = DOMAIN h.blocks \cup {b} /\ t.blocks[a].size = n
      /\ \A c \in DOMAIN h.blocks \ {a} : t.blocks[c].size = h.blocks[c].size
      /\ t.blocks[b].size = h.blocks[a].size - n
  BY <1>1, <1>2, <1>3, <1>5 DEF Shrunk, SameBlock
<1>7. Tiled(t)
  BY <1>6, TailTiles
<1>8. End(t, b) = End(h, a)
  <2>1. b + (h.blocks[a].size - n) = a + h.blocks[a].size
    BY <1>2
  <2> QED
    BY <1>6, <2>1 DEF End
<1>9. DOMAIN s.blocks = DOMAIN g.blocks /\ \A c \in DOMAIN g.blocks \ {a} : SameBlock(s, g, c)
  BY DEF Shrunk
<1>10. ASSUME OnwardStays(g, k, U, b)
       PROVE  Fused(g, k, U, U) /\ Tiled(s) /\ (Apart(h, S) => Apart(s, U \ {a}))
  <2>1. g = k /\ Fused(g, k, U, U)
    BY <1>10 DEF OnwardStays
  <2>2. DOMAIN s.blocks = DOMAIN t.blocks /\ \A c \in DOMAIN t.blocks : s.blocks[c].size = t.blocks[c].size
    BY <1>5, <2>1 DEF Shrunk, SameBlock
  <2>3. Tiled(s)
    BY <1>7, <2>2, TilesAlike
  <2>4. ASSUME Apart(h, S), NEW x \in U \ {a}, NEW z \in U \ {a}, End(s, x) = z PROVE FALSE
    <3>1. x \in DOMAIN t.blocks /\ End(s, x) = End(t, x)
      BY <1>6, <2>2, <2>4 DEF End
    <3>2. CASE x = b
      <4>1. End(h, a) = z
        BY <1>8, <2>4, <3>1, <3>2
      <4>2. z # b
        BY <1>1, <1>2, <4>1 DEF End
      <4> QED
        BY <2>4, <4>1, <4>2 DEF Apart
    <3>3. CASE x # b
      <4>1. x \in S /\ x \in DOMAIN h.blocks /\ End(h, x) = z
        BY <1>6, <2>4, <3>1, <3>3 DEF End
      <4>2. z \in S
        BY <1>1, <2>4, <4>1
      <4> QED
        BY <2>4, <4>1, <4>2 DEF Apart
    <3> QED
      BY <3>2, <3>3
  <2> QED
    BY <2>1, <2>3, <2>4, Zenon DEF Apart
<1>11. ASSUME NEW y \in U, OnwardTakes(g, k, U, b, y)
       PROVE  /\ a \in U \ {y} /\ Fused(g, k, U, U \ {y}) /\ Tiled(s)
              /\ Apart(h, S) => Apart(s, (U \ {y}) \ {a})
  <2>1. y # b /\ End(k, b) = y /\ Fused(g, k, U, U \ {y}) /\ Swallowed(g, k, b, y)
    BY <1>11, Zenon DEF OnwardTakes
  <2>2. End(h, a) = y
    <3>1. End(k, b) = End(t, b)
      BY <1>3, <1>6 DEF End
    <3> QED
      BY <1>8, <2>1, <3>1
  <2>3. y # a /\ y \in S
    BY <1>1, <1>2, <2>1, <2>2 DEF End
  <2>4. b \in DOMAIN t.blocks /\ y \in DOMAIN t.blocks /\ b + t.blocks[b].size = y
    BY <1>6, <1>8, <2>2, <2>3 DEF End
  <2>5. Swallowed(s, t, b, y)
    <3>1. IsHeap(s) /\ DOMAIN s.blocks = DOMAIN t.blocks \ {y}
      BY <1>3, <1>6, <2>1 DEF Swallowed, Shrunk
    <3>2. s.blocks[b].size = t.blocks[b].size + t.blocks[y].size /\ s.blocks[b].used = t.blocks[b].used
      <4>1. b \in DOMAIN g.blocks \ {a} /\ b \in DOMAIN k.blocks \ {a} /\ y \in DOMAIN k.blocks \ {a}
        BY <1>2, <1>3, <2>1, <2>3 DEF Swallowed
      <4>2. SameBlock(s, g, b) /\ SameBlock(t, k, b) /\ SameBlock(t, k, y)
        BY <1>5, <1>9, <4>1 DEF Shrunk
      <4> QED
        BY <2>1, <4>2 DEF Swallowed, SameBlock
    <3>3. ASSUME NEW c \in DOMAIN t.blocks \ {b, y} PROVE SameBlock(s, t, c)
      <4>1. c \in DOMAIN k.blocks /\ c \in DOMAIN g.blocks /\ c # b /\ c # y
        BY <1>3, <1>6, <2>1, <3>3 DEF Swallowed
      <4>2. SameBlock(g, k, c)
        BY <2>1, <4>1 DEF Swallowed
      <4>3. CASE c = a
        BY <1>5, <4>2, <4>3 DEF Shrunk, SameBlock
      <4>4. CASE c # a
        <5>1. SameBlock(s, g, c) /\ SameBlock(t, k, c)
          BY <1>5, <1>9, <4>1, <4>4 DEF Shrunk
        <5> QED
          BY <4>2, <5>1 DEF SameBlock
      <4> QED
        BY <4>3, <4>4
    <3> QED
      BY <3>1, <3>2, <3>3 DEF Swallowed
  <2>6. Tiled(s)
    BY <1>6, <1>7, <2>4, <2>5, MergeTiles
  <2>7. ~Apart(h, S)
    BY <2>2, <2>3 DEF Apart
  <2>8. a \in U \ {y}
    BY <1>2, <2>3
  <2> QED
    BY <2>1, <2>6, <2>7, <2>8
<1>12. OnwardStays(g, k, U, b) \/ \E y \in U : OnwardTakes(g, k, U, b, y)
  OBVIOUS
<1>13. CASE OnwardStays(g, k, U, b)
  <2>1. U \subseteq U
    OBVIOUS
  <2> QED
    BY <1>2, <1>10, <1>13, <2>1, Zenon DEF SplitLeaves
<1>14. CASE \E y \in U : OnwardTakes(g, k, U, b, y)
  <2>1. PICK y \in U : OnwardTakes(g, k, U, b, y)
    BY <1>14
  <2>2. U \ {y} \subseteq U
    OBVIOUS
  <2> QED
    BY <1>11, <2>1, <2>2, Zenon DEF SplitLeaves
<1> QED
  BY <1>12, <1>13, <1>14

(* So split() leaves what Carved says, for every heap it is called on. *)
LEMMA SplitHeap ==
    ASSUME NEW h, IsHeap(h), Tiled(h), NEW S, S \subseteq DOMAIN h.blocks, Lists(h.free, S), NEW a \in S,
           NEW n \in Nat, n >= FreeNode, h.blocks[a].size - n >= FreeNode
    PROVE  \E T : Carved(Split(h, a, n), h, S, T, a, n)
<1>1. PICK b, U : b = a + n /\ U = S \cup {b}
  OBVIOUS
<1>2. PICK k : Overlapping(k, h, S, a, a + n) /\ Split(h, a, n) = Shrink(Merge(k, a + n), a, n)
  BY SplitJoins
<1>3. PICK g : g = Onward(k, b)
  OBVIOUS
<1>4. Merge(k, b) = g /\ (OnwardStays(g, k, U, b) \/ \E y \in U : OnwardTakes(g, k, U, b, y))
  BY <1>1, <1>2, <1>3, TailMerges
<1>5. PICK s : s = Shrink(g, a, n)
  OBVIOUS
<1>6. Split(h, a, n) = s
  BY <1>1, <1>2, <1>4, <1>5, Zenon
<1>7. a \in Nat /\ b \in Nat /\ a < b /\ b \notin DOMAIN h.blocks /\ a \in DOMAIN h.blocks
  BY <1>1, TailInside DEF Tiled
<1>8. /\ IsHeap(k) /\ DOMAIN k.blocks = DOMAIN h.blocks \cup {b}
      /\ \A c \in DOMAIN h.blocks : SameBlock(k, h, c)
  BY <1>1, <1>2 DEF Overlapping
<1>9. Shrunk(s, g, a, n)
  <2>1. IsHeap(g) /\ a \in DOMAIN g.blocks
    <3>1. CASE OnwardStays(g, k, U, b)
      BY <1>7, <1>8, <3>1 DEF OnwardStays
    <3>2. ASSUME NEW y \in U, OnwardTakes(g, k, U, b, y) PROVE IsHeap(g) /\ a \in DOMAIN g.blocks
      <4>1. y # b /\ End(k, b) = y /\ Swallowed(g, k, b, y)
        BY <3>2, Zenon DEF OnwardTakes
      <4>2. y # a
        <5>1. k.blocks[b].size = h.blocks[a].size - (b - a) /\ b - a = n
          BY <1>1, <1>2, <1>7 DEF Overlapping
        <5>2. k.blocks[b].size >= FreeNode /\ h.blocks[a].size \in Nat
          BY <5>1 DEF Tiled
        <5> QED
          BY <1>7, <4>1, <5>1, <5>2 DEF End, FreeNode
      <4> QED
        BY <1>7, <1>8, <4>1, <4>2 DEF Swallowed
    <3> QED
      BY <1>4, <3>1, <3>2
  <2> QED
    BY <1>5, <2>1, ShrinkHeap, Zenon
<1>10. PICK T : /\ T \subseteq U /\ a \in T /\ Fused(g, k, U, T) /\ Tiled(s)
                /\ Apart(h, S) => Apart(s, T \ {a})
  <2>1. b = a + n /\ U = S \cup {b}
    BY <1>1
  <2>2. \E T : SplitLeaves(s, g, k, h, S, U, T, a)
    BY <1>2, <1>4, <1>9, <2>1, SplitTiles, Zenon
  <2> QED
    BY <2>2, Zenon DEF SplitLeaves
<1>11. /\ Lists(g.free, T) /\ DOMAIN g.blocks = DOMAIN k.blocks \ (U \ T)
       /\ \A c \in DOMAIN k.blocks \ U : SameBlock(g, k, c)
       /\ \A c \in T : g.blocks[c].used = k.blocks[c].used
       /\ ~k.failed /\ (\A c \in U : ~k.blocks[c].used) => ~g.failed
       /\ Ordered(k.free) => Ordered(g.free)
  BY <1>10, Zenon DEF Fused
<1>12. /\ IsHeap(s) /\ DOMAIN s.blocks = DOMAIN g.blocks
       /\ \A c \in DOMAIN g.blocks \ {a} : SameBlock(s, g, c)
       /\ s.blocks[a].size = n /\ s.blocks[a].used = g.blocks[a].used
       /\ s.free = g.free /\ (~g.failed => ~s.failed)
  BY <1>9, Zenon DEF Shrunk
<1>13. T \subseteq DOMAIN s.blocks /\ DOMAIN s.blocks \ T = DOMAIN h.blocks \ S
  <2>1. DOMAIN s.blocks = (DOMAIN h.blocks \cup {b}) \ (U \ T)
    BY <1>8, <1>11, <1>12, Zenon
  <2>2. U = S \cup {b} /\ T \subseteq U
    BY <1>1, <1>10
  <2> QED
    BY <1>7, <2>1, <2>2
<1>14. ASSUME NEW c \in DOMAIN h.blocks \ S PROVE SameBlock(s, h, c)
  <2>1. c \in DOMAIN k.blocks \ U /\ c \in DOMAIN g.blocks \ {a}
    BY <1>1, <1>7, <1>8, <1>11, <1>14
  <2>2. SameBlock(s, g, c) /\ SameBlock(g, k, c) /\ SameBlock(k, h, c)
    BY <1>8, <1>11, <1>12, <2>1
  <2> QED
    BY <2>2 DEF SameBlock
<1>15. s.blocks[a].size >= n
  BY <1>12
<1>16. ASSUME Tidy(h, S)
       PROVE  ~s.failed /\ (\A c \in T : ~s.blocks[c].used) /\ Ordered(s.free) /\ Apart(s, T \ {a})
  <2>1. ~h.failed /\ Ordered(h.free) /\ Apart(h, S) /\ \A c \in S : ~h.blocks[c].used
    BY <1>16, Zenon DEF Tidy
  <2>2. ~k.failed /\ Ordered(k.free) /\ ~k.blocks[b].used
    BY <1>1, <1>2, <2>1, Zenon DEF Overlapping
  <2>3. ASSUME NEW c \in U PROVE ~k.blocks[c].used
    <3>1. CASE c = b
      BY <2>2, <3>1, Zenon
    <3>2. CASE c # b
      <4>1. c \in S /\ c \in DOMAIN h.blocks
        BY <1>1, <2>3, <3>2
      <4>2. SameBlock(k, h, c)
        BY <1>8, <4>1
      <4> QED
        BY <2>1, <4>1, <4>2, Zenon DEF SameBlock
    <3> QED
      BY <3>1, <3>2
  <2>4. ~s.failed /\ Ordered(s.free)
    BY <1>11, <1>12, <2>2, <2>3, Zenon
  <2>5. ASSUME NEW c \in T PROVE ~s.blocks[c].used
    <3>1. ~g.blocks[c].used
      <4>1. g.blocks[c].used = k.blocks[c].used /\ c \in U
        BY <1>10, <1>11, <2>5, Zenon
      <4> QED
        BY <2>3, <4>1, Zenon
    <3>2. CASE c = a
      BY <1>12, <3>1, <3>2, Zenon
    <3>3. CASE c # a
      <4>1. c \in DOMAIN g.blocks \ {a}
        BY <1>12, <1>13, <2>5, <3>3
      <4>2. SameBlock(s, g, c)
        BY <1>12, <4>1
      <4> QED
        BY <3>1, <4>2, Zenon DEF SameBlock
    <3> QED
      BY <3>2, <3>3
  <2> QED
    BY <1>10, <2>1, <2>4, <2>5, Zenon
<1>17. Lists(s.free, T)
  BY <1>11, <1>12, Zenon
<1>18. Carved(s, h, S, T, a, n)
  BY <1>10, <1>12, <1>13, <1>14, <1>15, <1>16, <1>17, Zenon DEF Carved
<1> QED
  BY <1>6, <1>18, Zenon

(* The free list after a request: block a is granted, with n words.        *)
Granting(g, h, S, T, a, n) ==
    /\ IsHeap(g) /\ Tiled(g) /\ T \subseteq DOMAIN g.blocks /\ Lists(g.free, T)
    /\ a \in DOMAIN g.blocks /\ a \notin T /\ DOMAIN g.blocks \ T = (DOMAIN h.blocks \ S) \cup {a}
    /\ \A c \in DOMAIN h.blocks \ S : SameBlock(g, h, c)
    /\ g.blocks[a].size >= n /\ g.blocks[a].used
    /\ Tidy(h, S) => Tidy(g, T)

(* request() does that, whether it splits the block or hands it out whole. *)
LEMMA RequestHeap ==
    ASSUME NEW h, IsHeap(h), Tiled(h), NEW S, S \subseteq DOMAIN h.blocks, Lists(h.free, S), NEW a \in S,
           NEW n \in Nat, n >= FreeNode, h.blocks[a].size >= n
    PROVE  \E T : Granting(Request(h, a, n), h, S, T, a, n)
<1>1. PICK s : s = IF h.blocks[a].size - n >= FreeNode THEN Split(h, a, n) ELSE h
  OBVIOUS
<1>2. \E T : Carved(s, h, S, T, a, n)
  <2>1. CASE h.blocks[a].size - n >= FreeNode
    <3>1. s = Split(h, a, n)
      BY <1>1, <2>1
    <3> QED
      BY <2>1, <3>1, SplitHeap, Zenon
  <2>2. CASE ~(h.blocks[a].size - n >= FreeNode)
    <3>1. s = h
      BY <1>1, <2>2
    <3>2. Tidy(h, S) => Apart(h, S \ {a})
      BY DEF Tidy, Apart
    <3>3. \A c \in DOMAIN h.blocks \ S : SameBlock(h, h, c)
      BY Zenon DEF SameBlock
    <3>4. Carved(h, h, S, S, a, n)
      BY <3>2, <3>3, Zenon DEF Carved, Tidy
    <3> QED
      BY <3>1, <3>4, Zenon
  <2> QED
    BY <2>1, <2>2
<1>3. PICK T : Carved(s, h, S, T, a, n)
  BY <1>2
<1>4. /\ IsHeap(s) /\ Tiled(s) /\ T \subseteq DOMAIN s.blocks /\ a \in T /\ Lists(s.free, T)
      /\ DOMAIN s.blocks \ T = DOMAIN h.blocks \ S
      /\ \A c \in DOMAIN h.blocks \ S : SameBlock(s, h, c)
      /\ s.blocks[a].size >= n
  BY <1>3, Zenon DEF Carved
<1>5. PICK g : g = UnlinkFromFreelist(s, a)
  OBVIOUS
<1>6. Request(h, a, n) = g
  BY <1>1, <1>5, Zenon DEF Request
<1>7. a \in DOMAIN s.blocks
  BY <1>4
<1>8. Marked(g, s, a) /\ Asserts(g, s, a) /\ g.free = RemoveAt(s.free, PositionOf(s.free, a))
  BY <1>4, <1>5, <1>7, UnlinkHeap, Zenon
<1>9. PICK j : j = PositionOf(s.free, a)
  OBVIOUS
<1>10. j \in 1..Len(s.free) /\ s.free[j] = a
  BY <1>4, <1>9, PositionInList
<1>11. Lists(g.free, T \ {a})
  BY <1>4, <1>8, <1>9, <1>10, RemoveList
<1>12. /\ IsHeap(g) /\ DOMAIN g.blocks = DOMAIN s.blocks
       /\ \A c \in DOMAIN s.blocks : g.blocks[c].size = s.blocks[c].size
  BY <1>8 DEF Marked
<1>13. Tiled(g)
  BY <1>4, <1>12, TilesAlike
<1>14. /\ T \ {a} \subseteq DOMAIN g.blocks /\ a \in DOMAIN g.blocks /\ a \notin T \ {a}
       /\ DOMAIN g.blocks \ (T \ {a}) = (DOMAIN h.blocks \ S) \cup {a}
  BY <1>4, <1>12
<1>15. ASSUME NEW c \in DOMAIN h.blocks \ S PROVE SameBlock(g, h, c)
  <2>1. c \in DOMAIN s.blocks /\ c # a /\ SameBlock(s, h, c)
    BY <1>4, <1>15
  <2>2. SameBlock(g, s, c)
    BY <1>8, <1>12, <2>1, Zenon DEF Marked, SameBlock
  <2> QED
    BY <2>1, <2>2 DEF SameBlock
<1>16. g.blocks[a].size >= n /\ g.blocks[a].used
  <2>1. g.blocks[a].size >= n
    BY <1>4, <1>12
  <2>2. g.blocks[a].used
    BY <1>8, Zenon DEF Marked
  <2> QED
    BY <2>1, <2>2, Zenon
<1>17. ASSUME Tidy(h, S) PROVE Tidy(g, T \ {a})
  <2>1. ~s.failed /\ (\A c \in T : ~s.blocks[c].used) /\ Ordered(s.free) /\ Apart(s, T \ {a})
    BY <1>3, <1>17, Zenon DEF Carved
  <2>2. ~g.failed
    <3>1. ~s.blocks[a].used
      BY <1>4, <2>1, Zenon
    <3> QED
      BY <1>8, <2>1, <3>1, Zenon DEF Asserts
  <2>3. \A c \in T \ {a} : ~g.blocks[c].used
    <3> SUFFICES ASSUME NEW c \in T, c # a PROVE ~g.blocks[c].used
      OBVIOUS
    <3>1. c \in DOMAIN s.blocks
      BY <1>4
    <3>2. g.blocks[c].used = s.blocks[c].used
      BY <1>8, <3>1, Zenon DEF Marked
    <3> QED
      BY <2>1, <3>2, Zenon
  <2>4. Ordered(g.free)
    <3>1. T \subseteq Int
      BY <1>4 DEF Tiled
    <3>2. Ordered(RemoveAt(s.free, j))
      BY <1>4, <1>10, <2>1, <3>1, RemoveOrdered
    <3> QED
      BY <1>8, <1>9, <3>2
  <2>5. Apart(g, T \ {a})
    <3>1. \A c \in T : End(g, c) = End(s, c)
      BY <1>4, <1>12 DEF End
    <3> QED
      BY <2>1, <3>1 DEF Apart
  <2> QED
    BY <2>2, <2>3, <2>4, <2>5, Zenon DEF Tidy
<1>18. Granting(g, h, S, T \ {a}, a, n)
  BY <1>11, <1>12, <1>13, <1>14, <1>15, <1>16, <1>17, Zenon DEF Granting
<1> QED
  BY <1>6, <1>18, Zenon

-----------------------------------------------------------------------------
(* Blocks that callers own hold their padding and a word of data, and with *)
(* the plain interface they are marked used.                               *)
OwnsBlocks(h, p) ==
    /\ Tiled(h) /\ DOMAIN p \subseteq DOMAIN h.blocks
    /\ \A a \in DOMAIN p : p[a] \in Nat /\ Header + p[a] < h.blocks[a].size

Unowned == DOMAIN heap.blocks \ live

HeapFlags == aligned \in BOOLEAN /\ drained \in BOOLEAN /\ misled \in BOOLEAN

HeapInv ==
    /\ HeapFlags /\ IsHeap(heap) /\ OwnsBlocks(heap, padding)
    /\ ~aligned => ~misled /\ \A a \in live : heap.blocks[a].used
    /\ ~misled => Lists(heap.free, Unowned)
    /\ ~aligned /\ ~drained => Tidy(heap, Unowned) /\ Unowned # {}

(* The inductive invariant holds of the heap as it is constructed. *)
LEMMA HeapInitInv == Init => HeapInv
<1> SUFFICES ASSUME Init PROVE HeapInv
  OBVIOUS
<1>1. /\ heap = [blocks |-> [a \in {0} |-> [size |-> Words, used |-> FALSE]],
                 free |-> <<0>>, failed |-> FALSE]
      /\ padding = [a \in {} |-> 0] /\ drained = FALSE /\ misled = FALSE /\ aligned \in BOOLEAN
  BY HeapAssumption DEF Init
<1>2. PICK B : B = [a \in {0} |-> [size |-> Words, used |-> FALSE]]
  OBVIOUS
<1>3. heap.blocks = B /\ heap.free = <<0>> /\ heap.failed = FALSE
  BY <1>1, <1>2
<1>4. /\ DOMAIN B = {0} /\ B = [a \in DOMAIN B |-> B[a]] /\ B[0] = [size |-> Words, used |-> FALSE]
      /\ B[0].size = Words /\ B[0].used = FALSE
  BY <1>2
<1>5. IsHeap(heap)
  <2>1. IsBlock(B[0])
    BY <1>4 DEF IsBlock
  <2>2. IsBlocks(B)
    BY <1>4, <2>1 DEF IsBlocks
  <2>3. heap = [blocks |-> heap.blocks, free |-> heap.free, failed |-> heap.failed]
    BY <1>1
  <2> QED
    BY <1>3, <2>2, <2>3 DEF IsHeap
<1>6. Tiled(heap)
  BY <1>3, <1>4, HeapAssumption DEF Tiled, FreeNode
<1>7. live = {} /\ DOMAIN padding = {} /\ Unowned = {0}
  <2>1. DOMAIN padding = {}
    BY <1>1
  <2> QED
    BY <1>3, <1>4, <2>1 DEF live, Unowned
<1>8. OwnsBlocks(heap, padding)
  BY <1>6, <1>7 DEF OwnsBlocks
<1>9. Lists(heap.free, {0})
  BY <1>3 DEF Lists
<1>10. Tidy(heap, {0})
  <2>1. Ordered(heap.free)
    BY <1>3 DEF Ordered
  <2>2. Apart(heap, {0})
    BY <1>3, <1>4, HeapAssumption DEF Apart, End, FreeNode
  <2>3. ~heap.failed /\ \A c \in {0} : ~heap.blocks[c].used
    BY <1>3, <1>4
  <2> QED
    BY <2>1, <2>2, <2>3, Zenon DEF Tidy
<1>11. {0} # {} /\ \A a \in {} : heap.blocks[a].used
  OBVIOUS
<1>12. HeapFlags
  BY <1>1 DEF HeapFlags
<1> QED
  BY <1>1, <1>5, <1>7, <1>8, <1>9, <1>10, <1>11, <1>12, Zenon DEF HeapInv

-----------------------------------------------------------------------------
(* Writing the padding changes at most the mark of the block granted.      *)
Stores(k, g, a, alignment) ==
    /\ IsHeap(k) /\ DOMAIN k.blocks = DOMAIN g.blocks /\ k.free = g.free
    /\ \A c \in DOMAIN g.blocks :
          k.blocks[c].size = g.blocks[c].size /\ (c # a => k.blocks[c].used = g.blocks[c].used)
    /\ alignment = 0 => k = g

(* That is what StorePadding() does, with either interface. *)
LEMMA StoreHeap ==
    ASSUME NEW g, IsHeap(g), NEW a \in DOMAIN g.blocks, NEW alignment
    PROVE  Stores(StorePadding(g, a, alignment), g, a, alignment)
<1>1. PICK k : k = StorePadding(g, a, alignment)
  OBVIOUS
<1>2. CASE alignment # 0 /\ Padding(a, alignment) = 0
  <2>1. k = Link(g, g.free, a)
    <3>1. k = [g EXCEPT !.blocks[a].used = FALSE]
      BY <1>1, <1>2 DEF StorePadding
    <3>2. Link(g, g.free, a) = [g EXCEPT !.free = g.free, !.blocks[a].used = FALSE]
      BY DEF Link
    <3>3. [g EXCEPT !.free = g.free] = g
      BY DEF IsHeap
    <3> QED
      BY <3>1, <3>2, <3>3
  <2>2. Linked(k, g, a) /\ k.free = g.free
    BY <2>1, LinkHeap, Zenon
  <2> QED
    BY <1>1, <1>2, <2>2, Zenon DEF Linked, Stores
<1>3. CASE ~(alignment # 0 /\ Padding(a, alignment) = 0)
  <2>1. k = g
    BY <1>1, <1>3 DEF StorePadding
  <2> QED
    BY <1>1, <2>1, Zenon DEF Stores
<1> QED
  BY <1>2, <1>3

(* The padding is smaller than the alignment. *)
LEMMA PaddingBound ==
    ASSUME NEW a \in Nat, NEW alignment \in Alignments
    PROVE  Padding(a, alignment) \in 0..(alignment - 1)
<1>1. alignment \in Nat /\ alignment > 0
  BY HeapAssumption
<1> QED
  BY <1>1 DEF Padding, Header

(* A grant, in terms of the blocks owned: a was free and is granted with   *)
(* its padding and the words wanted; what others own is as it was.         *)
Grants(a, want) ==
    /\ a \in Unowned /\ DOMAIN padding' = live \cup {a}
    /\ \A c \in live : padding'[c] = padding[c] /\ SameBlock(heap', heap, c)
    /\ padding'[a] \in Nat /\ Header + padding'[a] + want <= heap'.blocks[a].size
    /\ IsHeap(heap') /\ Tiled(heap') /\ DOMAIN padding' \subseteq DOMAIN heap'.blocks
    /\ Lists(heap'.free, DOMAIN heap'.blocks \ DOMAIN padding')
    /\ ~aligned => heap'.blocks[a].used
    /\ ~aligned /\ ~drained' =>
           Tidy(heap', DOMAIN heap'.blocks \ DOMAIN padding') /\ DOMAIN heap'.blocks \ DOMAIN padding' # {}
    /\ drained' \in BOOLEAN /\ (drained => drained')
    /\ aligned' = aligned /\ misled' = misled
    /\ allocated' = allocated + heap'.blocks[a].size

(* Both forms of allocate() grant a block in this sense. *)
LEMMA GrantGrants ==
    ASSUME HeapInv, ~misled, NEW want \in Requests, NEW alignment \in Alignments \cup {0},
           alignment # 0 => aligned, Grant(BlockSize(want + alignment), alignment)
    PROVE  \E a : Grants(a, want)
<1>0. /\ want \in Nat /\ alignment \in Nat /\ Header = 3 /\ FreeNode = 5
      /\ BlockSize(want + alignment) = want + alignment + 4
      /\ BlockSize(want + alignment) >= FreeNode /\ BlockSize(want + alignment) \in Nat
  BY HeapAssumption DEF BlockSize, Header, FreeNode
<1>1. PICK n : n = BlockSize(want + alignment)
  OBVIOUS
<1>2. PICK a : a = heap.free[Min(Fitting(heap, n))]
  OBVIOUS
<1>3. /\ Fitting(heap, n) # {}
      /\ heap' = StorePadding(Request(heap, a, n), a, alignment)
      /\ padding' = [b \in live \cup {a} |-> IF b = a THEN Padding(a, alignment) ELSE padding[b]]
      /\ aligned' = aligned /\ misled' = misled /\ allocated' = allocated + heap'.blocks[a].size
  BY <1>1, <1>2 DEF Grant
<1>4. drained' = (drained \/ heap'.free = <<>>)
  BY DEF Grant
<1>5. /\ IsHeap(heap) /\ OwnsBlocks(heap, padding) /\ Lists(heap.free, Unowned) /\ HeapFlags
      /\ ~aligned /\ ~drained => Tidy(heap, Unowned)
  BY Zenon DEF HeapInv
<1>6. Tiled(heap) /\ live \subseteq DOMAIN heap.blocks
  BY <1>5 DEF OwnsBlocks, live
<1>7. Unowned \subseteq DOMAIN heap.blocks /\ DOMAIN heap.blocks \ Unowned = live
  BY <1>6 DEF Unowned
<1>8. a \in Unowned /\ heap.blocks[a].size >= n
  <2>1. DOMAIN heap.free = 1..Len(heap.free) /\ Len(heap.free) \in Nat /\ \A i \in 1..Len(heap.free) : heap.free[i] \in Unowned
    BY <1>5, ListFacts
  <2>2. Fitting(heap, n) \in SUBSET Nat
    BY <2>1 DEF Fitting
  <2>3. Min(Fitting(heap, n)) \in Fitting(heap, n)
    BY <1>3, <2>2, MinNumber
  <2> QED
    BY <1>2, <2>1, <2>3 DEF Fitting
<1>9. PICK g : g = Request(heap, a, n)
  OBVIOUS
<1>10. PICK T : Granting(g, heap, Unowned, T, a, n)
  <2>1. n \in Nat /\ n >= FreeNode
    BY <1>0, <1>1
  <2> QED
    BY <1>5, <1>6, <1>7, <1>8, <1>9, <2>1, RequestHeap, Zenon
<1>11. /\ IsHeap(g) /\ Tiled(g) /\ T \subseteq DOMAIN g.blocks /\ Lists(g.free, T)
       /\ a \in DOMAIN g.blocks /\ a \notin T /\ DOMAIN g.blocks \ T = live \cup {a}
       /\ \A c \in live : SameBlock(g, heap, c)
       /\ g.blocks[a].size >= n /\ g.blocks[a].used
       /\ Tidy(heap, Unowned) => Tidy(g, T)
  BY <1>7, <1>10, Zenon DEF Granting
<1>12. Stores(heap', g, a, alignment)
  BY <1>3, <1>9, <1>11, StoreHeap, Zenon
<1>13. /\ IsHeap(heap') /\ DOMAIN heap'.blocks = DOMAIN g.blocks /\ heap'.free = g.free
       /\ \A c \in DOMAIN g.blocks :
             heap'.blocks[c].size = g.blocks[c].size /\ (c # a => heap'.blocks[c].used = g.blocks[c].used)
       /\ alignment = 0 => heap' = g
  BY <1>12, Zenon DEF Stores
<1>14. DOMAIN padding' = live \cup {a} /\ \A c \in live : padding'[c] = padding[c]
  BY <1>3, <1>8 DEF Unowned
<1>15. DOMAIN padding' \subseteq DOMAIN heap'.blocks /\ DOMAIN heap'.blocks \ DOMAIN padding' = T
  BY <1>11, <1>13, <1>14
<1>16. Tiled(heap')
  BY <1>11, <1>13, TilesAlike
<1>17. padding'[a] \in Nat /\ Header + padding'[a] + want <= heap'.blocks[a].size
  <2>1. padding'[a] = Padding(a, alignment)
    BY <1>3
  <2>2. a \in Nat
    BY <1>6, <1>7, <1>8 DEF Tiled
  <2>3. heap'.blocks[a].size >= want + alignment + 4 /\ heap'.blocks[a].size \in Nat
    <3>1. heap'.blocks[a].size = g.blocks[a].size
      BY <1>11, <1>13
    <3>2. g.blocks[a].size \in Nat
      BY <1>11 DEF Tiled
    <3> QED
      BY <1>0, <1>1, <1>11, <3>1, <3>2
  <2>4. CASE alignment = 0
    <3>1. Padding(a, alignment) = 0
      BY <2>4 DEF Padding
    <3> QED
      BY <1>0, <2>1, <2>3, <2>4, <3>1
  <2>5. CASE alignment # 0
    <3>1. Padding(a, alignment) \in 0..(alignment - 1)
      BY <2>2, <2>5, PaddingBound
    <3> QED
      BY <1>0, <2>1, <2>3, <3>1
  <2> QED
    BY <2>4, <2>5
<1>18. ASSUME NEW c \in live PROVE SameBlock(heap', heap, c)
  <2>1. c \in DOMAIN g.blocks /\ c # a /\ SameBlock(g, heap, c)
    BY <1>8, <1>11, <1>18 DEF Unowned
  <2>2. SameBlock(heap', g, c)
    BY <1>13, <2>1, Zenon DEF SameBlock
  <2> QED
    BY <2>1, <2>2 DEF SameBlock
<1>19. ~aligned => heap' = g
  BY <1>13, Zenon
<1>20. ~aligned => heap'.blocks[a].used
  BY <1>11, <1>19, Zenon
<1>21. ASSUME ~aligned, ~drained' PROVE Tidy(heap', T) /\ T # {}
  <2>1. ~drained /\ heap'.free # <<>>
    BY <1>4, <1>21, Zenon
  <2>2. Tidy(heap', T)
    BY <1>5, <1>11, <1>19, <1>21, <2>1, Zenon
  <2>3. T # {}
    <3>1. Len(g.free) \in Nat /\ g.free \in Seq(T) /\ \A i \in 1..Len(g.free) : g.free[i] \in T
      BY <1>11, ListFacts
    <3>2. g.free # <<>>
      BY <1>13, <2>1
    <3>3. Len(g.free) > 0
      BY <3>1, <3>2
    <3> QED
      BY <3>1, <3>3
  <2> QED
    BY <2>2, <2>3
<1>22. drained' \in BOOLEAN /\ (drained => drained')
  BY <1>4, <1>5 DEF HeapFlags
<1>23. Lists(heap'.free, T)
  BY <1>11, <1>13, Zenon
<1> QED
  BY <1>3, <1>8, <1>13, <1>14, <1>15, <1>16, <1>17, <1>18, <1>20, <1>21, <1>22, <1>23, Zenon DEF Grants

-----------------------------------------------------------------------------
(* A block given back, in terms of the blocks owned: what the others own   *)
(* is as it was; unless release() was misled the list is exact again.      *)
Returns(a) ==
    /\ a \in live /\ DOMAIN padding' = live \ {a}
    /\ \A c \in live \ {a} : padding'[c] = padding[c] /\ SameBlock(heap', heap, c)
    /\ IsHeap(heap') /\ Tiled(heap') /\ DOMAIN padding' \subseteq DOMAIN heap'.blocks
    /\ ~aligned => ~misled'
    /\ ~misled' => Lists(heap'.free, DOMAIN heap'.blocks \ DOMAIN padding')
    /\ ~aligned /\ ~drained' =>
           Tidy(heap', DOMAIN heap'.blocks \ DOMAIN padding') /\ DOMAIN heap'.blocks \ DOMAIN padding' # {}
    /\ drained' = drained /\ aligned' = aligned /\ misled' \in BOOLEAN
    /\ allocated' = allocated - heap.blocks[a].size

(* deallocate() returns a block in this sense, whatever was freed before. *)
LEMMA DeallocateReturns ==
    ASSUME HeapInv, ~misled, NEW a \in Addresses, Deallocate(a)
    PROVE  Returns(a)
<1>1. /\ IsHeap(heap) /\ OwnsBlocks(heap, padding) /\ Lists(heap.free, Unowned) /\ HeapFlags
      /\ ~aligned => \A c \in live : heap.blocks[c].used
      /\ ~aligned /\ ~drained => Tidy(heap, Unowned) /\ Unowned # {}
  BY Zenon DEF HeapInv
<1>2. Tiled(heap) /\ live \subseteq DOMAIN heap.blocks
  BY <1>1 DEF OwnsBlocks, live
<1>3. Unowned \subseteq DOMAIN heap.blocks /\ DOMAIN heap.blocks \ Unowned = live
  BY <1>2 DEF Unowned
<1>4. /\ a \in live /\ padding' = [b \in live \ {a} |-> padding[b]]
      /\ drained' = drained /\ aligned' = aligned /\ allocated' = allocated - heap.blocks[a].size
  BY DEF Deallocate
<1>5. DOMAIN padding' = live \ {a} /\ \A c \in live \ {a} : padding'[c] = padding[c]
  BY <1>4
<1>6. PICK B : B = FreeBefore(heap, a)
  OBVIOUS
<1>7. IF B # {} /\ Max(B) \in live THEN misled' = TRUE /\ heap' = heap
      ELSE heap' = Release(heap, a) /\ misled' = misled
  BY <1>6 DEF Deallocate
<1>8. B # {} => Max(B) \in DOMAIN heap.blocks /\ ~heap.blocks[Max(B)].used
  <2>1. B \in SUBSET (0..(Words - 1)) /\ Words - 1 \in Nat
    BY <1>2, <1>6, HeapAssumption DEF FreeBefore, Tiled, FreeNode
  <2>2. B # {} => Max(B) \in B
    BY <2>1, MaxNumber
  <2> QED
    BY <1>6, <2>2 DEF FreeBefore
<1>9. CASE B # {} /\ Max(B) \in live
  <2>1. misled' = TRUE /\ heap' = heap
    BY <1>7, <1>9
  <2>2. aligned
    BY <1>1, <1>8, <1>9
  <2>3. \A c \in live \ {a} : SameBlock(heap', heap, c)
    BY <2>1 DEF SameBlock
  <2>4. IsHeap(heap') /\ Tiled(heap') /\ DOMAIN padding' \subseteq DOMAIN heap'.blocks
    BY <1>1, <1>2, <1>5, <2>1
  <2> QED
    BY <1>4, <1>5, <2>1, <2>2, <2>3, <2>4, Zenon DEF Returns
<1>10. CASE ~(B # {} /\ Max(B) \in live)
  <2>1. heap' = Release(heap, a) /\ misled' = misled
    BY <1>7, <1>10, Zenon
  <2>2. FreeBefore(heap, a) # {} => Max(FreeBefore(heap, a)) \in Unowned
    BY <1>3, <1>6, <1>8, <1>10
  <2>3. a \in DOMAIN heap.blocks \ Unowned
    BY <1>3, <1>4
  <2>4. PICK T : /\ Freed(heap', heap, Unowned, T, a)
                 /\ Tidy(heap, Unowned) /\ Unowned # {}
                    /\ (\A c \in DOMAIN heap.blocks \ Unowned : heap.blocks[c].used) =>
                         Tidy(heap', T)
    BY <1>1, <1>2, <1>3, <2>1, <2>2, <2>3, ReleaseHeap, Zenon
  <2>5. /\ IsHeap(heap') /\ Tiled(heap') /\ T \subseteq DOMAIN heap'.blocks /\ T # {} /\ Lists(heap'.free, T)
        /\ DOMAIN heap'.blocks \ T = live \ {a}
        /\ \A c \in live \ {a} : SameBlock(heap', heap, c)
    BY <1>3, <2>4, Zenon DEF Freed
  <2>6. DOMAIN padding' \subseteq DOMAIN heap'.blocks /\ DOMAIN heap'.blocks \ DOMAIN padding' = T
    BY <1>5, <2>5
  <2>7. ~aligned /\ ~drained' => Tidy(heap', T)
    BY <1>1, <1>3, <1>4, <2>4, Zenon
  <2>8. misled' \in BOOLEAN /\ ~misled'
    BY <2>1, <1>1 DEF HeapFlags
  <2> QED
    BY <1>4, <1>5, <2>5, <2>6, <2>7, <2>8, Zenon DEF Returns
<1> QED
  BY <1>9, <1>10

-----------------------------------------------------------------------------
(* A block that stays as it was still holds its padding and data. *)
LEMMA OwnerSame ==
    ASSUME HeapInv, NEW c \in live, padding'[c] = padding[c], SameBlock(heap', heap, c)
    PROVE  /\ padding'[c] \in Nat /\ Header + padding'[c] < heap'.blocks[c].size
           /\ heap.blocks[c].used => heap'.blocks[c].used
<1>1. OwnsBlocks(heap, padding)
  BY Zenon DEF HeapInv
<1> QED
  BY <1>1 DEF OwnsBlocks, SameBlock, live

(* A grant preserves the inductive invariant. *)
LEMMA GrantsInv == ASSUME HeapInv, ~misled, NEW want \in Requests, NEW a, Grants(a, want) PROVE HeapInv'
<1>1. /\ a \in Unowned /\ DOMAIN padding' = live \cup {a}
      /\ \A c \in live : padding'[c] = padding[c] /\ SameBlock(heap', heap, c)
      /\ padding'[a] \in Nat /\ Header + padding'[a] + want <= heap'.blocks[a].size
      /\ IsHeap(heap') /\ Tiled(heap') /\ DOMAIN padding' \subseteq DOMAIN heap'.blocks
      /\ Lists(heap'.free, DOMAIN heap'.blocks \ DOMAIN padding')
      /\ ~aligned => heap'.blocks[a].used
      /\ drained' \in BOOLEAN /\ (drained => drained')
      /\ aligned' = aligned /\ misled' = misled
  BY Zenon DEF Grants
<1>2. ~aligned /\ ~drained' =>
           Tidy(heap', DOMAIN heap'.blocks \ DOMAIN padding') /\ DOMAIN heap'.blocks \ DOMAIN padding' # {}
  BY Zenon DEF Grants
<1>3. HeapFlags /\ (~aligned => \A c \in live : heap.blocks[c].used)
  BY Zenon DEF HeapInv
<1>4. live' = DOMAIN padding' /\ Unowned' = DOMAIN heap'.blocks \ DOMAIN padding'
  BY DEF live, Unowned
<1>5. ASSUME NEW c \in live \cup {a}
      PROVE  padding'[c] \in Nat /\ Header + padding'[c] < heap'.blocks[c].size
  <2>1. CASE c = a
    <3>1. heap'.blocks[a].size \in Nat /\ want \in Nat /\ want > 0
      BY <1>1, HeapAssumption DEF Tiled
    <3> QED
      BY <1>1, <2>1, <3>1 DEF Header
  <2>2. CASE c # a
    BY <1>1, <1>5, <2>2, OwnerSame
  <2> QED
    BY <2>1, <2>2
<1>6. OwnsBlocks(heap', padding')
  BY <1>1, <1>5 DEF OwnsBlocks
<1>7. ~aligned => \A c \in live \cup {a} : heap'.blocks[c].used
  BY <1>1, <1>3, OwnerSame
<1>8. HeapFlags' /\ (~aligned' => ~misled')
  BY <1>1, <1>3 DEF HeapFlags
<1>9. /\ IsHeap(heap)' /\ OwnsBlocks(heap, padding)'
      /\ ~aligned' => \A c \in live' : heap'.blocks[c].used
      /\ ~misled' => Lists(heap'.free, Unowned')
      /\ ~aligned' /\ ~drained' => Tidy(heap', Unowned') /\ Unowned' # {}
  BY <1>1, <1>2, <1>4, <1>6, <1>7
<1> QED
  BY <1>8, <1>9 DEF HeapInv

(* So does a return. *)
LEMMA ReturnsInv == ASSUME HeapInv, ~misled, NEW a, Returns(a) PROVE HeapInv'
<1>1. /\ a \in live /\ DOMAIN padding' = live \ {a}
      /\ \A c \in live \ {a} : padding'[c] = padding[c] /\ SameBlock(heap', heap, c)
      /\ IsHeap(heap') /\ Tiled(heap') /\ DOMAIN padding' \subseteq DOMAIN heap'.blocks
      /\ ~aligned => ~misled'
      /\ ~misled' => Lists(heap'.free, DOMAIN heap'.blocks \ DOMAIN padding')
      /\ drained' = drained /\ aligned' = aligned /\ misled' \in BOOLEAN
  BY Zenon DEF Returns
<1>2. ~aligned /\ ~drained' =>
           Tidy(heap', DOMAIN heap'.blocks \ DOMAIN padding') /\ DOMAIN heap'.blocks \ DOMAIN padding' # {}
  BY Zenon DEF Returns
<1>3. HeapFlags /\ (~aligned => \A c \in live : heap.blocks[c].used)
  BY Zenon DEF HeapInv
<1>4. live' = DOMAIN padding' /\ Unowned' = DOMAIN heap'.blocks \ DOMAIN padding'
  BY DEF live, Unowned
<1>5. \A c \in live \ {a} :
          /\ padding'[c] \in Nat /\ Header + padding'[c] < heap'.blocks[c].size
          /\ heap.blocks[c].used => heap'.blocks[c].used
  BY <1>1, OwnerSame
<1>6. OwnsBlocks(heap', padding')
  BY <1>1, <1>5 DEF OwnsBlocks
<1>7. ~aligned => \A c \in live \ {a} : heap'.blocks[c].used
  BY <1>3, <1>5
<1>8. HeapFlags' /\ (~aligned' => ~misled')
  BY <1>1, <1>3 DEF HeapFlags
<1>9. /\ IsHeap(heap)' /\ OwnsBlocks(heap, padding)'
      /\ ~aligned' => \A c \in live' : heap'.blocks[c].used
      /\ ~misled' => Lists(heap'.free, Unowned')
      /\ ~aligned' /\ ~drained' => Tidy(heap', Unowned') /\ Unowned' # {}
  BY <1>1, <1>2, <1>4, <1>6, <1>7
<1> QED
  BY <1>8, <1>9 DEF HeapInv

(* Every step grants a block, takes one back, or stutters.                 *)
LEMMA StepKinds ==
    ASSUME HeapInv, Next
    PROVE  ~misled /\ ((\E want \in Requests : \E a : Grants(a, want)) \/ \E a \in Addresses : Returns(a))
<1>1. ~misled
  BY DEF Next
<1>2. \/ \E n \in Requests : ~aligned /\ Allocate(n)
      \/ \E n \in Requests : aligned /\ \E al \in Alignments : AllocateAligned(n, al)
      \/ \E a \in Addresses : Deallocate(a)
  BY DEF Next
<1>3. ASSUME NEW n \in Requests, ~aligned, Allocate(n) PROVE \E a : Grants(a, n)
  <2>1. n + 0 = n /\ n \in Nat
    BY HeapAssumption
  <2>2. Grant(BlockSize(n + 0), 0)
    BY <1>3, <2>1 DEF Allocate
  <2>3. 0 \in Alignments \cup {0} /\ (0 # 0 => aligned)
    OBVIOUS
  <2> QED
    BY <1>1, <2>2, <2>3, GrantGrants, Zenon
<1>4. ASSUME NEW n \in Requests, aligned, NEW al \in Alignments, AllocateAligned(n, al) PROVE \E a : Grants(a, n)
  <2>1. Grant(BlockSize(n + al), al) /\ al \in Alignments \cup {0} /\ (al # 0 => aligned)
    BY <1>4 DEF AllocateAligned
  <2> QED
    BY <1>1, <2>1, GrantGrants, Zenon
<1>5. ASSUME NEW a \in Addresses, Deallocate(a) PROVE Returns(a)
  BY <1>1, <1>5, DeallocateReturns
<1> QED
  BY <1>1, <1>2, <1>3, <1>4, <1>5

(* Every step preserves the inductive invariant. *)
LEMMA HeapStep == HeapInv /\ [Next]_vars => HeapInv'
<1> SUFFICES ASSUME HeapInv, [Next]_vars PROVE HeapInv'
  OBVIOUS
<1>1. CASE Next
  BY <1>1, StepKinds, GrantsInv, ReturnsInv
<1>2. CASE UNCHANGED vars
  <2>1. heap' = heap /\ padding' = padding /\ aligned' = aligned /\ drained' = drained /\ misled' = misled
    BY <1>2 DEF vars
  <2> QED
    BY <2>1 DEF HeapInv, HeapFlags, OwnsBlocks, Unowned, live
<1> QED
  BY <1>1, <1>2

(* The inductive invariant holds in every state of the allocator. *)
THEOREM HeapInvariant == Spec => []HeapInv
<1>1. Init => HeapInv
  BY HeapInitInv
<1>2. HeapInv /\ [Next]_vars => HeapInv'
  BY HeapStep
<1> QED
  BY <1>1, <1>2, PTL DEF Spec

(* Also that they tile the memory.                                         *)
LEMMA HeapTiles == HeapInv => MemoryTiled
<1> SUFFICES ASSUME HeapInv PROVE MemoryTiled
  OBVIOUS
<1>1. Tiled(heap)
  BY Zenon DEF HeapInv, OwnsBlocks
<1> QED
  BY <1>1 DEF Tiled, MemoryTiled, End

(* The blocks cover the memory without a hole or an overlap, also after    *)
(* the list ran empty.                                                     *)
THEOREM BlocksTileMemory == Spec => []MemoryTiled
BY HeapInvariant, HeapTiles, PTL

(* What holds of a subset of a finite set whenever it holds of all smaller *)
(* ones holds of the set (P is the set of subsets it holds of).            *)
LEMMA SubsetInduction ==
    ASSUME NEW S, IsFiniteSet(S), NEW P,
           \A s \in SUBSET S : (\A u \in SUBSET s : u # s => u \in P) => s \in P
    PROVE  S \in P
<1> SUFFICES ASSUME S \notin P PROVE FALSE
  OBVIOUS
<1> DEFINE N == {Cardinality(s) : s \in (SUBSET S) \ P}
<1>1. \A s \in SUBSET S : IsFiniteSet(s) /\ Cardinality(s) \in Nat
  BY FS_Subset, FS_CardinalityType
<1>2. N \in SUBSET Nat /\ N # {}
  <2>1. S \in (SUBSET S) \ P
    OBVIOUS
  <2> QED
    BY <1>1, <2>1
<1>3. PICK n \in N : \A m \in N : n <= m
  <2> HIDE DEF N
  <2> QED
    BY <1>2, LeastNumber
<1>4. PICK s \in (SUBSET S) \ P : n = Cardinality(s)
  BY <1>3
<1>5. PICK u \in SUBSET s : u # s /\ u \notin P
  BY <1>4
<1>6. u \in (SUBSET S) \ P
  BY <1>4, <1>5
<1>7. Cardinality(s) <= Cardinality(u)
  BY <1>3, <1>4, <1>6
<1>8. Cardinality(u) <= Cardinality(s) /\ (Cardinality(s) = Cardinality(u) => s = u)
  BY <1>1, <1>4, <1>5, FS_Subset
<1> QED
  BY <1>1, <1>4, <1>5, <1>6, <1>7, <1>8

First(s) == CHOOSE x \in s : TRUE
RestOf(s)  == s \ {First(s)}

(* f sums the sizes of the blocks in any subset of S, one by one. *)
Sums(f, h, S) ==
    f = [s \in SUBSET S |-> IF s = {} THEN 0 ELSE h.blocks[First(s)].size + f[RestOf(s)]]

SumOf(h, S) == CHOOSE f : Sums(f, h, S)

(* The words of the blocks of S. *)
Total(h, S) == SumOf(h, S)[S]

(* It is how BlocksTile sums. *)
LEMMA TotalSums == MapThenSumSet(LAMBDA a : heap.blocks[a].size, live) = Total(heap, live)
BY Zenon DEF MapThenSumSet, MapThenFoldSet, Total, SumOf, Sums, First, RestOf

(* The first element and the rest of a set make it up. *)
LEMMA FirstRest ==
    ASSUME NEW s, s # {}
    PROVE  First(s) \in s /\ RestOf(s) \in SUBSET s /\ RestOf(s) # s
BY DEF First, RestOf

(* The sums of a set and of a subset agree on it, if the sizes do. *)
LEMMA SumsAgree ==
    ASSUME NEW S, NEW R \in SUBSET S, IsFiniteSet(R),
           NEW g, NEW h, \A a \in R : g.blocks[a].size = h.blocks[a].size,
           NEW f, Sums(f, g, S), NEW e, Sums(e, h, R)
    PROVE  f[R] = e[R]
<1> DEFINE P == {u \in SUBSET R : f[u] = e[u]}
<1>1. ASSUME NEW u \in SUBSET R, \A v \in SUBSET u : v # u => v \in P
      PROVE  u \in P
  <2>1. /\ f[u] = IF u = {} THEN 0 ELSE g.blocks[First(u)].size + f[RestOf(u)]
        /\ e[u] = IF u = {} THEN 0 ELSE h.blocks[First(u)].size + e[RestOf(u)]
    <3>1. u \in SUBSET S /\ u \in SUBSET R
      OBVIOUS
    <3> QED
      BY <3>1, Zenon DEF Sums
  <2>2. CASE u = {}
    BY <2>1, <2>2
  <2>3. CASE u # {}
    <3>1. First(u) \in u /\ RestOf(u) \in P
      BY <1>1, <2>3, FirstRest
    <3>2. f[RestOf(u)] = e[RestOf(u)] /\ g.blocks[First(u)].size = h.blocks[First(u)].size
      BY <3>1
    <3>3. f[u] = e[u]
      BY <2>1, <2>3, <3>2
    <3> QED
      BY <3>3
  <2> QED
    BY <2>2, <2>3
<1>2. R \in P
  <2> HIDE DEF P
  <2> QED
    BY <1>1, SubsetInduction
<1> QED
  BY <1>2

(* Every finite set has such a sum. *)
LEMMA SumsExist ==
    ASSUME NEW S, IsFiniteSet(S), NEW h PROVE \E f : Sums(f, h, S)
<1> DEFINE P == {s \in SUBSET S : \E f : Sums(f, h, s)}
<1>1. ASSUME NEW s \in SUBSET S, \A u \in SUBSET s : u # s => u \in P
      PROVE  s \in P
  <2>0. PICK f : f = [u \in SUBSET s |-> IF u = {} THEN 0 ELSE h.blocks[First(u)].size + SumOf(h, RestOf(u))[RestOf(u)]]
    OBVIOUS
  <2>1. ASSUME NEW u \in SUBSET s, u # s PROVE Sums(SumOf(h, u), h, u)
    <3>1. \E e : Sums(e, h, u)
      BY <1>1, <2>1
    <3> QED
      BY <3>1, Zenon DEF SumOf
  <2>2. \A u \in SUBSET s : u # {} => /\ First(u) \in u /\ RestOf(u) \in SUBSET u
                                      /\ RestOf(u) \in SUBSET s /\ RestOf(u) # s /\ IsFiniteSet(RestOf(u))
    <3> SUFFICES ASSUME NEW u \in SUBSET s, u # {}
                 PROVE  /\ First(u) \in u /\ RestOf(u) \in SUBSET u
                        /\ RestOf(u) \in SUBSET s /\ RestOf(u) # s /\ IsFiniteSet(RestOf(u))
      OBVIOUS
    <3>1. First(u) \in u /\ RestOf(u) \in SUBSET u /\ RestOf(u) # u
      BY FirstRest
    <3>2. RestOf(u) \in SUBSET S
      BY <3>1
    <3> QED
      BY <3>1, <3>2, FS_Subset, Zenon
  <2>3. ASSUME NEW u \in SUBSET s, u # {} PROVE SumOf(h, RestOf(u))[RestOf(u)] = f[RestOf(u)]
    <3>1. PICK v : v = RestOf(u)
      OBVIOUS
    <3>2. v \in SUBSET s /\ v # s /\ IsFiniteSet(v)
      BY <2>2, <2>3, <3>1
    <3>3. Sums(SumOf(h, v), h, v)
      BY <2>1, <3>2
    <3>4. v \in SUBSET v
      OBVIOUS
    <3>5. SumOf(h, v)[v] = IF v = {} THEN 0 ELSE h.blocks[First(v)].size + SumOf(h, v)[RestOf(v)]
      BY <3>3, <3>4, Zenon DEF Sums
    <3>6. f[v] = IF v = {} THEN 0 ELSE h.blocks[First(v)].size + SumOf(h, RestOf(v))[RestOf(v)]
      BY <2>0, <3>2
    <3>7. CASE v = {}
      BY <3>1, <3>5, <3>6, <3>7, Zenon
    <3>8. CASE v # {}
      <4>1. RestOf(v) \in SUBSET v /\ RestOf(v) \in SUBSET s /\ RestOf(v) # s /\ IsFiniteSet(RestOf(v))
        BY <2>2, <3>2, <3>8
      <4>2. Sums(SumOf(h, RestOf(v)), h, RestOf(v)) /\ RestOf(v) \in SUBSET RestOf(v)
        BY <2>1, <4>1
      <4>3. SumOf(h, v)[RestOf(v)] = SumOf(h, RestOf(v))[RestOf(v)]
        BY <3>3, <4>1, <4>2, SumsAgree
      <4> QED
        BY <3>1, <3>5, <3>6, <3>8, <4>3, Zenon
    <3> QED
      BY <3>7, <3>8
  <2>4. Sums(f, h, s)
    <3>1. \A u \in SUBSET s : f[u] = IF u = {} THEN 0 ELSE h.blocks[First(u)].size + f[RestOf(u)]
      <4> SUFFICES ASSUME NEW u \in SUBSET s
                   PROVE  f[u] = IF u = {} THEN 0 ELSE h.blocks[First(u)].size + f[RestOf(u)]
        OBVIOUS
      <4>1. f[u] = IF u = {} THEN 0 ELSE h.blocks[First(u)].size + SumOf(h, RestOf(u))[RestOf(u)]
        BY <2>0
      <4> QED
        BY <2>3, <4>1, Zenon
    <3>2. f = [u \in SUBSET s |-> IF u = {} THEN 0 ELSE h.blocks[First(u)].size + f[RestOf(u)]]
      BY <2>0, <3>1
    <3> QED
      BY <3>2, Zenon DEF Sums
  <2> QED
    BY <2>4
<1>2. S \in P
  <2> HIDE DEF P
  <2> QED
    BY <1>1, SubsetInduction
<1> QED
  BY <1>2

(* The words of the blocks of a set are those of the first and the rest. *)
LEMMA TotalRecursion ==
    ASSUME NEW S, IsFiniteSet(S), NEW h
    PROVE  /\ S = {} => Total(h, S) = 0
           /\ S # {} => Total(h, S) = h.blocks[First(S)].size + Total(h, RestOf(S))
<1>1. Sums(SumOf(h, S), h, S)
  BY SumsExist, Zenon DEF SumOf
<1>2. SumOf(h, S)[S] = IF S = {} THEN 0 ELSE h.blocks[First(S)].size + SumOf(h, S)[RestOf(S)]
  <2>1. S \in SUBSET S
    OBVIOUS
  <2> QED
    BY <1>1, <2>1, Zenon DEF Sums
<1>3. Total(h, S) = SumOf(h, S)[S] /\ Total(h, RestOf(S)) = SumOf(h, RestOf(S))[RestOf(S)]
  BY Zenon DEF Total
<1>4. ASSUME S # {} PROVE SumOf(h, S)[RestOf(S)] = SumOf(h, RestOf(S))[RestOf(S)]
  <2>1. PICK r : r = RestOf(S)
    OBVIOUS
  <2>2. r \in SUBSET S /\ IsFiniteSet(r) /\ r \in SUBSET r
    BY <1>4, <2>1, FirstRest, FS_Subset
  <2>3. Sums(SumOf(h, r), h, r)
    BY <2>2, SumsExist, Zenon DEF SumOf
  <2>4. SumOf(h, S)[r] = SumOf(h, r)[r]
    BY <1>1, <2>2, <2>3, SumsAgree
  <2> QED
    BY <2>1, <2>4
<1> QED
  BY <1>2, <1>3, <1>4

(* Blocks of the same sizes have the same total. *)
LEMMA TotalSame ==
    ASSUME NEW S, IsFiniteSet(S), NEW g, NEW h, \A a \in S : g.blocks[a].size = h.blocks[a].size
    PROVE  Total(g, S) = Total(h, S)
<1>1. Sums(SumOf(g, S), g, S) /\ Sums(SumOf(h, S), h, S)
  BY SumsExist, Zenon DEF SumOf
<1>2. SumOf(g, S)[S] = SumOf(h, S)[S]
  <2>1. S \in SUBSET S
    OBVIOUS
  <2> QED
    BY <1>1, <2>1, SumsAgree
<1> QED
  BY <1>2, Zenon DEF Total

(* Whichever block is taken first, the total is its size and the rest. *)
LEMMA TotalWithout ==
    ASSUME NEW S, IsFiniteSet(S), NEW h, \A a \in S : h.blocks[a].size \in Nat
    PROVE  Total(h, S) \in Nat /\ \A a \in S : Total(h, S) = h.blocks[a].size + Total(h, S \ {a})
<1> DEFINE Right(s) == /\ Total(h, s) \in Nat
                       /\ \A a \in s : Total(h, s) = h.blocks[a].size + Total(h, s \ {a})
           P == {s \in SUBSET S : Right(s)}
<1>1. ASSUME NEW s \in SUBSET S, \A u \in SUBSET s : u # s => u \in P
      PROVE  s \in P
  <2>1. IsFiniteSet(s)
    BY FS_Subset
  <2>2. CASE s = {}
    BY <2>1, <2>2, TotalRecursion
  <2>3. CASE s # {}
    <3>1. PICK x : x = First(s)
      OBVIOUS
    <3>2. x \in s /\ RestOf(s) = s \ {x}
      BY <2>3, <3>1, FirstRest DEF RestOf
    <3>3. Total(h, s) = h.blocks[x].size + Total(h, s \ {x})
      BY <2>1, <2>3, <3>1, <3>2, TotalRecursion
    <3>4. ASSUME NEW a \in s PROVE Right(s \ {a}) /\ h.blocks[a].size \in Nat
      <4>1. s \ {a} \in SUBSET s /\ s \ {a} # s
        OBVIOUS
      <4>2. s \ {a} \in P
        BY <1>1, <4>1
      <4> QED
        BY <4>2
    <3>5. Total(h, s) \in Nat
      BY <3>2, <3>3, <3>4
    <3>6. ASSUME NEW a \in s PROVE Total(h, s) = h.blocks[a].size + Total(h, s \ {a})
      <4>1. CASE a = x
        BY <3>3, <4>1
      <4>2. CASE a # x
        <5>1. a \in s \ {x} /\ x \in s \ {a} /\ (s \ {x}) \ {a} = (s \ {a}) \ {x}
          BY <3>2, <4>2
        <5>2. PICK r : r = Total(h, (s \ {a}) \ {x})
          OBVIOUS
        <5>3. Total(h, s \ {x}) = h.blocks[a].size + r
          BY <3>2, <3>4, <5>1, <5>2
        <5>4. Total(h, s \ {a}) = h.blocks[x].size + r
          BY <3>4, <5>1, <5>2
        <5>5. r \in Nat
          <6>1. (s \ {a}) \ {x} \in SUBSET s /\ (s \ {a}) \ {x} # s
            BY <3>6
          <6>2. (s \ {a}) \ {x} \in P
            BY <1>1, <6>1
          <6> QED
            BY <5>2, <6>2
        <5>6. h.blocks[a].size \in Nat /\ h.blocks[x].size \in Nat
          BY <3>2, <3>4
        <5> QED
          BY <3>3, <5>3, <5>4, <5>5, <5>6
      <4> QED
        BY <4>1, <4>2
    <3> QED
      BY <3>5, <3>6
  <2> QED
    BY <2>2, <2>3
<1>2. S \in P
  <2> HIDE DEF P
  <2> QED
    BY <1>1, SubsetInduction
<1> QED
  BY <1>2

(* m_allocated is the words of the blocks in use. *)
CountInv == HeapInv /\ allocated = Total(heap, live)

(* Callers own finitely many blocks, each of some words. *)
LEMMA LiveSizes ==
    ASSUME HeapInv PROVE IsFiniteSet(live) /\ \A c \in live : heap.blocks[c].size \in Nat
<1>1. Tiled(heap) /\ live \subseteq DOMAIN heap.blocks
  BY DEF HeapInv, OwnsBlocks, live
<1>2. live \in SUBSET (0..(Words - 1)) /\ 0 \in Int /\ Words - 1 \in Int
  BY <1>1, HeapAssumption DEF Tiled
<1>3. IsFiniteSet(live)
  BY <1>2, FS_Interval, FS_Subset
<1> QED
  BY <1>1, <1>3 DEF Tiled

(* A grant adds the size of the block granted to the total, *)
LEMMA GrantsCount ==
    ASSUME CountInv, ~misled, NEW want \in Requests, NEW a, Grants(a, want) PROVE CountInv'
<1>1. HeapInv /\ HeapInv'
  BY GrantsInv DEF CountInv
<1>2. /\ a \notin live /\ live' = live \cup {a} /\ \A c \in live : heap'.blocks[c].size = heap.blocks[c].size
      /\ allocated' = allocated + heap'.blocks[a].size
  BY DEF Grants, SameBlock, Unowned, live
<1>3. IsFiniteSet(live') /\ \A c \in live' : heap'.blocks[c].size \in Nat
  <2>1. (IsFiniteSet(live) /\ \A c \in live : heap.blocks[c].size \in Nat)'
    BY <1>1, LiveSizes, PTL
  <2> QED
    BY <2>1
<1>4. Total(heap', live) = Total(heap, live) /\ Total(heap, live) \in Nat
  <2>1. IsFiniteSet(live) /\ \A c \in live : heap.blocks[c].size \in Nat
    BY <1>1, LiveSizes
  <2> QED
    BY <1>2, <2>1, TotalSame, TotalWithout
<1>5. Total(heap', live') = heap'.blocks[a].size + Total(heap', live)
  <2>1. live' \ {a} = live /\ a \in live'
    BY <1>2
  <2>2. \A c \in live' : Total(heap', live') = heap'.blocks[c].size + Total(heap', live' \ {c})
    BY <1>3, TotalWithout
  <2> QED
    BY <2>1, <2>2
<1>6. heap'.blocks[a].size \in Nat
  BY <1>2, <1>3
<1>7. allocated = Total(heap, live)
  BY DEF CountInv
<1>8. allocated' = Total(heap', live')
  BY <1>2, <1>4, <1>5, <1>6, <1>7
<1> QED
  BY <1>1, <1>8 DEF CountInv

(* and a return takes that of the block given back away. *)
LEMMA ReturnsCount ==
    ASSUME CountInv, ~misled, NEW a, Returns(a) PROVE CountInv'
<1>1. HeapInv /\ HeapInv'
  BY ReturnsInv DEF CountInv
<1>2. /\ a \in live /\ live' = live \ {a} /\ \A c \in live \ {a} : heap'.blocks[c].size = heap.blocks[c].size
      /\ allocated' = allocated - heap.blocks[a].size
  BY DEF Returns, SameBlock, live
<1>3. IsFiniteSet(live) /\ \A c \in live : heap.blocks[c].size \in Nat
  BY <1>1, LiveSizes
<1>4. IsFiniteSet(live \ {a})
  BY <1>3, FS_RemoveElement
<1>5. Total(heap', live \ {a}) = Total(heap, live \ {a})
  BY <1>2, <1>4, TotalSame
<1>6. Total(heap, live) = heap.blocks[a].size + Total(heap, live \ {a})
  BY <1>2, <1>3, TotalWithout
<1>7. Total(heap, live \ {a}) \in Nat /\ heap.blocks[a].size \in Nat
  BY <1>2, <1>3, <1>4, TotalWithout
<1>8. allocated = Total(heap, live)
  BY DEF CountInv
<1>9. allocated' = Total(heap', live')
  BY <1>2, <1>5, <1>6, <1>7, <1>8
<1> QED
  BY <1>1, <1>9 DEF CountInv

(* Every step keeps the count. *)
LEMMA CountStep == CountInv /\ [Next]_vars => CountInv'
<1> SUFFICES ASSUME CountInv, [Next]_vars PROVE CountInv'
  OBVIOUS
<1>1. CASE Next
  <2>1. HeapInv
    BY DEF CountInv
  <2>2. ~misled /\ ((\E want \in Requests : \E a : Grants(a, want)) \/ \E a \in Addresses : Returns(a))
    BY <1>1, <2>1, StepKinds
  <2> QED
    BY <2>2, GrantsCount, ReturnsCount
<1>2. CASE UNCHANGED vars
  <2>1. heap' = heap /\ live' = live /\ allocated' = allocated
    BY <1>2 DEF vars, live
  <2>2. HeapInv'
    BY <1>2, HeapStep DEF CountInv
  <2> QED
    BY <2>1, <2>2 DEF CountInv
<1> QED
  BY <1>1, <1>2

(* The constructor has given nothing away and counts nothing. *)
LEMMA CountInit == Init => CountInv
<1> SUFFICES ASSUME Init PROVE CountInv
  OBVIOUS
<1>1. HeapInv
  BY HeapInitInv
<1>2. live = {} /\ allocated = 0
  BY DEF Init, live
<1>3. Total(heap, {}) = 0
  BY FS_EmptySet, TotalRecursion
<1> QED
  BY <1>1, <1>2, <1>3 DEF CountInv

(* The blocks cover the memory without a hole or an overlap, and           *)
(* allocated() is the sum of the blocks in use, across splits and merges,  *)
(* for every size of the memory and through either interface.              *)
THEOREM BlocksCorrect == Spec => []BlocksTile
<1>1. CountInv => BlocksTile
  BY HeapTiles, TotalSums DEF CountInv, BlocksTile
<1> QED
  BY <1>1, CountInit, CountStep, PTL DEF Spec

(* It implies that the free list is exact *)
LEMMA HeapListExact == HeapInv => FreeListExact
<1> SUFFICES ASSUME HeapInv, ~aligned \/ ~misled
             PROVE  Range(heap.free) = DOMAIN heap.blocks \ live /\ Len(heap.free) = Cardinality(Range(heap.free))
  BY DEF FreeListExact
<1>1. Lists(heap.free, Unowned)
  BY Zenon DEF HeapInv
<1> QED
  BY <1>1, ListLength DEF Unowned

(* No sequence of calls leaks a block or hands one out twice: the free     *)
(* list holds exactly the blocks nobody owns, each once, for every size of *)
(* the memory, every set of requests and of alignments.                    *)
THEOREM ListExact == Spec => []FreeListExact
BY HeapInvariant, HeapListExact, PTL

(* and that free blocks are sorted and apart until the list ran empty. *)
LEMMA HeapCoalesced == HeapInv => CoalescedUntilDrained
<1> SUFFICES ASSUME HeapInv, ~drained, ~aligned
             PROVE  /\ ~heap.failed
                    /\ \A i, j \in DOMAIN heap.free : i < j => End(heap, heap.free[i]) < heap.free[j]
  BY DEF CoalescedUntilDrained
<1>1. Tidy(heap, Unowned) /\ Tiled(heap) /\ Lists(heap.free, Unowned)
  BY Zenon DEF HeapInv, OwnsBlocks
<1>2. ~heap.failed /\ Ordered(heap.free) /\ Apart(heap, Unowned)
  BY <1>1 DEF Tidy
<1>3. DOMAIN heap.free = 1..Len(heap.free) /\ \A i \in 1..Len(heap.free) : heap.free[i] \in Unowned
  BY <1>1, ListFacts
<1>4. ASSUME NEW i \in 1..Len(heap.free), NEW j \in 1..Len(heap.free), i < j
      PROVE  End(heap, heap.free[i]) < heap.free[j]
  <2>1. heap.free[i] < heap.free[j]
    BY <1>2, <1>4 DEF Ordered
  <2>2. heap.free[i] \in Unowned /\ heap.free[j] \in Unowned
    BY <1>3
  <2>3. PICK x, y : x = heap.free[i] /\ y = heap.free[j]
    OBVIOUS
  <2>4. x \in DOMAIN heap.blocks /\ y \in DOMAIN heap.blocks /\ x < y
    BY <2>1, <2>2, <2>3 DEF Unowned
  <2>5. x \in Int /\ y \in Int /\ heap.blocks[x].size \in Nat /\ y >= x + heap.blocks[x].size
    BY <1>1, <2>4 DEF Tiled
  <2>6. x + heap.blocks[x].size # y
    BY <1>2, <2>2, <2>3 DEF Apart, End
  <2>7. x + heap.blocks[x].size < y
    BY <2>5, <2>6
  <2> QED
    BY <2>3, <2>7 DEF End
<1> QED
  BY <1>2, <1>3, <1>4

(* Until the list ran empty it is sorted, no two free blocks touch and no  *)
(* assertion of mark_used() failed: every release() joined what it could.  *)
THEOREM FreeBlocksApart == Spec => []CoalescedUntilDrained
BY HeapInvariant, HeapCoalesced, PTL

-----------------------------------------------------------------------------
(* The regions of ImplementsArena, as a function of the heap and the       *)
(* paddings; no two blocks give out the same pointer.                      *)
DataOf(p, a)  == a + Header + p[a]
Regions(h, p) == [d \in {DataOf(p, a) : a \in DOMAIN p} |->
                     End(h, CHOOSE a \in DOMAIN p : DataOf(p, a) = d) - d]

Within(h, p, a) == /\ DataOf(p, a) \in Nat /\ a \in Nat /\ a < DataOf(p, a) /\ DataOf(p, a) < End(h, a)
                   /\ End(h, a) \in Nat /\ End(h, a) <= Words

(* A caller's pointer lies inside his block, with a word at least behind   *)
(* it.                                                                     *)
LEMMA DataWithin ==
    ASSUME NEW h, NEW p, OwnsBlocks(h, p), NEW a \in DOMAIN p
    PROVE  Within(h, p, a)
<1>1. /\ Tiled(h) /\ a \in DOMAIN h.blocks /\ p[a] \in Nat /\ Header + p[a] < h.blocks[a].size
  BY DEF OwnsBlocks
<1>2. a \in 0..(Words - 1) /\ h.blocks[a].size \in Nat /\ a + h.blocks[a].size \in DOMAIN h.blocks \cup {Words}
  BY <1>1 DEF Tiled
<1>3. Words \in Nat /\ DOMAIN h.blocks \subseteq 0..(Words - 1)
  BY <1>1, HeapAssumption DEF Tiled
<1>4. a \in Nat /\ a + h.blocks[a].size \in Nat /\ a + h.blocks[a].size <= Words
  BY <1>2, <1>3
<1>5. /\ a + Header + p[a] \in Nat /\ a < a + Header + p[a]
      /\ a + Header + p[a] < a + h.blocks[a].size
  BY <1>1, <1>2, <1>4 DEF Header
<1> QED
  BY <1>4, <1>5 DEF Within, DataOf, End

(* Two blocks do not overlap. *)
LEMMA DataApart ==
    ASSUME NEW h, NEW p, OwnsBlocks(h, p), NEW a \in DOMAIN p, NEW b \in DOMAIN p, a # b
    PROVE  End(h, a) <= b \/ End(h, b) <= a
<1>1. Tiled(h) /\ a \in DOMAIN h.blocks /\ b \in DOMAIN h.blocks
  BY DEF OwnsBlocks
<1>2. a \in Nat /\ b \in Nat /\ (a < b \/ b < a)
  BY <1>1 DEF Tiled
<1> QED
  BY <1>1, <1>2 DEF Tiled, End

(* No two blocks give out the same pointer. *)
LEMMA DataInjective ==
    ASSUME NEW h, NEW p, OwnsBlocks(h, p), NEW a \in DOMAIN p, NEW b \in DOMAIN p,
           DataOf(p, a) = DataOf(p, b)
    PROVE  a = b
<1>1. Within(h, p, a) /\ Within(h, p, b)
  BY DataWithin
<1> QED
  BY <1>1, DataApart DEF Within

RegionsOf(R, h, p) ==
    /\ R = [d \in DOMAIN R |-> R[d]]
    /\ DOMAIN R = {DataOf(p, a) : a \in DOMAIN p}
    /\ \A a \in DOMAIN p : R[DataOf(p, a)] = End(h, a) - DataOf(p, a)

(* Regions() is that function. *)
LEMMA RegionsFacts ==
    ASSUME NEW h, NEW p, OwnsBlocks(h, p)
    PROVE  RegionsOf(Regions(h, p), h, p)
<1>1. DOMAIN Regions(h, p) = {DataOf(p, a) : a \in DOMAIN p}
  BY DEF Regions
<1>2. Regions(h, p) = [d \in DOMAIN Regions(h, p) |-> Regions(h, p)[d]]
  BY DEF Regions
<1>3. ASSUME NEW a \in DOMAIN p PROVE Regions(h, p)[DataOf(p, a)] = End(h, a) - DataOf(p, a)
  <2>1. PICK d : d = DataOf(p, a)
    OBVIOUS
  <2>2. PICK c : c = CHOOSE x \in DOMAIN p : DataOf(p, x) = d
    OBVIOUS
  <2>3. c \in DOMAIN p /\ DataOf(p, c) = d
    BY <1>3, <2>1, <2>2
  <2>4. c = a
    BY <2>1, <2>3, DataInjective
  <2>5. Regions(h, p)[d] = End(h, c) - d
    BY <2>1, <2>2 DEF Regions
  <2> QED
    BY <2>1, <2>4, <2>5
<1> QED
  BY <1>1, <1>2, <1>3 DEF RegionsOf

(* Arena's actions, of a function of regions and its successor.            *)
Gives(R, Q, want) ==
    \E a \in 0..(Words - 1), size \in want..Words :
        /\ a + size <= Words
        /\ \A b \in DOMAIN R : (b..(b + R[b] - 1)) \cap (a..(a + size - 1)) = {}
        /\ Q = [b \in DOMAIN R \cup {a} |-> IF b = a THEN size ELSE R[b]]

TakesBack(R, Q, a) == Q = [b \in DOMAIN R \ {a} |-> R[b]]

(* A grant is Arena's Give: a region as large as wanted, apart from all    *)
(* others.                                                                 *)
LEMMA GrantsGives ==
    ASSUME HeapInv, HeapInv', NEW want \in Requests, NEW a, Grants(a, want)
    PROVE  Gives(Regions(heap, padding), Regions(heap', padding'), want)
<1>1. OwnsBlocks(heap, padding) /\ OwnsBlocks(heap', padding')
  <2>1. OwnsBlocks(heap, padding)
    BY Zenon DEF HeapInv
  <2>2. OwnsBlocks(heap, padding)'
    BY Zenon DEF HeapInv
  <2> QED
    BY <2>1, <2>2
<1>2. /\ a \in Unowned /\ DOMAIN padding' = live \cup {a}
      /\ \A c \in live : padding'[c] = padding[c] /\ SameBlock(heap', heap, c)
      /\ padding'[a] \in Nat /\ Header + padding'[a] + want <= heap'.blocks[a].size
  BY Zenon DEF Grants
<1>3. PICK R, Q : R = Regions(heap, padding) /\ Q = Regions(heap', padding')
  OBVIOUS
<1>4. RegionsOf(R, heap, padding) /\ RegionsOf(Q, heap', padding')
  BY <1>1, <1>3, RegionsFacts
<1>5. PICK d : d = DataOf(padding', a)
  OBVIOUS
<1>6. a \in DOMAIN padding' /\ a \notin live /\ live = DOMAIN padding
  BY <1>2 DEF Unowned, live
<1>7. ASSUME NEW c \in live
      PROVE  /\ DataOf(padding', c) = DataOf(padding, c) /\ End(heap', c) = End(heap, c)
             /\ DataOf(padding, c) # d /\ c \in DOMAIN padding'
             /\ (DataOf(padding, c)..(End(heap, c) - 1)) \cap (d..(End(heap', a) - 1)) = {}
  <2>1. DataOf(padding', c) = DataOf(padding, c) /\ End(heap', c) = End(heap, c) /\ c \in DOMAIN padding' /\ c # a
    BY <1>2, <1>6 DEF DataOf, End, SameBlock
  <2>2. Within(heap', padding', c) /\ Within(heap', padding', a)
    BY <1>1, <1>6, <2>1, DataWithin
  <2>3. End(heap', a) <= c \/ End(heap', c) <= a
    BY <1>1, <1>6, <2>1, DataApart
  <2> QED
    BY <1>5, <2>1, <2>2, <2>3 DEF Within
<1>8. PICK size : size = End(heap', a) - d
  OBVIOUS
<1>9. d \in 0..(Words - 1) /\ size \in want..Words /\ d + size <= Words /\ d + size = End(heap', a)
  <2>1. Within(heap', padding', a)
    BY <1>1, <1>6, DataWithin
  <2>2. heap'.blocks[a].size \in Nat /\ want \in Nat /\ Words \in Nat
    BY <1>1, <1>6, HeapAssumption DEF OwnsBlocks, Tiled
  <2> QED
    BY <1>2, <1>5, <1>8, <2>1, <2>2 DEF Within, DataOf, End, Header
<1>10. \A b \in DOMAIN R : (b..(b + R[b] - 1)) \cap (d..(d + size - 1)) = {}
  <2> SUFFICES ASSUME NEW b \in DOMAIN R PROVE (b..(b + R[b] - 1)) \cap (d..(d + size - 1)) = {}
    OBVIOUS
  <2>1. PICK c \in live : b = DataOf(padding, c)
    BY <1>4, <1>6 DEF RegionsOf
  <2>2. R[b] = End(heap, c) - b
    BY <1>4, <1>6, <2>1 DEF RegionsOf
  <2>3. b \in Nat /\ End(heap, c) \in Nat
    BY <1>1, <1>6, <2>1, DataWithin DEF Within
  <2>4. b + R[b] = End(heap, c)
    BY <2>2, <2>3
  <2>5. PICK x, y : x = End(heap, c) /\ y = End(heap', a)
    OBVIOUS
  <2>6. b + R[b] = x /\ d + size = y /\ x \in Int /\ y \in Int /\ b \in Int /\ d \in Int
    BY <1>9, <2>3, <2>4, <2>5
  <2>7. R[b] \in Int /\ size \in Int
    BY <1>9, <2>2, <2>3, HeapAssumption
  <2>8. (b..(x - 1)) \cap (d..(y - 1)) = {}
    BY <1>7, <2>1, <2>5, Zenon
  <2>9. b + R[b] - 1 = x - 1
    <3>1. PICK v : v = R[b]
      OBVIOUS
    <3>2. v \in Int /\ b + v = x
      BY <2>6, <2>7, <3>1, Zenon
    <3>3. b + v - 1 = x - 1
      BY <2>6, <3>2
    <3> QED
      BY <3>1, <3>3, Zenon
  <2>10. d + size - 1 = y - 1
    BY <2>6, <2>7
  <2> QED
    BY <2>8, <2>9, <2>10
<1>11. DOMAIN Q = DOMAIN R \cup {d}
  BY <1>2, <1>4, <1>5, <1>6, <1>7 DEF RegionsOf
<1>12. ASSUME NEW b \in DOMAIN Q PROVE Q[b] = IF b = d THEN size ELSE R[b]
  <2>1. CASE b = d
    BY <1>4, <1>5, <1>6, <1>8, <2>1 DEF RegionsOf
  <2>2. CASE b # d
    <3>1. PICK c \in live : b = DataOf(padding, c)
      BY <1>4, <1>6, <1>11, <2>2 DEF RegionsOf
    <3>2. R[b] = End(heap, c) - b /\ Q[b] = End(heap', c) - b
      BY <1>4, <1>6, <1>7, <3>1 DEF RegionsOf
    <3> QED
      BY <1>7, <2>2, <3>2
  <2> QED
    BY <2>1, <2>2
<1>13. Q = [b \in DOMAIN R \cup {d} |-> IF b = d THEN size ELSE R[b]]
  <2>1. Q = [b \in DOMAIN Q |-> Q[b]]
    BY <1>4 DEF RegionsOf
  <2> QED
    BY <1>11, <1>12, <2>1
<1> QED
  BY <1>3, <1>9, <1>10, <1>13 DEF Gives

(* A return is Arena's TakeBack: all other regions stay where they are. *)
LEMMA ReturnsTakesBack ==
    ASSUME HeapInv, HeapInv', NEW a, Returns(a)
    PROVE  \E d \in DOMAIN Regions(heap, padding) :
               TakesBack(Regions(heap, padding), Regions(heap', padding'), d)
<1>1. OwnsBlocks(heap, padding) /\ OwnsBlocks(heap', padding')
  <2>1. OwnsBlocks(heap, padding)
    BY Zenon DEF HeapInv
  <2>2. OwnsBlocks(heap, padding)'
    BY Zenon DEF HeapInv
  <2> QED
    BY <2>1, <2>2
<1>2. /\ a \in live /\ DOMAIN padding' = live \ {a} /\ live = DOMAIN padding
      /\ \A c \in live \ {a} : padding'[c] = padding[c] /\ SameBlock(heap', heap, c)
  BY Zenon DEF Returns, live
<1>3. PICK R, Q : R = Regions(heap, padding) /\ Q = Regions(heap', padding')
  OBVIOUS
<1>4. RegionsOf(R, heap, padding) /\ RegionsOf(Q, heap', padding')
  BY <1>1, <1>3, RegionsFacts
<1>5. PICK d : d = DataOf(padding, a)
  OBVIOUS
<1>6. \A c \in live \ {a} : /\ DataOf(padding', c) = DataOf(padding, c) /\ End(heap', c) = End(heap, c)
                            /\ DataOf(padding, c) # d
  <2> SUFFICES ASSUME NEW c \in live \ {a}
               PROVE  /\ DataOf(padding', c) = DataOf(padding, c) /\ End(heap', c) = End(heap, c)
                      /\ DataOf(padding, c) # d
    OBVIOUS
  <2>1. DataOf(padding', c) = DataOf(padding, c) /\ End(heap', c) = End(heap, c)
    BY <1>2 DEF DataOf, End, SameBlock
  <2>2. DataOf(padding, c) # d
    BY <1>1, <1>2, <1>5, DataInjective
  <2> QED
    BY <2>1, <2>2
<1>7. d \in DOMAIN R /\ DOMAIN Q = DOMAIN R \ {d}
  BY <1>2, <1>4, <1>5, <1>6 DEF RegionsOf
<1>8. ASSUME NEW b \in DOMAIN Q PROVE Q[b] = R[b]
  <2>1. PICK c \in live \ {a} : b = DataOf(padding', c)
    BY <1>2, <1>4 DEF RegionsOf
  <2> QED
    BY <1>2, <1>4, <1>6, <2>1 DEF RegionsOf
<1>9. Q = [b \in DOMAIN R \ {d} |-> R[b]]
  <2>1. Q = [b \in DOMAIN Q |-> Q[b]]
    BY <1>4 DEF RegionsOf
  <2> QED
    BY <1>7, <1>8, <2>1
<1> QED
  BY <1>3, <1>7, <1>9 DEF TakesBack

(* The mapping of ImplementsArena is this function of the variables. *)
LEMMA GivenRegions ==
    Given = Regions(heap, padding) /\ Given' = Regions(heap', padding')
<1>1. Given = Regions(heap, padding)
  BY DEF Given, Regions, Data, DataOf, Owner, live
<1>2. Given' = Regions(heap', padding')
  BY DEF Given, Regions, Data, DataOf, Owner, live, End
<1> QED
  BY <1>1, <1>2

(* The refinement, for the initial states *)
LEMMA ArenaInit == Init => Granted!Init
<1> SUFFICES ASSUME Init PROVE Given = [a \in {} |-> 0]
  BY DEF Granted!Init
<1>1. padding = [a \in {} |-> 0]
  BY DEF Init
<1>2. {Data(a) : a \in live} = {}
  BY <1>1 DEF live
<1> QED
  BY <1>2 DEF Given

(* and for every step. *)
LEMMA ArenaStep == HeapInv /\ HeapInv' /\ [Next]_vars => [Granted!Next]_Given
<1> SUFFICES ASSUME HeapInv, HeapInv', [Next]_vars PROVE [Granted!Next]_Given
  OBVIOUS
<1>1. PICK R, Q : R = Regions(heap, padding) /\ Q = Regions(heap', padding')
  OBVIOUS
<1>2. Given = R /\ Given' = Q
  BY <1>1, GivenRegions
<1>3. CASE Next
  <2>1. CASE \E want \in Requests : \E a : Grants(a, want)
    <3>1. PICK want \in Requests : Gives(R, Q, want)
      BY <1>1, <2>1, GrantsGives
    <3>2. Granted!Give(want)
      BY <1>2, <3>1 DEF Gives, Granted!Give, Granted!Taken
    <3> QED
      BY <3>2 DEF Granted!Next
  <2>2. CASE \E a \in Addresses : Returns(a)
    <3>1. PICK d \in DOMAIN R : TakesBack(R, Q, d)
      BY <1>1, <2>2, ReturnsTakesBack
    <3>2. Granted!TakeBack(d)
      BY <1>2, <3>1 DEF TakesBack, Granted!TakeBack
    <3> QED
      BY <1>2, <3>2 DEF Granted!Next
  <2> QED
    BY <1>3, <2>1, <2>2, StepKinds
<1>4. CASE UNCHANGED vars
  <2>1. heap' = heap /\ padding' = padding
    BY <1>4 DEF vars
  <2>2. Q = R
    BY <1>1, <2>1
  <2> QED
    BY <1>2, <2>2
<1> QED
  BY <1>3, <1>4

(* The allocator implements Arena, splitting and joining included, up to   *)
(* the call in which release() is misled, where the model ends: regions    *)
(* handed out are large enough, never overlap and stay put.                *)
THEOREM Implements == Spec => ImplementsArena
<1>1. Init => Granted!Init
  BY ArenaInit
<1>2. HeapInv /\ HeapInv' /\ [Next]_vars => [Granted!Next]_Given
  BY ArenaStep
<1>3. Spec => []HeapInv
  BY HeapInvariant
<1> QED
  BY <1>1, <1>2, <1>3, PTL DEF Spec, ImplementsArena, Granted!Spec
=============================================================================
