----------------------------- MODULE HeapProofs -----------------------------
(***************************************************************************)
(* Theorems of Heap, for every page, header and alignment size, every      *)
(* request and every amount of memory: the invariants of the list, then    *)
(* that it implements Allocator, for which addresses and sizes of blocks   *)
(* are shown to be multiples of the alignment.                             *)
(***************************************************************************)
EXTENDS Heap, SequenceTheorems, TLAPS

IInv == /\ TypeOK
        /\ current_heap_end >= HEAP_START_VA
        /\ BlocksApart
        /\ HeapCovered

-----------------------------------------------------------------------------
(* Lemmas. *)

(* Rounding up does not round down. *)
LEMMA RoundUpBound ==
  ASSUME NEW n \in Nat, NEW unit \in Nat \ {0}
  PROVE  RoundUp(n, unit) \in Nat /\ RoundUp(n, unit) >= n
<1> DEFINE q == (n + unit - 1) \div unit
<1>1. q \in Nat /\ n + unit - 1 = unit * q + ((n + unit - 1) % unit)
  OBVIOUS
<1>2. (n + unit - 1) % unit \in 0 .. unit - 1
  OBVIOUS
<1>3. q * unit \in Nat /\ q * unit = unit * q
  BY <1>1
<1> QED BY <1>1, <1>2, <1>3 DEF RoundUp

(* A request takes more than a header. *)
LEMMA TotalSizeBound ==
  ASSUME NEW n \in Nat
  PROVE  TotalSize(n) \in Nat /\ TotalSize(n) >= HeaderSize
BY RoundUpBound, AlignAssumption, HeaderAssumption DEF TotalSize

(* An expansion is large enough for the request that asked for it. *)
LEMMA GrowthBound ==
  ASSUME NEW n \in Nat
  PROVE  Growth(TotalSize(n)) \in Nat /\ Growth(TotalSize(n)) >= TotalSize(n)
BY RoundUpBound, TotalSizeBound, PageAssumption, HeaderAssumption DEF Growth

(* What inserting e at position m leaves at each position. *)
LEMMA InsertAtFacts ==
  ASSUME NEW S, NEW s \in Seq(S), NEW e \in S, NEW m \in 1 .. Len(s) + 1
  PROVE  /\ InsertAt(s, m, e) \in Seq(S)
         /\ Len(InsertAt(s, m, e)) = Len(s) + 1
         /\ \A j \in 1 .. m - 1 : InsertAt(s, m, e)[j] = s[j]
         /\ InsertAt(s, m, e)[m] = e
         /\ \A j \in m + 1 .. Len(s) + 1 : InsertAt(s, m, e)[j] = s[j - 1]
<1> DEFINE head == SubSeq(s, 1, m - 1)
           tail == SubSeq(s, m, Len(s))
           one == <<e>>
           front == head \o one
           t == front \o tail
<1>1. m \in Nat /\ m >= 1 /\ m <= Len(s) + 1 /\ Len(s) \in Nat
  OBVIOUS
<1>2. head \in Seq(S) /\ Len(head) = m - 1 /\ \A j \in 1 .. m - 1 : head[j] = s[j]
  BY <1>1
<1>3. /\ tail \in Seq(S) /\ Len(tail) = Len(s) + 1 - m
      /\ \A j \in 1 .. Len(s) + 1 - m : tail[j] = s[m + j - 1]
  BY <1>1
<1>4. one \in Seq(S) /\ Len(one) = 1 /\ one[1] = e
  OBVIOUS
<1>5. InsertAt(s, m, e) = t
  BY ONLY Zenon DEF InsertAt
<1> HIDE DEF head, tail, one
<1>6. /\ front \in Seq(S) /\ Len(front) = m
      /\ \A j \in 1 .. m : front[j] = IF j <= m - 1 THEN head[j] ELSE one[j - (m - 1)]
  <2>1. /\ front \in Seq(S) /\ Len(front) = Len(head) + Len(one)
        /\ \A j \in 1 .. Len(head) + Len(one) :
             front[j] = IF j <= Len(head) THEN head[j] ELSE one[j - Len(head)]
    BY ONLY <1>2, <1>4, ConcatProperties
  <2>2. Len(head) = m - 1 /\ Len(one) = 1 /\ Len(head) + Len(one) = m
    BY <1>1, <1>2, <1>4
  <2> QED BY <2>1, <2>2
<1> HIDE DEF front
<1>7. /\ t \in Seq(S) /\ Len(t) = Len(s) + 1
      /\ \A j \in 1 .. Len(s) + 1 : t[j] = IF j <= m THEN front[j] ELSE tail[j - m]
  BY <1>1, <1>3, <1>6, ConcatProperties
<1> HIDE DEF t
<1>8. \A j \in 1 .. m - 1 : t[j] = s[j]
  BY <1>1, <1>2, <1>6, <1>7
<1>9. t[m] = e
  BY <1>1, <1>4, <1>6, <1>7
<1>10. ASSUME NEW j \in m + 1 .. Len(s) + 1
       PROVE  t[j] = s[j - 1]
  <2>1. t[j] = tail[j - m]
    BY <1>1, <1>7
  <2>2. j - m \in 1 .. Len(s) + 1 - m /\ m + (j - m) - 1 = j - 1
    BY <1>1
  <2> QED BY <1>3, <2>1, <2>2
<1> QED BY <1>5, <1>7, <1>8, <1>9, <1>10

(* t is s with r put at place m. *)
Inserted(s, m, r, t) ==
  /\ t \in Seq(Blocks)
  /\ Len(t) = Len(s) + 1
  /\ \A j \in 1 .. m - 1 : t[j] = s[j]
  /\ t[m] = r
  /\ \A j \in m + 1 .. Len(s) + 1 : t[j] = s[j - 1]

LEMMA InsertedBlock ==
  ASSUME NEW s \in Seq(Blocks), NEW m \in 1 .. Len(s) + 1, NEW r \in Blocks
  PROVE  Inserted(s, m, r, InsertAt(s, m, r))
BY InsertAtFacts DEF Inserted

(* Steps that leave every block where it is keep the heap tiled. *)
LEMMA SameBlocks ==
  ASSUME BlocksApart, HeapCovered,
         DOMAIN free_list' = DOMAIN free_list,
         \A k \in DOMAIN free_list : /\ free_list'[k].at = free_list[k].at
                                     /\ free_list'[k].size = free_list[k].size,
         current_heap_end' = current_heap_end
  PROVE  BlocksApart' /\ HeapCovered'
<1>1. \A k \in DOMAIN free_list : Span(free_list'[k]) = Span(free_list[k])
  BY DEF Span
<1>2. BlocksApart'
  BY <1>1 DEF BlocksApart
<1>3. {Span(free_list'[k]) : k \in DOMAIN free_list'} = {Span(free_list[k]) : k \in DOMAIN free_list}
  BY <1>1
<1>4. HeapCovered'
  BY <1>3 DEF HeapCovered
<1> QED BY <1>2, <1>4

-----------------------------------------------------------------------------
(* The invariant. *)

LEMMA InitInv == Init => IInv
<1> SUFFICES ASSUME Init PROVE IInv
  OBVIOUS
<1> DEFINE b == [at |-> HEAP_START_VA, size |-> PAGE_SIZE, is_free |-> TRUE]
<1>1. b \in Blocks
  BY PageAssumption, HeaderAssumption, StartAssumption DEF Blocks
<1>2. free_list = <<b>> /\ DOMAIN free_list = {1} /\ free_list[1] = b
  BY DEF Init
<1>3. TypeOK
  BY <1>1, <1>2, PageAssumption, StartAssumption DEF Init, TypeOK
<1>4. BlocksApart
  BY <1>2 DEF BlocksApart
<1>5. Span(b) = HEAP_START_VA .. current_heap_end - 1
  BY PageAssumption, StartAssumption DEF Init, Span
<1>6. HeapCovered
  BY <1>2, <1>5 DEF HeapCovered
<1> QED BY <1>3, <1>4, <1>6, PageAssumption, HeaderAssumption, StartAssumption DEF IInv, Init

(* An expansion adds a block behind all others. *)
LEMMA ExpandInv ==
  ASSUME IInv, KmallocExpand
  PROVE  IInv'
<1> DEFINE g == Growth(TotalSize(request))
           b == [at |-> current_heap_end, size |-> g, is_free |-> TRUE]
           n == Len(free_list)
<1>0. TypeOK /\ BlocksApart /\ HeapCovered
  BY DEF IInv
<1>1. free_list \in Seq(Blocks) /\ n \in Nat /\ DOMAIN free_list = 1 .. n
  BY <1>0 DEF TypeOK
<1>2. g \in Nat /\ g >= HeaderSize
  <2>1. request \in Nat
    BY <1>0 DEF TypeOK
  <2>2. g \in Nat /\ g >= TotalSize(request)
    BY <2>1, GrowthBound
  <2>3. TotalSize(request) \in Nat /\ TotalSize(request) >= HeaderSize
    BY <2>1, TotalSizeBound
  <2> HIDE DEF g
  <2> QED BY <2>2, <2>3, HeaderAssumption
<1>3. b \in Blocks
  BY <1>0, <1>2 DEF TypeOK, Blocks
<1>4. free_list' = <<b>> \o free_list /\ current_heap_end' = current_heap_end + g
  BY DEF KmallocExpand, Expand
<1> HIDE DEF g
<1>5. /\ free_list' \in Seq(Blocks) /\ DOMAIN free_list' = 1 .. n + 1
      /\ free_list'[1] = b
      /\ \A k \in 2 .. n + 1 : free_list'[k] = free_list[k - 1]
  <2> HIDE DEF b
  <2>1. <<b>> \in Seq(Blocks) /\ Len(<<b>>) = 1 /\ <<b>>[1] = b
    BY <1>3
  <2>2. /\ free_list' \in Seq(Blocks) /\ Len(free_list') = 1 + n
        /\ \A k \in 1 .. 1 + n : free_list'[k] = IF k <= 1 THEN <<b>>[k] ELSE free_list[k - 1]
    BY ONLY <1>1, <1>4, <2>1, ConcatProperties
  <2>3. DOMAIN free_list' = 1 .. n + 1
    BY <1>1, <2>2
  <2> QED BY <1>1, <2>1, <2>2, <2>3
<1>6. TypeOK'
  BY <1>0, <1>2, <1>4, <1>5 DEF TypeOK, KmallocExpand
<1>7. \A k \in 1 .. n : Span(free_list[k]) \subseteq HEAP_START_VA .. current_heap_end - 1
  BY <1>0, <1>1 DEF HeapCovered
<1>8. /\ Span(b) = current_heap_end .. current_heap_end' - 1
      /\ \A k \in 1 .. n : Span(b) \cap Span(free_list[k]) = {}
  BY <1>0, <1>2, <1>4, <1>7, StartAssumption DEF Span, TypeOK
<1> HIDE DEF b
<1>9. BlocksApart'
  <2> SUFFICES ASSUME NEW j \in 1 .. n + 1, NEW k \in 1 .. n + 1, j # k
               PROVE  Span(free_list'[j]) \cap Span(free_list'[k]) = {}
    BY <1>5 DEF BlocksApart
  <2>1. CASE j = 1
    <3>1. k \in 2 .. n + 1 /\ k - 1 \in 1 .. n
      BY <1>1, <2>1
    <3> QED BY <1>5, <1>8, <2>1, <3>1
  <2>2. CASE k = 1
    <3>1. j \in 2 .. n + 1 /\ j - 1 \in 1 .. n
      BY <1>1, <2>2
    <3> QED BY <1>5, <1>8, <2>2, <3>1
  <2>3. CASE j # 1 /\ k # 1
    <3>1. j - 1 \in 1 .. n /\ k - 1 \in 1 .. n /\ j - 1 # k - 1
      BY <1>1, <2>3
    <3>2. free_list'[j] = free_list[j - 1] /\ free_list'[k] = free_list[k - 1]
      BY <1>1, <1>5, <2>3
    <3> QED BY <1>0, <1>1, <3>1, <3>2 DEF BlocksApart
  <2> QED BY <2>1, <2>2, <2>3
<1>10. HeapCovered'
  <2>1. \A x : (\E k \in 1 .. n + 1 : x \in Span(free_list'[k]))
                 <=> x \in Span(b) \/ \E k \in 1 .. n : x \in Span(free_list[k])
    <3>1. \A k \in 1 .. n : k + 1 \in 2 .. n + 1 /\ free_list'[k + 1] = free_list[k]
      BY <1>1, <1>5
    <3>2. \A k \in 1 .. n + 1 : k # 1 => k - 1 \in 1 .. n /\ free_list'[k] = free_list[k - 1]
      BY <1>1, <1>5
    <3>3. 1 \in 1 .. n + 1
      BY <1>1
    <3> QED BY <1>5, <3>1, <3>2, <3>3
  <2>2. \A x : x \in HEAP_START_VA .. current_heap_end - 1
                 <=> \E k \in 1 .. n : x \in Span(free_list[k])
    BY <1>0, <1>1 DEF HeapCovered
  <2>3. HEAP_START_VA .. current_heap_end' - 1
          = (HEAP_START_VA .. current_heap_end - 1) \cup Span(b)
    <3>1. current_heap_end >= HEAP_START_VA
      BY DEF IInv
    <3> QED BY <1>0, <1>2, <1>4, <1>8, <3>1, StartAssumption DEF TypeOK
  <2>4. \A x : x \in HEAP_START_VA .. current_heap_end' - 1
                 <=> \E k \in 1 .. n + 1 : x \in Span(free_list'[k])
    BY <2>1, <2>2, <2>3
  <2> QED BY <1>5, <2>4 DEF HeapCovered
<1>11. (current_heap_end >= HEAP_START_VA)'
  BY <1>0, <1>2, <1>4, StartAssumption DEF IInv, TypeOK
<1> QED BY <1>6, <1>9, <1>10, <1>11 DEF IInv

(* Handing out a block leaves all blocks where they are, or cuts one in two. *)
LEMMA ReturnInv ==
  ASSUME IInv, KmallocReturn
  PROVE  IInv'
<1> DEFINE total == TotalSize(request)
           n == Len(free_list)
<1>0. TypeOK /\ BlocksApart /\ HeapCovered
  BY DEF IInv
<1>1. free_list \in Seq(Blocks) /\ n \in Nat /\ DOMAIN free_list = 1 .. n
  BY <1>0 DEF TypeOK
<1>2. total \in Nat /\ total >= HeaderSize
  BY <1>0, TotalSizeBound DEF TypeOK
<1>3. PICK k \in Fits(total) : free_list' = Take(k, total) /\ ret' = Payload(free_list[k])
  BY DEF KmallocReturn
<1> DEFINE b == free_list[k]
<1>4. /\ k \in 1 .. n /\ b \in Blocks
      /\ b.at \in Nat /\ b.size \in Nat /\ b.is_free \in BOOLEAN
      /\ b = [at |-> b.at, size |-> b.size, is_free |-> b.is_free]
  BY <1>1 DEF Fits, Blocks
<1>5. ret' \in Nat /\ request' = 0 /\ current_heap_end' = current_heap_end
  BY <1>3, <1>4, HeaderAssumption DEF KmallocReturn, Payload
<1> HIDE DEF total
<1>6. CASE ~Splits(b, total)
  <2> DEFINE w == Taken(b, b.size)
  <2>1. free_list' = [free_list EXCEPT ![k] = w]
    BY <1>3, <1>6 DEF Take
  <2>2. w \in Blocks /\ w.at = b.at /\ w.size = b.size
    BY <1>4 DEF Blocks, Taken
  <2>3. /\ free_list' \in Seq(Blocks) /\ DOMAIN free_list' = 1 .. n
        /\ \A j \in 1 .. n : free_list'[j] = IF j = k THEN w ELSE free_list[j]
    <3> HIDE DEF w
    <3> QED BY <1>1, <1>4, <2>1, <2>2
  <2> HIDE DEF w
  <2>4. BlocksApart' /\ HeapCovered'
    BY <1>0, <1>1, <1>5, <2>2, <2>3, SameBlocks
  <2> QED BY <1>0, <1>5, <2>3, <2>4 DEF IInv, TypeOK
<1>7. CASE Splits(b, total)
  <2> DEFINE f == Taken(b, total)
             r == [at |-> b.at + total, size |-> b.size - total, is_free |-> TRUE]
             s == [free_list EXCEPT ![k] = f]
             old(j) == IF j <= k THEN j ELSE j - 1
  <2>1. b.size >= total + HeaderSize
    BY <1>2, <1>4, <1>7, HeaderAssumption, AlignAssumption DEF Splits
  <2>2. f \in Blocks /\ r \in Blocks
    BY <1>2, <1>4, <2>1, HeaderAssumption DEF Blocks, Taken
  <2>4. free_list' = InsertAt(s, k + 1, r)
    BY <1>3, <1>7 DEF Take, Rest
  <2>5. /\ \A x : x \in Span(b) <=> x \in Span(f) \/ x \in Span(r)
        /\ Span(f) \cap Span(r) = {}
    BY <1>2, <1>4, <2>1, HeaderAssumption DEF Span, Taken
  <2> HIDE DEF f, r
  <2>6. /\ s \in Seq(Blocks) /\ Len(s) = n /\ DOMAIN s = 1 .. n
        /\ \A j \in 1 .. n : s[j] = IF j = k THEN f ELSE free_list[j]
    BY <1>1, <1>4, <2>2
  <2> HIDE DEF s
  <2>7. /\ free_list' \in Seq(Blocks)
        /\ Len(free_list') = n + 1
        /\ \A j \in 1 .. k : free_list'[j] = s[j]
        /\ free_list'[k + 1] = r
        /\ \A j \in k + 2 .. n + 1 : free_list'[j] = s[j - 1]
    <3>1. PICK m : m = k + 1
      OBVIOUS
    <3>2. m \in 1 .. Len(s) + 1
      BY <1>4, <2>6, <3>1
    <3>3. s \in Seq(Blocks) /\ free_list' = InsertAt(s, m, r)
      BY <2>4, <2>6, <3>1
    <3>4. Inserted(s, m, r, free_list')
      BY <2>2, <3>2, <3>3, InsertedBlock
    <3> QED BY <1>4, <2>6, <3>1, <3>4 DEF Inserted
  <2>8. DOMAIN free_list' = 1 .. n + 1
    BY <1>1, <2>7
  <2>9. free_list'[k] = f /\ free_list'[k + 1] = r
    <3>1. k \in 1 .. k /\ k \in 1 .. n
      BY <1>4
    <3> QED BY <2>6, <2>7, <3>1
  <2>10. ASSUME NEW j \in 1 .. n + 1, j \notin {k, k + 1}
         PROVE  old(j) \in 1 .. n /\ old(j) # k /\ free_list'[j] = free_list[old(j)]
    <3>1. CASE j < k
      <4>1. j \in 1 .. k /\ j \in 1 .. n /\ j # k /\ old(j) = j
        BY <1>1, <1>4, <3>1
      <4> QED BY <2>6, <2>7, <4>1
    <3>2. CASE j > k + 1
      <4>1. j \in k + 2 .. n + 1 /\ j - 1 \in 1 .. n /\ j - 1 # k /\ old(j) = j - 1
        BY <1>1, <1>4, <3>2
      <4> QED BY <2>6, <2>7, <4>1
    <3> QED BY <1>1, <1>4, <2>10, <3>1, <3>2
  <2>11. \A j \in 1 .. n + 1 : /\ old(j) \in 1 .. n
                               /\ Span(free_list'[j]) \subseteq Span(free_list[old(j)])
    BY <1>1, <1>4, <2>5, <2>9, <2>10
  <2>12. BlocksApart'
    <3> SUFFICES ASSUME NEW i \in 1 .. n + 1, NEW j \in 1 .. n + 1, i # j
                 PROVE  Span(free_list'[i]) \cap Span(free_list'[j]) = {}
      BY <2>8 DEF BlocksApart
    <3>1. CASE old(i) = old(j)
      <4>1. {i, j} = {k, k + 1}
        BY <1>1, <1>4, <3>1
      <4> QED BY <2>5, <2>9, <4>1
    <3>2. CASE old(i) # old(j)
      <4>1. Span(free_list[old(i)]) \cap Span(free_list[old(j)]) = {}
        BY <1>0, <1>1, <2>11, <3>2 DEF BlocksApart
      <4> QED BY <2>11, <4>1
    <3> QED BY <3>1, <3>2
  <2>13. HeapCovered'
    <3>1. \A x, i : i \in 1 .. n /\ x \in Span(free_list[i])
                      => \E j \in 1 .. n + 1 : x \in Span(free_list'[j])
      <4> SUFFICES ASSUME NEW x, NEW i \in 1 .. n, x \in Span(free_list[i])
                   PROVE  \E j \in 1 .. n + 1 : x \in Span(free_list'[j])
        OBVIOUS
      <4>1. CASE i = k
        <5>1. k \in 1 .. n + 1 /\ k + 1 \in 1 .. n + 1
          BY <1>1, <1>4
        <5> QED BY <2>5, <2>9, <4>1, <5>1
      <4>2. CASE i < k
        <5>1. i \in 1 .. n + 1 /\ i \notin {k, k + 1} /\ old(i) = i
          BY <1>1, <1>4, <4>2
        <5> QED BY <2>10, <5>1
      <4>3. CASE i > k
        <5>1. i + 1 \in 1 .. n + 1 /\ i + 1 \notin {k, k + 1} /\ old(i + 1) = i
          BY <1>1, <1>4, <4>3
        <5> QED BY <2>10, <5>1
      <4> QED BY <1>1, <1>4, <4>1, <4>2, <4>3
    <3>2. \A x : (\E j \in 1 .. n + 1 : x \in Span(free_list'[j]))
                   <=> \E i \in 1 .. n : x \in Span(free_list[i])
      BY <2>11, <3>1
    <3>3. UNION {Span(free_list'[j]) : j \in 1 .. n + 1} = UNION {Span(free_list[i]) : i \in 1 .. n}
      BY <3>2
    <3> QED BY <1>0, <1>1, <1>5, <2>8, <3>3 DEF HeapCovered
  <2> QED BY <1>0, <1>5, <2>7, <2>12, <2>13 DEF IInv, TypeOK
<1> QED BY <1>6, <1>7

LEMMA KfreeInv ==
  ASSUME IInv, NEW ptr, Kfree(ptr)
  PROVE  IInv'
<1>0. TypeOK /\ BlocksApart /\ HeapCovered
  BY DEF IInv
<1>1. PICK k \in DOMAIN free_list :
        free_list' = [free_list EXCEPT ![k] = [free_list[k] EXCEPT !.is_free = TRUE]]
  BY DEF Kfree
<1> DEFINE b == free_list[k]
           w == [b EXCEPT !.is_free = TRUE]
<1>2. free_list \in Seq(Blocks) /\ b \in Blocks
  BY <1>0 DEF TypeOK
<1>3. w \in Blocks /\ w.at = b.at /\ w.size = b.size
  BY <1>2 DEF Blocks
<1> HIDE DEF w
<1>4. /\ free_list' \in Seq(Blocks) /\ DOMAIN free_list' = DOMAIN free_list
      /\ \A j \in DOMAIN free_list : free_list'[j] = IF j = k THEN w ELSE free_list[j]
  BY <1>1, <1>2, <1>3 DEF w
<1>5. BlocksApart' /\ HeapCovered'
  BY <1>0, <1>3, <1>4, SameBlocks DEF Kfree
<1> QED BY <1>0, <1>4, <1>5 DEF IInv, TypeOK, Kfree

LEMMA NextInv == IInv /\ [Next]_vars => IInv'
<1> SUFFICES ASSUME IInv, [Next]_vars PROVE IInv'
  OBVIOUS
<1>1. ASSUME NEW size \in Sizes, Kmalloc(size) PROVE IInv'
  BY <1>1, SameBlocks, SizesAssumption DEF IInv, TypeOK, Kmalloc
<1>2. CASE KmallocExpand
  BY <1>2, ExpandInv
<1>3. CASE KmallocReturn
  BY <1>3, ReturnInv
<1>4. ASSUME NEW ptr \in Pointers, Kfree(ptr) PROVE IInv'
  BY <1>4, KfreeInv
<1>5. CASE UNCHANGED vars
  BY <1>5, SameBlocks DEF IInv, TypeOK, vars
<1> QED BY <1>1, <1>2, <1>3, <1>4, <1>5 DEF Next

(* The invariant holds in every reachable state. *)
THEOREM Invariant == Spec => []IInv
BY InitInv, NextInv, PTL DEF Spec

-----------------------------------------------------------------------------
(* What it gives. *)

(* The list of heap.c is a list of blocks with room for their headers. *)
THEOREM Typing == Spec => []TypeOK
<1>1. IInv => TypeOK
  BY DEF IInv
<1> QED BY <1>1, Invariant, PTL

(* No two blocks of the heap overlap, however it was expanded and split.   *)
THEOREM BlocksApartHolds == Spec => []BlocksApart
<1>1. IInv => BlocksApart
  BY DEF IInv
<1> QED BY <1>1, Invariant, PTL

(* The blocks of the list cover the heap up to current_heap_end.           *)
THEOREM HeapCoveredHolds == Spec => []HeapCovered
<1>1. IInv => HeapCovered
  BY DEF IInv
<1> QED BY <1>1, Invariant, PTL

(* kmalloc(), having expanded the heap, finds a block that fits.           *)
THEOREM RetrySucceedsHolds == Spec => RetrySucceeds
<1>1. ASSUME IInv, Next, current_heap_end' # current_heap_end
      PROVE  Fits(TotalSize(request))' # {}
  <2>1. KmallocExpand
    BY <1>1 DEF Next, Kmalloc, KmallocReturn, Kfree
  <2>2. free_list \in Seq(Blocks) /\ request \in Nat /\ request' = request
    BY <1>1, <2>1 DEF IInv, TypeOK, KmallocExpand
  <2> DEFINE total == TotalSize(request)
             b == [at |-> current_heap_end, size |-> Growth(total), is_free |-> TRUE]
  <2>3. Growth(total) >= total
    BY <2>2, GrowthBound
  <2>4. free_list' = <<b>> \o free_list
    BY <2>1 DEF KmallocExpand, Expand
  <2>5. TypeOK'
    BY <1>1, NextInv DEF IInv
  <2>6. 1 \in DOMAIN free_list' /\ free_list'[1] = b
    <3> HIDE DEF b
    <3> QED BY <2>2, <2>4
  <2>7. TotalSize(request)' = total
    BY <2>2 DEF TotalSize, RoundUp
  <2>8. 1 \in Fits(total)'
    BY <2>3, <2>6, <2>7 DEF Fits
  <2> QED BY <2>7, <2>8
<1>2. IInv /\ [Next]_vars => [current_heap_end' # current_heap_end => Fits(TotalSize(request))' # {}]_vars
  BY <1>1
<1> QED BY <1>2, Invariant, PTL DEF Spec, RetrySucceeds

-----------------------------------------------------------------------------
(* The refinement of Allocator: multiples of the alignment. *)

Multiple(n) == \E q \in Int : n = q * Align

LEMMA MultipleSum ==
  ASSUME NEW m, NEW n, Multiple(m), Multiple(n)
  PROVE  Multiple(m + n) /\ Multiple(m - n)
<1>1. PICK p \in Int, q \in Int : m = p * Align /\ n = q * Align
  BY DEF Multiple
<1>2. Align \in Int
  BY AlignAssumption
<1>3. m + n = (p + q) * Align /\ m - n = (p - q) * Align
  BY <1>1, <1>2
<1>4. p + q \in Int /\ p - q \in Int
  OBVIOUS
<1> QED BY <1>3, <1>4 DEF Multiple

LEMMA MultipleProduct ==
  ASSUME NEW k \in Int, NEW n \in Int, Multiple(n)
  PROVE  Multiple(k * n)
<1>1. PICK q \in Int : n = q * Align
  BY DEF Multiple
<1>2. k * n = (k * q) * Align /\ k * q \in Int
  BY <1>1, AlignAssumption
<1> QED BY <1>2 DEF Multiple

LEMMA MultipleMod ==
  ASSUME NEW n \in Nat
  PROVE  Multiple(n) <=> n % Align = 0
<1> DEFINE d == n \div Align
           r == n % Align
<1>1. Align \in Nat /\ Align > 0
  BY AlignAssumption
<1>2. d \in Int /\ n = Align * d + r /\ r \in 0 .. Align - 1
  BY <1>1
<1> HIDE DEF d, r
<1>3. ASSUME r = 0 PROVE Multiple(n)
  <2>1. n = d * Align
    BY <1>1, <1>2, <1>3
  <2> QED BY <1>2, <2>1 DEF Multiple
<1>4. ASSUME Multiple(n) PROVE r = 0
  <2>1. PICK q \in Int : n = q * Align
    BY <1>4 DEF Multiple
  <2> DEFINE e == q - d
  <2>2. e \in Int /\ e * Align = r
    BY <1>1, <1>2, <2>1
  <2> HIDE DEF e
  <2>3. CASE e >= 1
    <3>1. e * Align >= Align
      BY <1>1, <2>2, <2>3
    <3> QED BY <1>1, <1>2, <2>2, <3>1
  <2>4. CASE e <= -1
    <3>1. e * Align <= -1
      BY <1>1, <2>2, <2>4
    <3> QED BY <1>1, <1>2, <2>2, <3>1
  <2>5. CASE e = 0
    BY <1>1, <2>2, <2>5
  <2> QED BY <2>2, <2>3, <2>4, <2>5
<1> QED BY <1>3, <1>4 DEF r

LEMMA MultipleSizes ==
  /\ Multiple(PAGE_SIZE) /\ Multiple(HeaderSize) /\ Multiple(HEAP_START_VA)
  /\ \A n \in Nat : TotalSize(n) \in Nat /\ Multiple(TotalSize(n))
  /\ \A n \in Nat : Growth(n) \in Nat /\ Multiple(Growth(n))
<1>1. Align \in Nat \ {0} /\ PAGE_SIZE \in Nat \ {0} /\ HeaderSize \in Nat /\ HEAP_START_VA \in Nat
  BY AlignAssumption, PageAssumption, HeaderAssumption, StartAssumption
<1>2. Multiple(PAGE_SIZE) /\ Multiple(HeaderSize) /\ Multiple(HEAP_START_VA)
  BY <1>1, AlignedAssumption, MultipleMod
<1>3. ASSUME NEW n \in Nat PROVE TotalSize(n) \in Nat /\ Multiple(TotalSize(n))
  <2>1. (n + Align - 1) \div Align \in Int
    BY <1>1
  <2>2. Multiple(RoundUp(n, Align))
    BY <2>1 DEF RoundUp, Multiple
  <2> QED BY <1>2, <2>2, MultipleSum, TotalSizeBound DEF TotalSize
<1>4. ASSUME NEW n \in Nat PROVE Growth(n) \in Nat /\ Multiple(Growth(n))
  <2>1. (n + PAGE_SIZE - 1) \div PAGE_SIZE \in Int
    BY <1>1
  <2>2. Multiple(RoundUp(n, PAGE_SIZE))
    BY <1>1, <1>2, <2>1, MultipleProduct DEF RoundUp
  <2> QED BY <1>1, <2>2, RoundUpBound DEF Growth
<1> QED BY <1>2, <1>3, <1>4

-----------------------------------------------------------------------------
(* What a call does to the set of blocks. *)

BlocksOf(list) == {list[k] : k \in DOMAIN list}

LEMMA BlockTypes ==
  ASSUME IInv
  PROVE  /\ free_list \in Seq(Blocks) /\ Len(free_list) \in Nat
         /\ DOMAIN free_list = 1 .. Len(free_list)
         /\ \A k \in DOMAIN free_list :
              /\ free_list[k] \in Blocks
              /\ free_list[k].at \in Nat /\ free_list[k].size \in Nat
              /\ free_list[k].is_free \in BOOLEAN
              /\ free_list[k].size >= HeaderSize
              /\ Span(free_list[k]) \subseteq HEAP_START_VA .. current_heap_end - 1
<1>1. free_list \in Seq(Blocks)
  BY DEF IInv, TypeOK
<1>2. \A k \in DOMAIN free_list : free_list[k] \in Blocks
  BY <1>1
<1>3. \A k \in DOMAIN free_list :
         Span(free_list[k]) \subseteq HEAP_START_VA .. current_heap_end - 1
  BY DEF IInv, HeapCovered
<1> QED BY <1>1, <1>2, <1>3 DEF Blocks

LEMMA Expanded ==
  ASSUME IInv, KmallocExpand
  PROVE  BlocksOf(free_list') =
           BlocksOf(free_list) \cup
             {[at |-> current_heap_end, size |-> Growth(TotalSize(request)), is_free |-> TRUE]}
<1> DEFINE b == [at |-> current_heap_end, size |-> Growth(TotalSize(request)), is_free |-> TRUE]
           n == Len(free_list)
<1>1. free_list' = <<b>> \o free_list
  BY DEF KmallocExpand, Expand
<1>2. b \in Blocks
  <2>1. request \in Nat /\ current_heap_end \in Nat
    BY DEF IInv, TypeOK
  <2>2. /\ Growth(TotalSize(request)) \in Nat
        /\ Growth(TotalSize(request)) >= TotalSize(request)
        /\ TotalSize(request) \in Nat /\ TotalSize(request) >= HeaderSize
    BY <2>1, GrowthBound, TotalSizeBound
  <2>3. Growth(TotalSize(request)) >= HeaderSize
    BY <2>2, HeaderAssumption
  <2> QED BY <2>1, <2>2, <2>3 DEF Blocks
<1> HIDE DEF b
<1>3. <<b>> \in Seq(Blocks) /\ Len(<<b>>) = 1 /\ <<b>>[1] = b
  BY <1>2
<1>4. free_list \in Seq(Blocks) /\ n \in Nat /\ DOMAIN free_list = 1 .. n
  BY BlockTypes
<1>5. /\ free_list' \in Seq(Blocks) /\ Len(free_list') = 1 + n
      /\ \A k \in 1 .. 1 + n : free_list'[k] = IF k <= 1 THEN <<b>>[k] ELSE free_list[k - 1]
  BY ONLY <1>1, <1>3, <1>4, ConcatProperties
<1>6. /\ DOMAIN free_list' = 1 .. n + 1 /\ free_list'[1] = b
      /\ \A k \in 2 .. n + 1 : k - 1 \in 1 .. n /\ free_list'[k] = free_list[k - 1]
      /\ \A k \in 1 .. n : k + 1 \in 2 .. n + 1 /\ free_list'[k + 1] = free_list[k]
  <2>1. DOMAIN free_list' = 1 .. n + 1
    BY ONLY <1>4, <1>5
  <2>2. free_list'[1] = b
    BY ONLY <1>3, <1>4, <1>5
  <2>3. ASSUME NEW k \in 2 .. n + 1
        PROVE  k - 1 \in 1 .. n /\ free_list'[k] = free_list[k - 1]
    <3>1. k \in 1 .. 1 + n /\ ~(k <= 1) /\ k - 1 \in 1 .. n
      BY ONLY <1>4, k \in 2 .. n + 1
    <3> QED BY ONLY <1>5, <3>1
  <2>4. ASSUME NEW k \in 1 .. n
        PROVE  k + 1 \in 2 .. n + 1 /\ free_list'[k + 1] = free_list[k]
    <3>1. k + 1 \in 2 .. n + 1 /\ (k + 1) - 1 = k
      BY ONLY <1>4, k \in 1 .. n
    <3> QED BY <2>3, <3>1
  <2> QED BY ONLY <2>1, <2>2, <2>3, <2>4
<1>7. 1 \in 1 .. n + 1 /\ 2 .. n + 1 \subseteq 1 .. n + 1
      /\ \A k \in 1 .. n + 1 : k = 1 \/ k \in 2 .. n + 1
  BY <1>4
<1>8. BlocksOf(free_list') = BlocksOf(free_list) \cup {b}
  BY <1>4, <1>6, <1>7 DEF BlocksOf
<1> QED BY <1>8 DEF b

(* A block k becomes f, with its rest behind it if it was cut.             *)
Cut(k, f, rest) ==
  LET b == free_list[k]
      total == TotalSize(request)
  IN /\ b.is_free /\ b.size >= total
     /\ f.at = b.at /\ ~f.is_free
     /\ f.size \in {total, b.size}
     /\ \A r \in rest : r.is_free /\ r.at = b.at + total /\ r.size = b.size - total
     /\ BlocksOf(free_list') =
          {free_list[j] : j \in DOMAIN free_list \ {k}} \cup {f} \cup rest
     /\ ret' = Payload(b)

LEMMA Returned ==
  ASSUME IInv, KmallocReturn
  PROVE  \E k \in DOMAIN free_list, f \in Blocks, rest \in SUBSET Blocks : Cut(k, f, rest)
<1> DEFINE total == TotalSize(request)
           n == Len(free_list)
<1>1. PICK k \in Fits(total) : free_list' = Take(k, total) /\ ret' = Payload(free_list[k])
  BY DEF KmallocReturn
<1> DEFINE b == free_list[k]
<1>2. /\ k \in 1 .. n /\ k \in DOMAIN free_list /\ n \in Nat /\ DOMAIN free_list = 1 .. n
      /\ free_list \in Seq(Blocks)
      /\ b \in Blocks /\ b.at \in Nat /\ b.size \in Nat /\ b.size >= HeaderSize
      /\ b.is_free /\ b.size >= total
  BY BlockTypes DEF Fits
<1>3. total \in Nat /\ total >= HeaderSize /\ HeaderSize \in Nat
  BY TotalSizeBound, HeaderAssumption DEF IInv, TypeOK
<1> HIDE DEF total
<1>4. CASE ~Splits(b, total)
  <2> DEFINE f == Taken(b, b.size)
  <2>1. free_list' = [free_list EXCEPT ![k] = f]
    BY <1>1, <1>4 DEF Take
  <2>2. f \in Blocks /\ f.at = b.at /\ f.size = b.size /\ ~f.is_free
    BY <1>2 DEF Taken, Blocks
  <2> HIDE DEF f
  <2>3. /\ DOMAIN free_list' = DOMAIN free_list /\ free_list'[k] = f
        /\ \A j \in DOMAIN free_list \ {k} : free_list'[j] = free_list[j]
    BY <1>2, <2>1
  <2>4. BlocksOf(free_list') = {free_list[j] : j \in DOMAIN free_list \ {k}} \cup {f} \cup {}
    BY <1>2, <2>3 DEF BlocksOf
  <2>5. Cut(k, f, {})
    BY <1>1, <1>2, <2>2, <2>4 DEF Cut, total
  <2> QED BY <1>2, <2>2, <2>5
<1>5. CASE Splits(b, total)
  <2> DEFINE f == Taken(b, total)
             r == [at |-> b.at + total, size |-> b.size - total, is_free |-> TRUE]
             s == [free_list EXCEPT ![k] = f]
  <2>1. b.size >= total + HeaderSize
    BY <1>2, <1>3, <1>5, AlignAssumption DEF Splits
  <2>2. /\ f \in Blocks /\ f.at = b.at /\ f.size = total /\ ~f.is_free
        /\ r \in Blocks /\ r.is_free /\ r.at = b.at + total /\ r.size = b.size - total
    BY <1>2, <1>3, <2>1 DEF Taken, Blocks
  <2> PICK m \in Int : m = k + 1
    BY <1>2
  <2>3. free_list' = InsertAt(s, m, r)
    BY <1>1, <1>5 DEF Take, Rest
  <2> HIDE DEF f, r
  <2>4. /\ s \in Seq(Blocks) /\ Len(s) = n /\ DOMAIN s = 1 .. n
        /\ \A j \in 1 .. n : s[j] = IF j = k THEN f ELSE free_list[j]
    BY <1>2, <2>2
  <2> HIDE DEF s
  <2>5. m \in 1 .. Len(s) + 1 /\ m \in Int /\ m = k + 1
    BY <1>2, <2>4
  <2>list. Inserted(s, m, r, free_list')
    BY <2>2, <2>3, <2>4, <2>5, InsertedBlock
  <2>6. /\ free_list' \in Seq(Blocks) /\ Len(free_list') = n + 1
        /\ free_list'[m] = r
    BY ONLY <2>4, <2>list DEF Inserted
  <2>7. \A j \in 1 .. m - 1 : free_list'[j] = s[j]
    BY ONLY <2>list DEF Inserted
  <2>8. \A j \in m + 1 .. n + 1 : free_list'[j] = s[j - 1]
    BY ONLY <2>4, <2>list DEF Inserted
  <2>9. DOMAIN free_list' = 1 .. n + 1
    BY <1>2, <2>6
  <2>10. /\ \A j \in 1 .. m - 1 : j \in 1 .. n /\ j \in 1 .. n + 1
         /\ \A j \in m + 1 .. n + 1 : j - 1 \in 1 .. n /\ j - 1 # k /\ j \in 1 .. n + 1
         /\ \A j \in 1 .. n + 1 : j \in 1 .. m - 1 \/ j = m \/ j \in m + 1 .. n + 1
         /\ \A j \in 1 .. n : j \in 1 .. m - 1 \/ j + 1 \in m + 1 .. n + 1
         /\ \A j \in Int : j + 1 - 1 = j
         /\ k \in 1 .. m - 1 /\ m \in 1 .. n + 1
    BY <1>2, <2>5
  <2>11. ASSUME NEW x \in BlocksOf(free_list')
         PROVE  x \in {free_list[j] : j \in DOMAIN free_list \ {k}} \cup {f} \cup {r}
    <3>1. PICK j \in 1 .. n + 1 : x = free_list'[j]
      BY <2>9 DEF BlocksOf
    <3>2. CASE j \in 1 .. m - 1
      BY <1>2, <2>4, <2>7, <2>10, <3>1, <3>2
    <3>3. CASE j = m
      BY <2>6, <3>1, <3>3
    <3>4. CASE j \in m + 1 .. n + 1
      <4>1. j - 1 \in 1 .. n /\ j - 1 # k /\ free_list'[j] = s[j - 1]
        BY <2>8, <2>10, <3>4
      <4> QED BY <1>2, <2>4, <3>1, <4>1
    <3> QED BY <2>10, <3>2, <3>3, <3>4
  <2>12. ASSUME NEW j \in 1 .. n PROVE s[j] \in BlocksOf(free_list')
    <3>1. CASE j \in 1 .. m - 1
      BY <2>7, <2>9, <2>10, <3>1 DEF BlocksOf
    <3>2. CASE j + 1 \in m + 1 .. n + 1
      <4>1. free_list'[j + 1] = s[j] /\ j + 1 \in 1 .. n + 1
        BY <2>8, <2>10, <3>2
      <4> QED BY <2>9, <4>1 DEF BlocksOf
    <3> QED BY <2>10, <3>1, <3>2
  <2>13. r \in BlocksOf(free_list')
    BY <2>6, <2>9, <2>10 DEF BlocksOf
  <2>14. BlocksOf(free_list') =
           {free_list[j] : j \in DOMAIN free_list \ {k}} \cup {f} \cup {r}
    BY <1>2, <2>4, <2>11, <2>12, <2>13
  <2>15. Cut(k, f, {r})
    BY <1>1, <1>2, <2>2, <2>14 DEF Cut, total
  <2> QED BY <1>2, <2>2, <2>15
<1> QED BY <1>4, <1>5

-----------------------------------------------------------------------------
(* The invariant: blocks are aligned, and the heap is within its limit.    *)

AlignedBlocks(list) == \A b \in BlocksOf(list) : Multiple(b.at) /\ Multiple(b.size)

Limit == HEAP_START_VA + MaxPages * PAGE_SIZE

Aligned ==
  /\ AlignedBlocks(free_list)
  /\ Multiple(current_heap_end)
  /\ current_heap_end <= Limit

LEMMA InitBlocks ==
  Init => BlocksOf(free_list) = {[at |-> HEAP_START_VA, size |-> PAGE_SIZE, is_free |-> TRUE]}
<1> DEFINE b == [at |-> HEAP_START_VA, size |-> PAGE_SIZE, is_free |-> TRUE]
<1>1. ASSUME Init PROVE DOMAIN free_list = {1} /\ free_list[1] = b
  BY <1>1 DEF Init
<1> HIDE DEF b
<1>2. Init => BlocksOf(free_list) = {b}
  BY <1>1 DEF BlocksOf
<1> QED BY <1>2 DEF b

LEMMA InitAligned == Init => Aligned
<1> SUFFICES ASSUME Init PROVE Aligned
  OBVIOUS
<1> DEFINE b == [at |-> HEAP_START_VA, size |-> PAGE_SIZE, is_free |-> TRUE]
<1>1. BlocksOf(free_list) = {b}
  BY InitBlocks
<1>2. Multiple(b.at) /\ Multiple(b.size)
  BY MultipleSizes
<1>3. Multiple(HEAP_START_VA + PAGE_SIZE)
  BY MultipleSizes, MultipleSum
<1>4. PAGE_SIZE <= MaxPages * PAGE_SIZE /\ MaxPages * PAGE_SIZE \in Nat
  BY MaxPagesAssumption, PageAssumption
<1>5. HEAP_START_VA + PAGE_SIZE <= Limit
  BY <1>4, StartAssumption, PageAssumption DEF Limit
<1> QED BY <1>1, <1>2, <1>3, <1>5 DEF Aligned, AlignedBlocks, Init

(* Two blocks of the list do not start at the same address.                *)
LEMMA StartsDiffer ==
  ASSUME IInv, NEW j \in DOMAIN free_list, NEW k \in DOMAIN free_list, j # k
  PROVE  free_list[j].at # free_list[k].at
<1>1. /\ free_list[j].at \in Span(free_list[j])
      /\ free_list[k].at \in Span(free_list[k])
  BY BlockTypes, HeaderAssumption DEF Span
<1>2. Span(free_list[j]) \cap Span(free_list[k]) = {}
  BY DEF IInv, BlocksApart
<1> QED BY <1>1, <1>2

(* The chunk of a block. *)
Chunk(b) == [at |-> Payload(b), len |-> b.size - HeaderSize]

ChunksOf(list) == {Chunk(b) : b \in {x \in BlocksOf(list) : ~x.is_free}}

LEMMA ChunksAre == Chunks = ChunksOf(free_list) /\ Chunks' = ChunksOf(free_list')
<1>1. Chunks = ChunksOf(free_list)
  BY DEF Chunks, ChunksOf, BlocksOf, Chunk
<1>2. Chunks' = ChunksOf(free_list')
  BY DEF Chunks, ChunksOf, BlocksOf, Chunk, Payload
<1> QED BY <1>1, <1>2

LEMMA ChunkSpan ==
  ASSUME NEW b \in Blocks
  PROVE  Contract!Span(Chunk(b)) \subseteq Span(b) /\ Chunk(b).at = b.at + HeaderSize
BY HeaderAssumption DEF Contract!Span, Span, Chunk, Payload, Blocks

-----------------------------------------------------------------------------
(* The calls. *)

LEMMA ExpandStep ==
  ASSUME IInv, Aligned, KmallocExpand PROVE Aligned' /\ UNCHANGED Contract!vars
<1> DEFINE g == Growth(TotalSize(request))
           b == [at |-> current_heap_end, size |-> g, is_free |-> TRUE]
<1>1. /\ current_heap_end' = current_heap_end + g /\ current_heap_end + g <= Limit
      /\ UNCHANGED <<request, ret>>
  BY DEF KmallocExpand, Expand, Limit
<1>2. Multiple(g)
  BY MultipleSizes DEF IInv, TypeOK
<1>3. BlocksOf(free_list') = BlocksOf(free_list) \cup {b}
  BY Expanded
<1> HIDE DEF g
<1>4. Multiple(b.at) /\ Multiple(b.size)
  BY <1>2 DEF Aligned
<1>5. AlignedBlocks(free_list')
  BY <1>3, <1>4 DEF Aligned, AlignedBlocks
<1>6. Multiple(current_heap_end')
  BY <1>1, <1>2, MultipleSum DEF Aligned
<1>7. current_heap_end' <= Limit
  BY <1>1
<1>8. ChunksOf(free_list') = ChunksOf(free_list)
  BY <1>3 DEF ChunksOf
<1> QED BY <1>1, <1>5, <1>6, <1>7, <1>8, ChunksAre DEF Aligned, Limit, Contract!vars

LEMMA KmallocStep ==
  ASSUME IInv, Aligned, NEW size \in Sizes, Kmalloc(size)
  PROVE  Aligned' /\ Contract!Next
<1>1. UNCHANGED <<free_list, current_heap_end, ret>> /\ request = 0 /\ request' = size
  BY DEF Kmalloc
<1>2. Chunks' = Chunks
  BY <1>1, ChunksAre
<1>3. Contract!Ask
  BY <1>1, <1>2 DEF Contract!Ask
<1> QED BY <1>1, <1>3 DEF Aligned, Limit, Contract!Next

LEMMA ReturnStep ==
  ASSUME IInv, Aligned, KmallocReturn PROVE Aligned' /\ Contract!Next
<1>1. PICK k \in DOMAIN free_list, f \in Blocks, rest \in SUBSET Blocks : Cut(k, f, rest)
  BY Returned
<1> DEFINE b == free_list[k]
           total == TotalSize(request)
           c == Chunk(f)
<1>2. /\ b.is_free /\ b.size >= total /\ f.at = b.at /\ ~f.is_free /\ f.size \in {total, b.size}
      /\ \A r \in rest : r.is_free /\ r.at = b.at + total /\ r.size = b.size - total
      /\ BlocksOf(free_list') =
           {free_list[j] : j \in DOMAIN free_list \ {k}} \cup {f} \cup rest
      /\ ret' = Payload(b)
  BY <1>1 DEF Cut
<1>3. /\ b \in Blocks /\ b.at \in Nat /\ b.size \in Nat /\ b.size >= HeaderSize
      /\ b \in BlocksOf(free_list)
      /\ Span(b) \subseteq HEAP_START_VA .. current_heap_end - 1
  BY BlockTypes DEF BlocksOf
<1>4. /\ request \in Nat /\ total \in Nat /\ Multiple(total)
      /\ total >= request + HeaderSize
      /\ HeaderSize \in Nat /\ HeaderSize > 0
  <2>1. request \in Nat
    BY DEF IInv, TypeOK
  <2>2. RoundUp(request, Align) \in Nat /\ RoundUp(request, Align) >= request
    BY <2>1, RoundUpBound, AlignAssumption
  <2> QED BY <2>1, <2>2, MultipleSizes, HeaderAssumption DEF TotalSize
<1>5. Multiple(b.at) /\ Multiple(b.size)
  BY <1>3 DEF Aligned, AlignedBlocks
<1> HIDE DEF total
<1>6. AlignedBlocks(free_list')
  <2>1. Multiple(f.at) /\ Multiple(f.size)
    BY <1>2, <1>4, <1>5
  <2>2. \A r \in rest : Multiple(r.at) /\ Multiple(r.size)
    BY <1>2, <1>4, <1>5, MultipleSum
  <2>3. \A j \in DOMAIN free_list : Multiple(free_list[j].at) /\ Multiple(free_list[j].size)
    BY DEF Aligned, AlignedBlocks, BlocksOf
  <2> QED BY <1>2, <2>1, <2>2, <2>3 DEF AlignedBlocks
<1>7. Aligned'
  BY <1>6 DEF Aligned, Limit, KmallocReturn
<1>8. ChunksOf(free_list') = ChunksOf(free_list) \cup {c}
  <2>1. {x \in BlocksOf(free_list') : ~x.is_free} =
          {x \in BlocksOf(free_list) : ~x.is_free} \cup {f}
    BY <1>2 DEF BlocksOf
  <2> QED BY <2>1 DEF ChunksOf
<1>9. c.at = b.at + HeaderSize /\ Contract!Span(c) \subseteq Span(b)
  <2>1. f.at \in Nat /\ f.size \in Nat /\ f.size <= b.size
    BY <1>1, <1>2, <1>3 DEF Blocks
  <2>2. Span(f) \subseteq Span(b)
    BY <1>2, <1>3, <2>1 DEF Span
  <2> QED BY <1>2, <2>2, ChunkSpan
<1>10. c.len >= request
  BY <1>2, <1>3, <1>4 DEF Chunk
<1>11. ASSUME NEW d \in Chunks
       PROVE  Contract!Span(c) \cap Contract!Span(d) = {} /\ d.at # c.at
  <2>1. PICK j \in DOMAIN free_list : ~free_list[j].is_free /\ d = Chunk(free_list[j])
    BY ChunksAre DEF ChunksOf, BlocksOf
  <2>2. j # k
    BY <1>2, <2>1
  <2>3. free_list[j] \in Blocks /\ free_list[j].at \in Nat
    BY BlockTypes
  <2>4. Contract!Span(d) \subseteq Span(free_list[j]) /\ d.at = free_list[j].at + HeaderSize
    BY <2>1, <2>3, ChunkSpan
  <2>5. Span(free_list[j]) \cap Span(b) = {} /\ free_list[j].at # b.at
    BY <2>2, StartsDiffer DEF IInv, BlocksApart
  <2> QED BY <1>3, <1>4, <1>9, <2>3, <2>4, <2>5
<1>12. c.at \in HEAP_START_VA .. Limit /\ c.at % Align = 0
  <2>1. b.at \in Span(b) /\ b.at + b.size - 1 \in Span(b)
    BY <1>3, <1>4 DEF Span
  <2>2. current_heap_end \in Nat /\ current_heap_end <= Limit /\ Limit \in Int
    BY StartAssumption, MaxPagesAssumption, PageAssumption DEF Aligned, IInv, TypeOK, Limit
  <2>3. c.at \in HEAP_START_VA .. Limit /\ c.at \in Nat
    BY <1>3, <1>4, <1>9, <2>1, <2>2, StartAssumption
  <2>4. Multiple(c.at)
    BY <1>5, <1>9, MultipleSizes, MultipleSum
  <2> QED BY <2>3, <2>4, MultipleMod
<1>13. Contract!Grant
  <2>1. Chunks' = Chunks \cup {c} /\ c \in Chunks' \ Chunks
    BY <1>8, <1>11, ChunksAre
  <2>2. ret' = c.at /\ request # 0 /\ request' = 0
    BY <1>2, <1>9 DEF Payload, KmallocReturn
  <2> HIDE DEF c
  <2>3. c.at \in HEAP_START_VA .. HEAP_START_VA + MaxPages * PAGE_SIZE
    BY <1>12 DEF Limit
  <2> QED BY <1>10, <1>11, <1>12, <2>1, <2>2, <2>3 DEF Contract!Grant
<1> QED BY <1>7, <1>13 DEF Contract!Next

LEMMA KfreeStep ==
  ASSUME IInv, Aligned, NEW ptr, Kfree(ptr) PROVE Aligned' /\ Contract!Next
<1>1. PICK k \in DOMAIN free_list :
        /\ ~free_list[k].is_free
        /\ free_list' = [free_list EXCEPT ![k] = [free_list[k] EXCEPT !.is_free = TRUE]]
  BY DEF Kfree
<1> DEFINE b == free_list[k]
           w == [b EXCEPT !.is_free = TRUE]
<1>2. b \in Blocks
  BY BlockTypes
<1>3. w.at = b.at /\ w.size = b.size /\ w.is_free
  BY <1>2 DEF Blocks
<1> HIDE DEF w
<1>4. /\ DOMAIN free_list' = DOMAIN free_list /\ free_list'[k] = w
      /\ \A j \in DOMAIN free_list \ {k} : free_list'[j] = free_list[j]
  BY <1>1, BlockTypes DEF w
<1>5. BlocksOf(free_list') = {free_list[j] : j \in DOMAIN free_list \ {k}} \cup {w}
  BY <1>4 DEF BlocksOf
<1>6. AlignedBlocks(free_list')
  BY <1>3, <1>5 DEF Aligned, AlignedBlocks, BlocksOf
<1>7. Aligned'
  BY <1>6 DEF Aligned, Limit, Kfree
<1>8. ASSUME NEW j \in DOMAIN free_list \ {k} PROVE Chunk(free_list[j]) # Chunk(b)
  <2>1. free_list[j].at # b.at /\ free_list[j].at \in Nat /\ b.at \in Nat
    BY StartsDiffer, BlockTypes
  <2> QED BY <2>1, HeaderAssumption DEF Chunk, Payload
<1>9. Chunks' = Chunks \ {Chunk(b)} /\ Chunk(b) \in Chunks
  <2>1. {x \in BlocksOf(free_list') : ~x.is_free} =
          {free_list[j] : j \in {l \in DOMAIN free_list \ {k} : ~free_list[l].is_free}}
    BY <1>3, <1>5
  <2>2. {x \in BlocksOf(free_list) : ~x.is_free} =
          {free_list[j] : j \in {l \in DOMAIN free_list \ {k} : ~free_list[l].is_free}} \cup {b}
    BY <1>1 DEF BlocksOf
  <2> QED BY <1>8, <2>1, <2>2, ChunksAre DEF ChunksOf
<1>10. Contract!Release
  BY <1>9 DEF Contract!Release, Kfree
<1> QED BY <1>7, <1>10 DEF Contract!Next

LEMMA NextContract ==
  IInv /\ Aligned /\ [Next]_vars => Aligned' /\ [Contract!Next]_(Contract!vars)
<1> SUFFICES ASSUME IInv, Aligned, [Next]_vars
             PROVE  Aligned' /\ (Contract!Next \/ UNCHANGED Contract!vars)
  OBVIOUS
<1>1. ASSUME NEW size \in Sizes, Kmalloc(size) PROVE Aligned' /\ Contract!Next
  BY <1>1, KmallocStep
<1>2. CASE KmallocExpand
  BY <1>2, ExpandStep
<1>3. CASE KmallocReturn
  BY <1>3, ReturnStep
<1>4. ASSUME NEW ptr \in Pointers, Kfree(ptr) PROVE Aligned' /\ Contract!Next
  BY <1>4, KfreeStep
<1>5. CASE UNCHANGED vars
  <2>1. UNCHANGED <<free_list, current_heap_end, request, ret>>
    BY <1>5 DEF vars
  <2>2. Chunks' = Chunks
    BY <2>1, ChunksAre
  <2> QED BY <2>1, <2>2 DEF Aligned, Limit, Contract!vars
<1> QED BY <1>1, <1>2, <1>3, <1>4, <1>5 DEF Next

LEMMA InitContract == Init => Contract!Init
<1> SUFFICES ASSUME Init PROVE Contract!Init
  OBVIOUS
<1>1. BlocksOf(free_list) = {[at |-> HEAP_START_VA, size |-> PAGE_SIZE, is_free |-> TRUE]}
  BY InitBlocks
<1>2. Chunks = {}
  BY <1>1, ChunksAre DEF ChunksOf
<1> QED BY <1>2 DEF Contract!Init, Init

(* kmalloc() hands out chunks that are long enough, aligned and apart, and *)
(* no later call touches one until kfree() has taken it back.              *)
THEOREM AllocatorImplemented == Spec => ImplementsAllocator
BY InitInv, NextInv, InitAligned, InitContract, NextContract, PTL
DEF Spec, ImplementsAllocator, Contract!Spec
=============================================================================
