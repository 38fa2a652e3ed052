-------------------------------- MODULE Heap --------------------------------
(***************************************************************************)
(* The dynamic memory of the letsgo kernel: heap.c, a first-fit allocator  *)
(* over blocks that carry their header in front of them and are linked in  *)
(* a list.  The list starts with the latest expansion, and is not in the   *)
(* order of the addresses.                                                 *)
(*                                                                         *)
(* kmalloc() is the step that calls it, a step for each time it has to     *)
(* expand the heap and start over, and the step that returns.  The frames  *)
(* come from pmm.c; when they run out the kernel panics, and the model     *)
(* stops as the kernel does.                                               *)
(***************************************************************************)
EXTENDS Integers, Sequences, SequencesExt

CONSTANTS
  PAGE_SIZE,
  HeaderSize,        \* sizeof(struct block_header): 24
  Align,             \* what requests are rounded up to: 8
  HEAP_START_VA,
  Sizes,             \* what callers ask for
  MaxPages           \* the frames there are for the heap

ASSUME PageAssumption == PAGE_SIZE \in Nat /\ PAGE_SIZE > HeaderSize
ASSUME HeaderAssumption == HeaderSize \in Nat \ {0}
ASSUME AlignAssumption == Align \in Nat \ {0}
ASSUME StartAssumption == HEAP_START_VA \in Nat
ASSUME SizesAssumption == Sizes \subseteq Nat \ {0}
ASSUME AlignedAssumption == \A n \in {PAGE_SIZE, HeaderSize, HEAP_START_VA} : n % Align = 0
ASSUME MaxPagesAssumption == MaxPages \in Nat \ {0}

VARIABLES
  free_list,         \* the blocks in the order of the list, [at, size, is_free]
  current_heap_end,
  request,           \* the argument of the kmalloc() under way, 0 if there is none
  ret                \* what the last kmalloc() returned

vars == <<free_list, current_heap_end, request, ret>>

(* A block has room for its header. *)
Blocks == {b \in [at : Nat, size : Nat, is_free : BOOLEAN] : b.size >= HeaderSize}

TypeOK ==
  /\ free_list \in Seq(Blocks)
  /\ current_heap_end \in Nat
  /\ request \in Nat
  /\ ret \in Nat

Payload(b) == b.at + HeaderSize

(* The smallest multiple of unit that is not below n. *)
RoundUp(n, unit) == ((n + unit - 1) \div unit) * unit

(* What a request takes: rounded up, and a header. *)
TotalSizeUnrounded(n) == n + HeaderSize

TotalSize(n) == RoundUp(n, Align) + HeaderSize

-----------------------------------------------------------------------------
(* What a request of total bytes makes of the heap: an expansion. *)
GrowthTooShort(total) == (total \div PAGE_SIZE) * PAGE_SIZE

Growth(total) == RoundUp(total, PAGE_SIZE)

(* expand_heap() *)
Expand(total) ==
  /\ current_heap_end + Growth(total) <= HEAP_START_VA + MaxPages * PAGE_SIZE
  /\ free_list' = <<[at |-> current_heap_end, size |-> Growth(total), is_free |-> TRUE]>>
                    \o free_list
  /\ current_heap_end' = current_heap_end + Growth(total)

(* The places in the list of the blocks a request of total bytes fits in. *)
Fits(total) == {k \in DOMAIN free_list : free_list[k].is_free /\ free_list[k].size >= total}

(* A block is split if the rest has room for a header and a word. *)
SplitsAlways(b, total) == TRUE

Splits(b, total) == b.size >= total + HeaderSize + Align

(* The rest. *)
RestOverlapping(b, total) ==
  [at |-> b.at + total - HeaderSize, size |-> b.size - total, is_free |-> TRUE]

RestTooShort(b, total) ==
  [at |-> b.at + total, size |-> b.size - total - HeaderSize, is_free |-> TRUE]

Rest(b, total) == [at |-> b.at + total, size |-> b.size - total, is_free |-> TRUE]

(* Block b once it is handed out with the given size. *)
Taken(b, n) == [at |-> b.at, size |-> n, is_free |-> FALSE]

(* The list once block k is handed out for total bytes; a rest follows it. *)
Take(k, total) ==
  LET b == free_list[k]
  IN IF Splits(b, total)
     THEN InsertAt([free_list EXCEPT ![k] = Taken(b, total)], k + 1, Rest(b, total))
     ELSE [free_list EXCEPT ![k] = Taken(b, b.size)]

-----------------------------------------------------------------------------
(* kmalloc(size): the call, ... *)
Kmalloc(size) ==
  /\ request = 0
  /\ request' = size
  /\ UNCHANGED <<free_list, current_heap_end, ret>>

(* ... a search that finds nothing, after which it calls itself again, ... *)
KmallocExpand ==
  /\ request # 0
  /\ Fits(TotalSize(request)) = {}
  /\ Expand(TotalSize(request))
  /\ UNCHANGED <<request, ret>>

(* ... and one that finds a block, the first that fits. *)
KmallocReturn ==
  /\ request # 0
  /\ \E k \in Fits(TotalSize(request)) :
       /\ \A j \in Fits(TotalSize(request)) : k <= j
       /\ free_list' = Take(k, TotalSize(request))
       /\ ret' = Payload(free_list[k])
  /\ request' = 0
  /\ UNCHANGED current_heap_end

(* kfree(ptr) of a block that was handed out. *)
Kfree(ptr) ==
  /\ request = 0
  /\ \E k \in DOMAIN free_list :
       /\ Payload(free_list[k]) = ptr
       /\ ~free_list[k].is_free
       /\ free_list' = [free_list EXCEPT ![k].is_free = TRUE]
  /\ UNCHANGED <<current_heap_end, request, ret>>

(* heap_init(): a first page. *)
Init ==
  /\ free_list = <<[at |-> HEAP_START_VA, size |-> PAGE_SIZE, is_free |-> TRUE]>>
  /\ current_heap_end = HEAP_START_VA + PAGE_SIZE
  /\ request = 0
  /\ ret = 0

Pointers == {Payload(free_list[k]) : k \in DOMAIN free_list}

Next ==
  \/ \E size \in Sizes : Kmalloc(size)
  \/ KmallocExpand
  \/ KmallocReturn
  \/ \E ptr \in Pointers : Kfree(ptr)

Spec == Init /\ [][Next]_vars

-----------------------------------------------------------------------------
(* Properties. *)

Span(b) == b.at .. b.at + b.size - 1

(* No two blocks of the list overlap: no header is inside another block,   *)
(* so that a write into a chunk that was handed out never damages the list.*)
BlocksApart ==
  \A j, k \in DOMAIN free_list : j # k => Span(free_list[j]) \cap Span(free_list[k]) = {}

(* No memory is lost by splitting blocks: every byte the heap has grown to *)
(* belongs to a block of the list, and no block reaches past its end.      *)
HeapCovered ==
  UNION {Span(free_list[k]) : k \in DOMAIN free_list} = HEAP_START_VA .. current_heap_end - 1

(* "After the expansion, call yourself again: this time it is sure to      *)
(* succeed" (heap.c:91): kmalloc() expands the heap at most once.          *)
RetrySucceeds ==
  [][current_heap_end' # current_heap_end => Fits(TotalSize(request))' # {}]_vars

(* What callers hold, read off the headers. *)
Chunks == {[at |-> Payload(free_list[k]), len |-> free_list[k].size - HeaderSize] :
             k \in {j \in DOMAIN free_list : ~free_list[j].is_free}}

Contract == INSTANCE Allocator WITH
              Addresses <- HEAP_START_VA .. HEAP_START_VA + MaxPages * PAGE_SIZE,
              chunks <- Chunks

(* The blocks that are not free are what Allocator says callers hold, and  *)
(* every call does to them what it says or nothing.                        *)
ImplementsAllocator == Contract!Spec
=============================================================================
