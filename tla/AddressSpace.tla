---------------------------- MODULE AddressSpace ----------------------------
(***************************************************************************)
(* Frames, page tables and address spaces of the letsgo kernel: pmm.c and  *)
(* vmm.c, exec() and clone_user_pagetable() of proc.c, load_elf_map() of   *)
(* elf.c, the page faults of trap.c and the mappings of heap.c.            *)
(*                                                                         *)
(* pmm_alloc_frame() takes the first frame that is clear in the bitmap and *)
(* pmm_free_frame() has no caller: the frames in use are 1 .. Len(mem), in *)
(* the order they were handed out.  A frame holds a table or, if a page, a *)
(* word that stands for its bytes.                                         *)
(*                                                                         *)
(* An address is the three indices Sv39 makes of it.  Of the root table    *)
(* entry LOW is below 1 GiB, where the devices are, USER is where programs *)
(* are linked and have their stack, and KERN stands for the entries above: *)
(* the heap, and the RAM as the kernel sees it, which is left out.         *)
(*                                                                         *)
(* System calls and page faults run to completion and each is one step.    *)
(* When the frames run out the kernel panics, and the model stops.         *)
(***************************************************************************)
EXTENDS Integers, FiniteSets, Sequences, SequencesExt

CONSTANTS
  Procs,             \* the slots of the process table
  Indices,           \* the indices of a table: 0 .. 511
  NFrames,           \* total_pages
  DeviceVA,          \* a page of the devices
  FirstHeapVA,       \* the page heap_init() maps
  HeapVAs,           \* the pages the first exec() adds, for its buffer
  ImageVAs,          \* the pages of a program, in the order of its segments
  StackVA,
  Touched,           \* the addresses programs use
  Words              \* what they store

LOW == 0
USER == 1
KERN == 2

ASSUME IndicesAssumption == {LOW, USER, KERN} \subseteq Indices /\ Indices \subseteq Nat
VAs == Indices \X Indices \X Indices
ASSUME ProgramAssumption ==
  /\ ImageVAs \in Seq(VAs) /\ StackVA \in VAs /\ StackVA \notin ToSet(ImageVAs)
  /\ \A va \in ToSet(ImageVAs) \cup {StackVA} : va[1] = USER
ASSUME KernelAssumption ==
  /\ DeviceVA \in VAs /\ DeviceVA[1] = LOW
  /\ HeapVAs \in Seq(VAs) /\ FirstHeapVA \in VAs
  /\ \A va \in ToSet(HeapVAs) \cup {FirstHeapVA} : va[1] = KERN
ASSUME TouchedAssumption == Touched \subseteq {va \in VAs : va[1] \in {LOW, USER}} \ {DeviceVA}
ASSUME WordsAssumption == Words \subseteq Nat
(* The kernel itself starts with six; with fewer it panics in vmm_init().  *)
ASSUME FramesAssumption == NFrames \in Nat /\ NFrames >= 6

VARIABLES
  mem,               \* the frames in use
  grown,             \* the heap has been expanded for exec()'s buffer
  live,              \* the slots in use
  pagetable,         \* the root table of each, NULL for a kernel thread
  command            \* the child the shell waits for, NULL if none

vars == <<mem, grown, live, pagetable, command>>

NULL == 0
kernel_pagetable == 1
DEVICE == -1         \* what the pages of the devices are mapped to
ImageWord == 1       \* what the ELF file, or argv, has for a page

Entries == [to : Nat \cup {DEVICE}, kind : {"none", "table", "user", "kernel"}]
Invalid == [to |-> 0, kind |-> "none"]
Table(f) == [to |-> f, kind |-> "table"]
KernelPage(f) == [to |-> f, kind |-> "kernel"]

(* The frames m were all found in the bitmap; if not, the kernel panics.   *)
FoundOneMore(m) == Len(m) <= NFrames + 1

Found(m) == Len(m) <= NFrames

(* A frame as pmm_alloc_frame() hands it out. *)
Clear == [table |-> [i \in Indices |-> Invalid], word |-> 0]

TypeOK ==
  /\ mem \in Seq([table : [Indices -> Entries], word : Words \cup {0, ImageWord}])
  /\ Len(mem) <= NFrames
  /\ \A f \in DOMAIN mem : \A i \in Indices : mem[f].table[i].to <= Len(mem)
  /\ grown \in BOOLEAN
  /\ live \in SUBSET Procs
  /\ pagetable \in [Procs -> {NULL} \cup DOMAIN mem]
  /\ command \in live \cup {NULL}

-----------------------------------------------------------------------------
(* vmm.c.  The frames are a parameter: a call maps many pages. *)

(* The table behind entry i of table t exists: it is allocated if it does not. *)
WithTable(m, t, i) ==
  IF m[t].table[i] # Invalid THEN m
  ELSE Append([m EXCEPT ![t].table[i] = Table(Len(m) + 1)], Clear)

(* vmm_map_page() *)
MapPage(m, root, va, entry) ==
  LET m1 == WithTable(m, root, va[1])
      t1 == m1[root].table[va[1]].to
      m2 == WithTable(m1, t1, va[2])
      t2 == m2[t1].table[va[2]].to
  IN [m2 EXCEPT ![t2].table[va[3]] = entry]

(* A new frame with word w, mapped at va: for programs (a page fault, or a  *)
(* page of a segment), or for the kernel (its heap).                       *)
MapNew(m, root, va, w, kind) ==
  MapPage(Append(m, [Clear EXCEPT !.word = w]), root, va, [to |-> Len(m) + 1, kind |-> kind])

(* The same for each of vas, in this order. *)
MapAll(m, root, vas, w, kind) ==
  LET mapped[n \in 0 .. Len(vas)] ==
        IF n = 0 THEN m ELSE MapNew(mapped[n - 1], root, vas[n], w, kind)
  IN mapped[Len(vas)]

(* vmm_lookup_page(): the entry for va, Invalid if there is none. *)
Lookup(m, root, va) ==
  LET e1 == m[root].table[va[1]]
  IN IF e1 = Invalid THEN Invalid
     ELSE LET e2 == m[e1.to].table[va[2]]
          IN IF e2 = Invalid THEN Invalid ELSE m[e2.to].table[va[3]]

-----------------------------------------------------------------------------
(* clone_user_pagetable() *)

(* What the entries of table t with indices I and of the given kind point to. *)
Targets(t, I, kind) == {mem[t].table[i].to : i \in {j \in I : mem[t].table[j].kind = kind}}

(* The frames that get a copy: the tables below the first two entries of   *)
(* the root, and the pages of the program in them.                         *)
ClonedTables(root) ==
  LET upper == Targets(root, {LOW, USER}, "table")
  IN upper \cup UNION {Targets(t, Indices, "table") : t \in upper}

Cloned(root) ==
  ClonedTables(root) \cup UNION {Targets(t, Indices, "user") : t \in ClonedTables(root)}

(* An entry of a table that is copied, C being the frames that are: it     *)
(* points to the copy, or where it did.                                    *)
ClonedEntryShared(e, C, copy) ==
  IF e.to \in C /\ e.kind = "table" THEN [e EXCEPT !.to = copy[e.to]] ELSE e

ClonedEntryUserOnly(e, C, copy) == IF e.to \in C THEN [e EXCEPT !.to = copy[e.to]] ELSE Invalid

ClonedEntry(e, C, copy) == IF e.to \in C THEN [e EXCEPT !.to = copy[e.to]] ELSE e

(* What is copied of a page. *)
ClonedWordNot(f) == 0

ClonedWord(f) == mem[f].word

(* The frames with a clone of the address space of root, whose own copy is *)
(* the first that is added.                                                *)
Clone(root) ==
  LET C == Cloned(root)
      copy == [f \in C |-> Len(mem) + 1 + Cardinality({g \in C : g <= f})]
      frame(f) == [table |-> [i \in Indices |-> IF f = root /\ i \notin {LOW, USER}
                                                THEN mem[f].table[i]
                                                ELSE ClonedEntry(mem[f].table[i], C, copy)],
                   word |-> ClonedWord(f)]
      original(n) == IF n = 1 THEN root ELSE CHOOSE f \in C : copy[f] = Len(mem) + n
  IN mem \o [n \in 1 .. Cardinality(C) + 1 |-> frame(original(n))]

-----------------------------------------------------------------------------
(* Processes.  A slot is in use from allocproc() until it is reaped; when  *)
(* is the business of Proc. *)

Runs(p) == p \in live /\ pagetable[p] # NULL

(* The shell runs its next command when the last one is gone: its child is *)
(* a kernel thread, without a page table.                                  *)
ShellFork(q) ==
  /\ command = NULL
  /\ command' = q
  /\ q \notin live
  /\ live' = live \cup {q}
  /\ pagetable' = [pagetable EXCEPT ![q] = NULL]
  /\ UNCHANGED <<mem, grown>>

(* fork_from_trap() *)
Fork(p, q) ==
  /\ Runs(p)
  /\ q \notin live
  /\ Found(Clone(pagetable[p]))
  /\ mem' = Clone(pagetable[p])
  /\ live' = live \cup {q}
  /\ pagetable' = [pagetable EXCEPT ![q] = Len(mem) + 1]
  /\ UNCHANGED <<grown, command>>

(* The frames once exec() has its buffer: the first call expands the heap, *)
(* later ones find the block that was freed.                               *)
Buffer == IF grown THEN mem ELSE MapAll(mem, kernel_pagetable, HeapVAs, 0, "kernel")

(* A root table that shares all of the kernel's. *)
WithRoot(m) == Append(m, m[kernel_pagetable])

(* load_elf_map(): a new page for each page of the segments.               *)
Loaded(m, root) == MapAll(m, root, ImageVAs, ImageWord, "user")

(* exec() of a file that is a program: its pages, then one for the stack.  *)
Exec(p) ==
  LET root == Len(Buffer) + 1
      done == MapNew(Loaded(WithRoot(Buffer), root), root, StackVA, ImageWord, "user")
  IN /\ p \in live
     /\ Found(done)
     /\ mem' = done
     /\ pagetable' = [pagetable EXCEPT ![p] = root]
     /\ grown' = TRUE
     /\ UNCHANGED <<live, command>>

(* exec() of a file that is empty or no program: only the heap may grow. *)
BadExec(p) ==
  /\ p \in live
  /\ Found(Buffer)
  /\ mem' = Buffer
  /\ grown' = TRUE
  /\ UNCHANGED <<live, pagetable, command>>

(* A fault at an address that is not mapped: demand paging. *)
PageFault(p, va) ==
  LET m == MapNew(mem, pagetable[p], va, 0, "user")
  IN /\ Runs(p)
     /\ Lookup(mem, pagetable[p], va) = Invalid
     /\ Found(m)
     /\ mem' = m
     /\ UNCHANGED <<grown, live, pagetable, command>>

(* A store by the program, or by the kernel for it, at an address that is. *)
Store(p, va) ==
  /\ Runs(p)
  /\ Lookup(mem, pagetable[p], va).kind = "user"
  /\ \E w \in Words : mem' = [mem EXCEPT ![Lookup(mem, pagetable[p], va).to].word = w]
  /\ UNCHANGED <<grown, live, pagetable, command>>

(* The process is gone; nothing of what it had is freed. *)
Reaped(p) ==
  /\ p \in live
  /\ live' = live \ {p}
  /\ command' = IF p = command THEN NULL ELSE command
  /\ UNCHANGED <<mem, grown, pagetable>>

(* vmm_init() and heap_init() *)
Init ==
  /\ LET devices == MapPage(<<Clear>>, kernel_pagetable, DeviceVA, KernelPage(DEVICE))
     IN mem = MapNew(devices, kernel_pagetable, FirstHeapVA, 0, "kernel")
  /\ grown = FALSE
  /\ live = {}
  /\ pagetable = [p \in Procs |-> NULL]
  /\ command = NULL

Next ==
  \E p \in Procs :
    \/ ShellFork(p)
    \/ \E q \in Procs : Fork(p, q)
    \/ Exec(p)
    \/ BadExec(p)
    \/ Reaped(p)
    \/ \E va \in Touched : PageFault(p, va) \/ Store(p, va)

Spec == Init /\ [][Next]_vars

-----------------------------------------------------------------------------
(* Properties. *)

Running == {p \in Procs : Runs(p)}

(* The tables and pages behind entry i of root, and those of the kernel.   *)
Behind(root, i) ==
  LET upper == Targets(root, {i}, "table")
      lower == UNION {Targets(t, Indices, "table") : t \in upper}
      pages(t) == Targets(t, Indices, "user") \cup Targets(t, Indices, "kernel")
  IN upper \cup lower \cup UNION {pages(t) : t \in lower}

Own(p) == {pagetable[p]} \cup Behind(pagetable[p], USER)

(* From 1 GiB up a program's memory is its own: neither a page nor a table  *)
(* of it belongs to another process, or to the kernel's page table, through *)
(* any order of fork, exec, page faults and reuse of slots.                 *)
UserPartPrivate ==
  \A p \in Running :
    /\ \A i \in Indices : Own(p) \cap Behind(kernel_pagetable, i) = {}
    /\ \A q \in Running \ {p} : \A i \in Indices : Own(p) \cap Behind(pagetable[q], i) = {}

(* The kernel runs in every address space: the heap and the devices are    *)
(* mapped in each as in the kernel's own, whether its tables are shared    *)
(* with the kernel's (exec) or copied (fork), and the heap never grows by  *)
(* pages that some address space lacks.                                    *)
KernelMapped ==
  \A p \in Running : \A va \in ToSet(HeapVAs) \cup {FirstHeapVA, DeviceVA} :
    Lookup(mem, pagetable[p], va) = Lookup(mem, kernel_pagetable, va)

(* Below 1 GiB, too, no two programs have a page in common.                *)
LowPartPrivate ==
  \A p \in Running : \A q \in Running \ {p} : \A va \in Touched :
    LET e == Lookup(mem, pagetable[p], va)
    IN e # Invalid => e # Lookup(mem, pagetable[q], va)

(* What a program finds in a page: a page that is not there reads as the   *)
(* zeros it will be given.                                                 *)
Sees(p, va) ==
  LET e == Lookup(mem, pagetable[p], va) IN IF e = Invalid THEN 0 ELSE mem[e.to].word

UserPages == {va \in Touched : va[1] = USER}

Abstract == INSTANCE Memory WITH
              Pages <- UserPages,
              Image <- [va \in UserPages |->
                          IF va \in ToSet(ImageVAs) \cup {StackVA} THEN ImageWord ELSE 0],
              live <- Running,
              view <- [p \in Procs |-> [va \in UserPages |-> IF Runs(p) THEN Sees(p, va) ELSE 0]]

(* From 1 GiB up every step does to the memory of programs what Memory     *)
(* says: page faults, sharing and copying of tables do not show.           *)
ImplementsMemory == Abstract!Spec
=============================================================================
