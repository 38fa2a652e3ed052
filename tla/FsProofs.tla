------------------------------ MODULE FsProofs ------------------------------
(***************************************************************************)
(* Theorems of Fs, for every size of its tables and every set of paths.    *)
(* Which inode a path resolves to does not matter here: an action that     *)
(* goes on has found one.                                                  *)
(***************************************************************************)
EXTENDS Fs, FiniteSetTheorems, SequenceTheorems, TLAPS

-----------------------------------------------------------------------------
(* Reference counts. *)

(* The descriptors that a table f has open on inode i. *)
Holders(f, i) == {fd \in FDs : f[fd].inode = i}

References ==
  /\ kind \in [Inodes -> {"FREE", "FILE", "DIR"}]
  /\ ref_count \in [Inodes -> Nat]
  /\ fds \in [FDs -> Descriptors]
  /\ \A i \in Inodes : ref_count[i] = Cardinality(Holders(fds, i))
  /\ NoStaleDescriptor

LEMMA FiniteHolders ==
  ASSUME NEW f, NEW i
  PROVE  IsFiniteSet(Holders(f, i)) /\ Cardinality(Holders(f, i)) \in Nat
<1>1. IsFiniteSet(FDs)
  BY FS_Interval, SizesAssumption DEF FDs
<1>2. IsFiniteSet(Holders(f, i))
  BY <1>1, FS_Subset DEF Holders
<1> QED BY <1>2, FS_CardinalityType

(* What a change of descriptor d alone does to the count of every inode.   *)
One(x, y) == IF x = y THEN 1 ELSE 0

SameBut(f, g, d) == \A fd \in FDs \ {d} : g[fd].inode = f[fd].inode

LEMMA Recount ==
  ASSUME NEW f, NEW g, NEW d \in FDs, NEW i, SameBut(f, g, d)
  PROVE  Cardinality(Holders(g, i)) =
           Cardinality(Holders(f, i)) - One(f[d].inode, i) + One(g[d].inode, i)
<1> DEFINE old == Holders(f, i)
           rest == old \ {d}
<1>1. IsFiniteSet(old) /\ Cardinality(old) \in Nat
  BY FiniteHolders
<1>2. d \in old <=> f[d].inode = i
  BY DEF Holders
<1>3. /\ IsFiniteSet(rest)
      /\ Cardinality(rest) = Cardinality(old) - One(f[d].inode, i)
  BY <1>1, <1>2, FS_RemoveElement DEF One
<1>4. Holders(g, i) = IF g[d].inode = i THEN rest \cup {d} ELSE rest
  BY DEF Holders, SameBut
<1>5. Cardinality(rest \cup {d}) = Cardinality(rest) + 1
  BY <1>3, FS_AddElement
<1> QED BY <1>1, <1>3, <1>4, <1>5 DEF One

(* Moving the offsets of descriptors changes no count. *)
LEMMA SameHolders ==
  ASSUME NEW f \in [FDs -> Descriptors], NEW g, \A fd \in FDs : g[fd].inode = f[fd].inode
  PROVE  \A i : Holders(g, i) = Holders(f, i)
BY DEF Holders

LEMMA SameInodesRefs ==
  ASSUME References, UNCHANGED <<kind, ref_count>>,
         fds' \in [FDs -> Descriptors], \A fd \in FDs : fds'[fd].inode = fds[fd].inode
  PROVE  References'
<1>1. \A i : Holders(fds', i) = Holders(fds, i)
  BY SameHolders DEF References
<1> QED BY <1>1 DEF References, NoStaleDescriptor

(* A new descriptor on inode i, or none. *)
LEMMA OpenedRefs ==
  ASSUME References, NEW i \in Inodes, NEW fd \in FDs \cup {NONE}, FreeFd(fd),
         fds' = Opened(fd, i),
         kind' \in [Inodes -> {"FREE", "FILE", "DIR"}],
         kind'[i] # "FREE", \A j \in Inodes \ {i} : kind'[j] = kind[j],
         ref_count' = [ref_count EXCEPT ![i] = @ + IF fd = NONE THEN 0 ELSE 1]
  PROVE  References'
<1> DEFINE x == [inode |-> i, offset |-> 0]
<1>1. NONE \notin FDs /\ CLOSED \notin Inodes
  BY SizesAssumption DEF NONE, FDs, CLOSED, Inodes
<1>2. CASE fd = NONE
  <2>1. fds' = fds /\ ref_count' = ref_count
    BY <1>2 DEF Opened, References
  <2> QED BY <2>1 DEF References, NoStaleDescriptor
<1>3. CASE fd # NONE
  <2>1. fd \in FDs /\ fds[fd].inode = CLOSED
    BY <1>3, <1>1 DEF FreeFd, Valid
  <2>2. x \in Descriptors /\ x.inode = i
    BY DEF Descriptors
  <2>3. fds' = [fds EXCEPT ![fd] = x]
    BY <1>3 DEF Opened
  <2>4. fds' \in [FDs -> Descriptors]
    BY <2>1, <2>2, <2>3 DEF References
  <2>5. ref_count' \in [Inodes -> Nat] /\ \A j \in Inodes : ref_count'[j] = ref_count[j] + IF j = i THEN 1 ELSE 0
    BY <1>3 DEF References
  <2>6. SameBut(fds, fds', fd) /\ fds'[fd].inode = i
    BY <2>1, <2>2, <2>3 DEF References, SameBut
  <2>8. ASSUME NEW j \in Inodes PROVE ref_count'[j] = Cardinality(Holders(fds', j))
    <3>1. Cardinality(Holders(fds', j)) =
            Cardinality(Holders(fds, j)) - One(fds[fd].inode, j) + One(fds'[fd].inode, j)
      BY ONLY <2>1, <2>6, Recount
    <3>2. One(fds[fd].inode, j) = 0
      BY <1>1, <2>1 DEF One
    <3>3. Cardinality(Holders(fds, j)) = ref_count[j] /\ ref_count[j] \in Nat
      BY DEF References
    <3> QED BY <2>5, <2>6, <3>1, <3>2, <3>3 DEF One
  <2>7. ASSUME NEW f \in FDs, fds'[f].inode \in Inodes PROVE kind'[fds'[f].inode] # "FREE"
    <3>1. CASE f = fd
      BY <3>1, <2>1, <2>3 DEF References
    <3>2. CASE f # fd
      <4>1. fds'[f] = fds[f]
        BY <3>2, <2>1, <2>3 DEF References
      <4> QED BY <2>7, <4>1 DEF References, NoStaleDescriptor
    <3> QED BY <3>1, <3>2
  <2> QED BY <2>4, <2>5, <2>7, <2>8 DEF References, NoStaleDescriptor
<1> QED BY <1>2, <1>3

(* A freed inode has no descriptor. *)
LEMMA FreeUnreferenced ==
  ASSUME References, NEW i \in Inodes, kind[i] = "FREE"
  PROVE  ref_count[i] = 0
<1>1. Holders(fds, i) = {}
  BY DEF References, NoStaleDescriptor, Holders
<1> QED BY <1>1, FS_EmptySet DEF References

(* Closing counts down. *)
LEMMA DroppedRefs ==
  ASSUME References, NEW fd \in FDs
  PROVE  /\ Dropped(fd) \in [Inodes -> Nat]
         /\ \A j \in Inodes : Dropped(fd)[j] = ref_count[j] - One(fds[fd].inode, j)
<1>1. ASSUME fds[fd].inode \in Inodes PROVE ref_count[fds[fd].inode] > 0
  <2>1. Holders(fds, fds[fd].inode) # {}
    BY DEF Holders
  <2>2. IsFiniteSet(Holders(fds, fds[fd].inode))
    BY FiniteHolders
  <2> QED BY <1>1, <2>1, <2>2, FS_EmptySet DEF References
<1> QED BY <1>1 DEF Dropped, References, One

-----------------------------------------------------------------------------
(* One lemma per call. *)

LEMMA OpenCreateRefs ==
  ASSUME References, NEW path, OpenCreate(path) PROVE References'
<1>1. PICK i \in Inodes, fd \in FDs \cup {NONE} :
        /\ Allocates(i)
        /\ FreeFd(fd)
        /\ kind' = [kind EXCEPT ![i] = "FILE"]
        /\ fds' = Opened(fd, i)
        /\ ref_count' = [ref_count EXCEPT ![i] = IF fd = NONE THEN 0 ELSE 1]
  BY DEF OpenCreate
<1>2. ref_count[i] = 0
  BY <1>1, FreeUnreferenced DEF Allocates
<1>3. ref_count' = [ref_count EXCEPT ![i] = @ + IF fd = NONE THEN 0 ELSE 1]
  BY <1>1, <1>2 DEF References
<1>4. /\ kind' \in [Inodes -> {"FREE", "FILE", "DIR"}]
      /\ kind'[i] # "FREE" /\ \A j \in Inodes \ {i} : kind'[j] = kind[j]
  BY <1>1 DEF References
<1> QED BY <1>1, <1>3, <1>4, OpenedRefs

LEMMA OpenExistingRefs ==
  ASSUME References, NEW path, NEW truncate, OpenExisting(path, truncate) PROVE References'
<1> DEFINE i == Resolve(path)
<1>1. i \in Inodes /\ kind[i] = "FILE" /\ kind' = kind
  BY DEF OpenExisting
<1>2. PICK fd \in FDs \cup {NONE} :
        /\ FreeFd(fd)
        /\ fds' = Opened(fd, i)
        /\ ref_count' = [ref_count EXCEPT ![i] = IF fd = NONE THEN @ ELSE @ + 1]
  BY DEF OpenExisting
<1> HIDE DEF i
<1>3. ref_count' = [ref_count EXCEPT ![i] = @ + IF fd = NONE THEN 0 ELSE 1]
  <2>1. ref_count[i] = ref_count[i] + 0
    BY <1>1 DEF References
  <2> QED BY <1>2, <2>1
<1>4. kind' \in [Inodes -> {"FREE", "FILE", "DIR"}]
  BY <1>1 DEF References
<1> QED BY <1>1, <1>2, <1>3, <1>4, OpenedRefs

LEMMA OpendirRefs ==
  ASSUME References, NEW path, Opendir(path) PROVE References'
<1> DEFINE i == Resolve(path)
<1>1. i \in Inodes /\ kind[i] = "DIR" /\ kind' = kind
  BY DEF Opendir
<1>2. PICK fd \in FDs : FreeFd(fd) /\ fds' = Opened(fd, i)
  BY DEF Opendir
<1>3. ref_count' = [ref_count EXCEPT ![i] = @ + 1]
  BY DEF Opendir
<1> HIDE DEF i
<1>4. fd # NONE
  BY DEF FDs, NONE
<1>5. kind' \in [Inodes -> {"FREE", "FILE", "DIR"}]
  BY <1>1 DEF References
<1>6. ref_count' = [ref_count EXCEPT ![i] = @ + IF fd = NONE THEN 0 ELSE 1]
  BY <1>3, <1>4
<1> QED BY <1>1, <1>2, <1>5, <1>6, OpenedRefs

LEMMA CloseRefs ==
  ASSUME References, NEW fd \in FDs, Close(fd) PROVE References'
<1>1. /\ fds' = [fds EXCEPT ![fd] = Closed] /\ kind' = kind
      /\ ref_count' = Dropped(fd)
  BY DEF Close
<1>2. Closed \in Descriptors /\ Closed.inode \notin Inodes
  BY SizesAssumption DEF Closed, Descriptors, CLOSED, Inodes
<1>3. fds' \in [FDs -> Descriptors]
  BY <1>1, <1>2 DEF References
<1>4. SameBut(fds, fds', fd) /\ fds'[fd].inode \notin Inodes
  BY <1>1, <1>2 DEF References, SameBut
<1>5. ASSUME NEW i \in Inodes PROVE ref_count'[i] = Cardinality(Holders(fds', i))
  <2>1. Cardinality(Holders(fds', i)) =
          Cardinality(Holders(fds, i)) - One(fds[fd].inode, i) + One(fds'[fd].inode, i)
    BY ONLY <1>4, fd \in FDs, Recount
  <2>2. Dropped(fd)[i] = ref_count[i] - One(fds[fd].inode, i)
    BY DroppedRefs
  <2>3. Cardinality(Holders(fds, i)) = ref_count[i] /\ ref_count[i] \in Nat
    BY DEF References
  <2> QED BY <1>1, <1>4, <2>1, <2>2, <2>3 DEF One
<1>6. NoStaleDescriptor'
  BY <1>1, <1>2 DEF References, NoStaleDescriptor
<1> QED BY <1>1, <1>3, <1>5, <1>6, DroppedRefs DEF References

LEMMA Dup2Refs ==
  ASSUME References, NEW oldfd \in FDs, NEW newfd \in FDs, Dup2(oldfd, newfd)
  PROVE  References'
<1>1. /\ fds' = [fds EXCEPT ![newfd] = fds[oldfd]] /\ kind' = kind
      /\ ref_count' = [i \in Inodes |-> Dropped(newfd)[i] + IF i = fds[oldfd].inode THEN 1 ELSE 0]
  BY DEF Dup2
<1>2. fds[oldfd] \in Descriptors
  BY DEF References
<1>3. fds' \in [FDs -> Descriptors]
  BY <1>1, <1>2 DEF References
<1>4. SameBut(fds, fds', newfd) /\ fds'[newfd] = fds[oldfd]
  BY <1>1 DEF References, SameBut
<1>5. ASSUME NEW i \in Inodes PROVE ref_count'[i] = Cardinality(Holders(fds', i))
  <2>1. Cardinality(Holders(fds', i)) =
          Cardinality(Holders(fds, i)) - One(fds[newfd].inode, i) + One(fds'[newfd].inode, i)
    BY ONLY <1>4, newfd \in FDs, Recount
  <2>2. ref_count'[i] = Dropped(newfd)[i] + One(fds[oldfd].inode, i)
    BY <1>1 DEF One
  <2>3. Dropped(newfd)[i] = ref_count[i] - One(fds[newfd].inode, i)
    BY DroppedRefs
  <2>4. Cardinality(Holders(fds, i)) = ref_count[i] /\ ref_count[i] \in Nat
    BY DEF References
  <2> QED BY <1>4, <2>1, <2>2, <2>3, <2>4 DEF One
<1>6. ref_count' \in [Inodes -> Nat]
  BY <1>1, DroppedRefs
<1>7. NoStaleDescriptor'
  BY <1>1 DEF References, NoStaleDescriptor
<1> QED BY <1>1, <1>3, <1>5, <1>6, <1>7 DEF References

LEMMA MkdirRefs ==
  ASSUME References, NEW path, Mkdir(path) PROVE References'
<1>1. PICK i \in Inodes :
        /\ Allocates(i)
        /\ kind' = [kind EXCEPT ![i] = "DIR"]
        /\ ref_count' = [ref_count EXCEPT ![i] = 0]
  BY DEF Mkdir
<1>2. fds' = fds
  BY DEF Mkdir
<1>3. ref_count[i] = 0
  BY <1>1, FreeUnreferenced DEF Allocates
<1>4. ref_count' = ref_count
  BY <1>1, <1>3 DEF References
<1> QED BY <1>1, <1>2, <1>4 DEF References, NoStaleDescriptor

(* What unlink removes is not open, because its count is exact.            *)
LEMMA UnlinkRefs ==
  ASSUME References, NEW path, Unlink(path) PROVE References'
<1> DEFINE i == Resolve(path)
<1>1. /\ i \in Inodes /\ ref_count[i] = 0
      /\ kind' = [kind EXCEPT ![i] = "FREE"]
      /\ fds' = fds /\ ref_count' = ref_count
  BY DEF Unlink, Unlinkable
<1> HIDE DEF i
<1>2. Holders(fds, i) = {}
  BY <1>1, FiniteHolders, FS_EmptySet DEF References
<1>3. \A fd \in FDs : fds[fd].inode # i
  BY <1>2 DEF Holders
<1> QED BY <1>1, <1>3 DEF References, NoStaleDescriptor

LEMMA OffsetRefs ==
  ASSUME References, UNCHANGED <<kind, ref_count>>, NEW fd \in FDs, NEW to \in Nat,
         fds' = [fds EXCEPT ![fd].offset = to]
  PROVE  References'
<1>1. /\ fds' \in [FDs -> Descriptors]
      /\ \A f \in FDs : fds'[f].inode = fds[f].inode
  BY DEF References, Descriptors
<1> QED BY <1>1, SameInodesRefs

-----------------------------------------------------------------------------
(* Who owns what in data_buf.  dir_add_entry works on a record of the      *)
(* tables (several times in mkdir), so the invariant is one of such a      *)
(* record, of the kinds and of the sizes.                                  *)

(* Strings; the provers do not know that the two literals are among them.  *)
Names == STRING \cup {".", ".."}

Entry == [name : Names, inode : Inodes]

(* How many bytes inode i owns.                                            *)
Span(t, ks, sz, i) ==
  IF ks[i] = "DIR" /\ t.entries[i] # <<>> THEN DirBytes
  ELSE IF ks[i] = "FILE" /\ sz[i] > 0 THEN MAX_FILE_SIZE ELSE 0

LayoutTyped(t, ks, sz) ==
  /\ ks \in [Inodes -> {"FREE", "FILE", "DIR"}]
  /\ sz \in [Inodes -> 0 .. MAX_FILE_SIZE]
  /\ t.entries \in [Inodes -> Seq(Entry)]
  /\ t.at \in [Inodes -> Nat]
  /\ t.free \in 0 .. DATA_BUF_SIZE

Allocated(t, ks, sz) ==
  \A i \in Inodes : Span(t, ks, sz, i) > 0 => t.at[i] + Span(t, ks, sz, i) <= t.free

Apart(t, ks, sz) ==
  \A i, j \in Inodes :
     i # j /\ Span(t, ks, sz, i) > 0 /\ Span(t, ks, sz, j) > 0 =>
       \/ t.at[i] + Span(t, ks, sz, i) <= t.at[j]
       \/ t.at[j] + Span(t, ks, sz, j) <= t.at[i]

Layout(t, ks, sz) == LayoutTyped(t, ks, sz) /\ Allocated(t, ks, sz) /\ Apart(t, ks, sz)

LEMMA Sizes ==
  /\ MAX_INODES \in Nat /\ MAX_INODES > 0
  /\ MAX_FILE_SIZE \in Nat /\ MAX_FILE_SIZE > 0
  /\ DirBytes \in Nat /\ DirBytes > 0
  /\ DATA_BUF_SIZE \in Nat /\ DirBytes <= DATA_BUF_SIZE
BY SizesAssumption

LEMMA SpanType ==
  ASSUME NEW t, NEW ks, NEW sz, NEW i
  PROVE  Span(t, ks, sz, i) \in Nat
BY Sizes DEF Span

(* Inodes that own no more than before, where they did, stay apart.        *)
LEMMA Shrunk ==
  ASSUME NEW t, NEW ks, NEW sz, Layout(t, ks, sz),
         NEW t2, NEW ks2, NEW sz2, LayoutTyped(t2, ks2, sz2), t2.free = t.free,
         \A i \in Inodes : \/ Span(t2, ks2, sz2, i) = 0
                           \/ /\ Span(t2, ks2, sz2, i) = Span(t, ks, sz, i)
                              /\ t2.at[i] = t.at[i]
  PROVE  Layout(t2, ks2, sz2)
<1>1. Allocated(t2, ks2, sz2)
  <2> SUFFICES ASSUME NEW i \in Inodes, Span(t2, ks2, sz2, i) > 0
               PROVE  t2.at[i] + Span(t2, ks2, sz2, i) <= t2.free
    BY DEF Allocated
  <2> QED BY SpanType DEF Layout, Allocated
<1>2. Apart(t2, ks2, sz2)
  <2> SUFFICES ASSUME NEW i \in Inodes, NEW j \in Inodes, i # j,
                      Span(t2, ks2, sz2, i) > 0, Span(t2, ks2, sz2, j) > 0
               PROVE  \/ t2.at[i] + Span(t2, ks2, sz2, i) <= t2.at[j]
                      \/ t2.at[j] + Span(t2, ks2, sz2, j) <= t2.at[i]
    BY DEF Apart
  <2> QED BY SpanType DEF Layout, Apart
<1> QED BY <1>1, <1>2 DEF Layout

SpansKept(t, ks, sz, t2, ks2, sz2, S) ==
  \A i \in S : Span(t2, ks2, sz2, i) = Span(t, ks, sz, i) /\ t2.at[i] = t.at[i]

(* Inode d is given the next n bytes; the others own what they did.        *)
LEMMA Grown ==
  ASSUME NEW t, NEW ks, NEW sz, Layout(t, ks, sz),
         NEW t2, NEW ks2, NEW sz2, LayoutTyped(t2, ks2, sz2),
         NEW d \in Inodes, NEW n \in Nat, t2.free = t.free + n, t2.at[d] = t.free,
         Span(t2, ks2, sz2, d) \in {0, n},
         SpansKept(t, ks, sz, t2, ks2, sz2, Inodes \ {d})
  PROVE  Layout(t2, ks2, sz2)
<1>1. /\ t.free \in Nat /\ t2.free \in Nat
      /\ \A i \in Inodes : t.at[i] \in Nat /\ t2.at[i] \in Nat
  BY DEF Layout, LayoutTyped
<1>2. Allocated(t2, ks2, sz2)
  <2> SUFFICES ASSUME NEW i \in Inodes, Span(t2, ks2, sz2, i) > 0
               PROVE  t2.at[i] + Span(t2, ks2, sz2, i) <= t2.free
    BY DEF Allocated
  <2> QED BY <1>1, SpanType DEF Layout, Allocated, SpansKept
<1>3. Apart(t2, ks2, sz2)
  <2> SUFFICES ASSUME NEW i \in Inodes, NEW j \in Inodes, i # j,
                      Span(t2, ks2, sz2, i) > 0, Span(t2, ks2, sz2, j) > 0
               PROVE  \/ t2.at[i] + Span(t2, ks2, sz2, i) <= t2.at[j]
                      \/ t2.at[j] + Span(t2, ks2, sz2, j) <= t2.at[i]
    BY DEF Apart
  <2>1. CASE i = d
    BY <2>1, <1>1, SpanType DEF Layout, Allocated, SpansKept
  <2>2. CASE j = d
    BY <2>2, <1>1, SpanType DEF Layout, Allocated, SpansKept
  <2>3. CASE i # d /\ j # d
    BY <2>3 DEF Layout, Apart, SpansKept
  <2> QED BY <2>1, <2>2, <2>3
<1> QED BY <1>2, <1>3 DEF Layout

(* dir_add_entry, whether or not it has room.                              *)
LEMMA AddEntryLayout ==
  ASSUME NEW t, NEW ks, NEW sz, Layout(t, ks, sz),
         NEW d \in Inodes, NEW name \in Names, NEW i \in Inodes
  PROVE  Layout(AddEntry(t, ks, d, name, i), ks, sz)
<1> DEFINE e == [name |-> name, inode |-> i]
           t2 == AddEntry(t, ks, d, name, i)
<1>1. CASE ~HasRoom(t, ks, d)
  <2>1. t2 = t
    BY <1>1 DEF AddEntry
  <2> QED BY <2>1
<1>2. CASE HasRoom(t, ks, d)
  <2> SUFFICES Layout(t2, ks, sz)
    OBVIOUS
  <2>1. t2 = [entries |-> [t.entries EXCEPT ![d] = Append(@, e)],
              at |-> IF t.entries[d] = <<>> THEN [t.at EXCEPT ![d] = t.free] ELSE t.at,
              free |-> IF t.entries[d] = <<>> THEN t.free + DirBytes ELSE t.free]
    BY <1>2 DEF AddEntry, AfterDir
  <2> HIDE DEF t2
  <2>2. e \in Entry
    BY DEF Entry
  <2>3. ks[d] = "DIR" /\ (t.entries[d] = <<>> => t.free + DirBytes <= DATA_BUF_SIZE)
    BY <1>2 DEF HasRoom
  <2>4. t.entries[d] \in Seq(Entry)
    BY DEF Layout, LayoutTyped
  <2> HIDE DEF e
  <2>5. Append(t.entries[d], e) \in Seq(Entry) /\ Append(t.entries[d], e) # <<>>
    BY <2>2, <2>4
  <2>6. /\ t2.entries \in [Inodes -> Seq(Entry)]
        /\ t2.entries[d] # <<>> /\ \A j \in Inodes \ {d} : t2.entries[j] = t.entries[j]
    BY <2>1, <2>5 DEF Layout, LayoutTyped
  <2>7. t2.at \in [Inodes -> Nat] /\ t2.free \in 0 .. DATA_BUF_SIZE
    <3>1. t.at \in [Inodes -> Nat] /\ t.free \in 0 .. DATA_BUF_SIZE
      BY DEF Layout, LayoutTyped
    <3>2. CASE t.entries[d] = <<>>
      <4>1. t2.at = [t.at EXCEPT ![d] = t.free] /\ t2.free = t.free + DirBytes
        BY ONLY <2>1, <3>2
      <4>2. t.free + DirBytes \in 0 .. DATA_BUF_SIZE /\ t.free \in Nat
        BY <2>3, <3>1, <3>2, Sizes
      <4> QED BY ONLY <3>1, <4>1, <4>2
    <3>3. CASE t.entries[d] # <<>>
      BY ONLY <2>1, <3>1, <3>3
    <3> QED BY ONLY <3>2, <3>3
  <2>8. LayoutTyped(t2, ks, sz)
    BY <2>6, <2>7 DEF Layout, LayoutTyped
  <2>9. /\ Span(t2, ks, sz, d) = DirBytes
        /\ \A j \in Inodes \ {d} : Span(t2, ks, sz, j) = Span(t, ks, sz, j)
    BY <2>3, <2>6 DEF Span
  <2>10. CASE t.entries[d] = <<>>
    <3>1. /\ t2.free = t.free + DirBytes /\ t2.at[d] = t.free
          /\ \A j \in Inodes \ {d} : t2.at[j] = t.at[j]
      BY <2>1, <2>10 DEF Layout, LayoutTyped
    <3>2. SpansKept(t, ks, sz, t2, ks, sz, Inodes \ {d})
      BY <2>9, <3>1 DEF SpansKept
    <3>3. Span(t2, ks, sz, d) \in {0, DirBytes} /\ DirBytes \in Nat
      BY <2>9, Sizes
    <3> QED BY <2>8, <3>1, <3>2, <3>3, Grown
  <2>11. CASE t.entries[d] # <<>>
    <3>1. t2.free = t.free /\ t2.at = t.at
      BY <2>1, <2>11
    <3>2. Span(t, ks, sz, d) = DirBytes
      BY <2>3, <2>11 DEF Span
    <3>3. SpansKept(t, ks, sz, t2, ks, sz, Inodes)
      BY <2>9, <3>1, <3>2 DEF SpansKept
    <3> QED BY <2>8, <3>1, <3>3, Shrunk DEF SpansKept
  <2> QED BY <2>10, <2>11
<1> QED BY <1>1, <1>2

(* alloc_inode, and the inode made a file or a directory.                  *)
LEMMA ClearedLayout ==
  ASSUME Layout(Tables, kind, size), NEW i \in Inodes, NEW k \in {"FILE", "DIR"}
  PROVE  Layout(Cleared(i), [kind EXCEPT ![i] = k], [size EXCEPT ![i] = 0])
<1> DEFINE t == Cleared(i)
           ks == [kind EXCEPT ![i] = k]
           sz == [size EXCEPT ![i] = 0]
<1>1. /\ t.entries = [entries EXCEPT ![i] = <<>>]
      /\ t.at = [data_offset EXCEPT ![i] = 0]
      /\ t.free = next_free_offset
  BY DEF Cleared, Tables
<1>2. /\ Tables.entries = entries /\ Tables.at = data_offset /\ Tables.free = next_free_offset
  BY DEF Tables
<1> HIDE DEF t
<1>3. LayoutTyped(Tables, kind, size)
  BY DEF Layout
<1>4. LayoutTyped(t, ks, sz)
  <2>1. t.entries \in [Inodes -> Seq(Entry)]
    BY <1>1, <1>2, <1>3 DEF LayoutTyped
  <2> QED BY <2>1, <1>1, <1>2, <1>3, Sizes DEF LayoutTyped
<1>5. t.free = Tables.free
  BY <1>1, <1>2
<1>6. Span(t, ks, sz, i) = 0
  BY <1>1, <1>2, <1>3 DEF Span, LayoutTyped
<1>7. ASSUME NEW j \in Inodes \ {i}
      PROVE  Span(t, ks, sz, j) = Span(Tables, kind, size, j) /\ t.at[j] = Tables.at[j]
  BY <1>1, <1>2, <1>3 DEF Span, LayoutTyped
<1> HIDE DEF ks, sz
<1>8. Layout(t, ks, sz)
  BY <1>4, <1>5, <1>6, <1>7, Shrunk
<1> QED BY <1>8 DEF t, ks, sz

-----------------------------------------------------------------------------
(* The inductive invariant, and that every call keeps it.                  *)

BytesTyped ==
  /\ data_buf \in [0 .. DATA_BUF_SIZE - 1 -> Bytes \cup {0}]
  /\ got \in Seq(Bytes \cup {0})

IInv == References /\ Layout(Tables, kind, size) /\ BytesTyped

LEMMA TablesFields ==
  /\ Tables.entries = entries /\ Tables.at = data_offset /\ Tables.free = next_free_offset
BY DEF Tables

(* A call that leaves the tables, the kinds and the sizes alone.           *)
LEMMA SameLayout ==
  ASSUME Layout(Tables, kind, size),
         UNCHANGED <<kind, size, data_offset, entries, next_free_offset>>
  PROVE  Layout(Tables, kind, size)'
<1>1. Tables' = Tables
  BY DEF Tables
<1> QED BY <1>1 DEF Layout, LayoutTyped, Allocated, Apart, Span

(* A call that puts t and leaves the bytes alone.                          *)
LEMMA PutLayout ==
  ASSUME NEW t, Put(t), Layout(t, kind', size')
  PROVE  Layout(Tables, kind, size)'
<1>1. Tables'.entries = t.entries /\ Tables'.at = t.at /\ Tables'.free = t.free
  BY DEF Tables, Put
<1> QED BY <1>1 DEF Layout, LayoutTyped, Allocated, Apart, Span

LEMMA InitInv == Init => IInv
<1> SUFFICES ASSUME Init PROVE IInv
  OBVIOUS
<1>1. References
  <2>1. /\ kind \in [Inodes -> {"FREE", "FILE", "DIR"}]
        /\ ref_count \in [Inodes -> Nat] /\ \A i \in Inodes : ref_count[i] = 0
    BY DEF Init
  <2>2. /\ fds \in [FDs -> Descriptors]
        /\ \A fd \in FDs : fds[fd].inode \in {TERMINAL, CLOSED}
    BY DEF Init, Descriptors, Terminal, Closed
  <2>3. TERMINAL \notin Inodes /\ CLOSED \notin Inodes
    BY SizesAssumption DEF TERMINAL, CLOSED, Inodes
  <2>4. \A i \in Inodes : Holders(fds, i) = {}
    BY <2>2, <2>3 DEF Holders
  <2> QED BY <2>1, <2>2, <2>3, <2>4, FS_EmptySet DEF References, NoStaleDescriptor
<1>2. Layout(Tables, kind, size)
  <2>1. ROOT \in Inodes
    BY Sizes DEF ROOT, Inodes
  <2>2. [name |-> ".", inode |-> ROOT] \in Entry /\ [name |-> "..", inode |-> ROOT] \in Entry
    BY <2>1 DEF Entry, Names
  <2>3. entries \in [Inodes -> Seq(Entry)]
    BY <2>2 DEF Init
  <2>4. LayoutTyped(Tables, kind, size)
    BY <2>3, TablesFields, Sizes DEF LayoutTyped, Init
  <2>5. \A i \in Inodes : Span(Tables, kind, size, i) = IF i = ROOT THEN DirBytes ELSE 0
    BY <2>1, TablesFields DEF Span, Init
  <2>6. /\ \A i \in Inodes : Tables.at[i] = 0
        /\ Tables.free = DirBytes
    BY TablesFields DEF Init
  <2>7. Allocated(Tables, kind, size)
    BY <2>5, <2>6, Sizes DEF Allocated
  <2>8. Apart(Tables, kind, size)
    BY <2>5 DEF Apart
  <2> QED BY <2>4, <2>7, <2>8 DEF Layout
<1>3. BytesTyped
  BY DEF Init, BytesTyped
<1> QED BY <1>1, <1>2, <1>3 DEF IInv

LEMMA EntryNames ==
  /\ {".", ".."} \subseteq Names
  /\ \A path \in Paths : Name(path) \in Names
BY InputsAssumption DEF Name, Names

LEMMA OpenCreateInv ==
  ASSUME IInv, NEW path \in Paths, OpenCreate(path) PROVE IInv'
<1> DEFINE d == Parent(path)
<1>1. PICK i \in Inodes :
        /\ kind' = [kind EXCEPT ![i] = "FILE"]
        /\ size' = [size EXCEPT ![i] = 0]
        /\ Put(AddEntry(Cleared(i), kind', d, Name(path), i))
  BY DEF OpenCreate
<1>2. d \in Inodes /\ UNCHANGED <<data_buf, got>>
  BY DEF OpenCreate
<1> HIDE DEF d
<1>3. Layout(Cleared(i), kind', size')
  BY <1>1, ClearedLayout DEF IInv
<1>4. Layout(AddEntry(Cleared(i), kind', d, Name(path), i), kind', size')
  BY <1>2, <1>3, EntryNames, AddEntryLayout
<1>5. Layout(Tables, kind, size)'
  BY <1>1, <1>4, PutLayout
<1>6. BytesTyped'
  BY <1>2 DEF IInv, BytesTyped
<1> QED BY <1>5, <1>6, OpenCreateRefs DEF IInv

LEMMA MkdirInv ==
  ASSUME IInv, NEW path \in Paths, Mkdir(path) PROVE IInv'
<1> DEFINE d == Parent(path)
           dot(i) == AddEntry(Cleared(i), kind', i, ".", i)
           dotdot(i) == AddEntry(dot(i), kind', i, "..", d)
<1>1. PICK i \in Inodes :
        /\ kind' = [kind EXCEPT ![i] = "DIR"]
        /\ size' = [size EXCEPT ![i] = 0]
        /\ Put(AddEntry(dotdot(i), kind', d, Name(path), i))
  BY DEF Mkdir
<1>2. d \in Inodes /\ UNCHANGED <<data_buf, got>>
  BY DEF Mkdir
<1> HIDE DEF d
<1>3. Layout(Cleared(i), kind', size')
  BY <1>1, ClearedLayout DEF IInv
<1>4. Layout(dot(i), kind', size')
  BY <1>3, EntryNames, AddEntryLayout
<1> HIDE DEF dot
<1>5. Layout(dotdot(i), kind', size')
  BY <1>2, <1>4, EntryNames, AddEntryLayout
<1> HIDE DEF dotdot
<1>6. Layout(AddEntry(dotdot(i), kind', d, Name(path), i), kind', size')
  BY <1>2, <1>5, EntryNames, AddEntryLayout
<1>7. Layout(Tables, kind, size)'
  BY <1>1, <1>6, PutLayout
<1>8. BytesTyped'
  BY <1>2 DEF IInv, BytesTyped
<1> QED BY <1>7, <1>8, MkdirRefs DEF IInv

LEMMA OpenExistingInv ==
  ASSUME IInv, NEW path, NEW truncate, OpenExisting(path, truncate) PROVE IInv'
<1> DEFINE f == Resolve(path)
<1>1. /\ size' = [size EXCEPT ![f] = IF truncate THEN 0 ELSE @]
      /\ UNCHANGED <<kind, data_offset, entries, dataVars, got>>
  BY DEF OpenExisting
<1> HIDE DEF f
<1>2. /\ Tables' = Tables /\ kind' = kind
      /\ BytesTyped'
  BY <1>1 DEF Tables, dataVars, IInv, BytesTyped
<1>3. LayoutTyped(Tables, kind, size)
  BY DEF IInv, Layout
<1>4. size' \in [Inodes -> 0 .. MAX_FILE_SIZE]
  <2>1. size \in [Inodes -> 0 .. MAX_FILE_SIZE] /\ 0 \in 0 .. MAX_FILE_SIZE
    BY <1>3, Sizes DEF LayoutTyped
  <2>2. (IF truncate THEN 0 ELSE size[f]) \in {0, size[f]}
    OBVIOUS
  <2> QED BY <1>1, <2>1, <2>2
<1>5. LayoutTyped(Tables, kind, size')
  BY <1>3, <1>4 DEF LayoutTyped
<1>6. \A i \in Inodes : size'[i] \in {0, size[i]}
  BY <1>1, <1>3 DEF LayoutTyped
<1>7. \A i \in Inodes : \/ Span(Tables, kind, size', i) = 0
                        \/ Span(Tables, kind, size', i) = Span(Tables, kind, size, i)
  BY <1>6 DEF Span
<1>8. Layout(Tables, kind, size')
  BY <1>5, <1>7, Shrunk DEF IInv
<1>9. Layout(Tables, kind, size)'
  BY <1>2, <1>8 DEF Layout, LayoutTyped, Allocated, Apart, Span
<1> QED BY <1>2, <1>9, OpenExistingRefs DEF IInv

LEMMA UnlinkInv ==
  ASSUME IInv, NEW path, Unlink(path) PROVE IInv'
<1> DEFINE f == Resolve(path)
<1>1. /\ kind' = [kind EXCEPT ![f] = "FREE"]
      /\ UNCHANGED <<size, data_offset, entries, dataVars, got>>
  BY DEF Unlink
<1> HIDE DEF f
<1>2. /\ Tables' = Tables /\ size' = size
      /\ BytesTyped'
  BY <1>1 DEF Tables, dataVars, IInv, BytesTyped
<1>3. LayoutTyped(Tables, kind, size)
  BY DEF IInv, Layout
<1>4. LayoutTyped(Tables, kind', size)
  BY <1>1, <1>3 DEF LayoutTyped
<1>5. \A i \in Inodes : kind'[i] \in {"FREE", kind[i]}
  BY <1>1, <1>3 DEF LayoutTyped
<1>6. \A i \in Inodes : \/ Span(Tables, kind', size, i) = 0
                        \/ Span(Tables, kind', size, i) = Span(Tables, kind, size, i)
  BY <1>5 DEF Span
<1>7. Layout(Tables, kind', size)
  BY <1>4, <1>6, Shrunk DEF IInv
<1>8. Layout(Tables, kind, size)'
  BY <1>2, <1>7 DEF Layout, LayoutTyped, Allocated, Apart, Span
<1> QED BY <1>2, <1>8, UnlinkRefs DEF IInv

(* A call that only changes descriptors and reference counts.              *)
LEMMA DescriptorsInv ==
  ASSUME IInv, References', UNCHANGED <<kind, size, data_offset, entries, dataVars, got>>
  PROVE  IInv'
<1>1. Layout(Tables, kind, size)'
  BY SameLayout DEF IInv, dataVars
<1>2. BytesTyped'
  BY DEF IInv, BytesTyped, dataVars
<1> QED BY <1>1, <1>2 DEF IInv

LEMMA FileTyped ==
  ASSUME IInv, NEW fd \in FDs, fds[fd].inode \in Inodes
  PROVE  /\ fds[fd].offset \in Nat
         /\ size[fds[fd].inode] \in 0 .. MAX_FILE_SIZE
         /\ data_offset[fds[fd].inode] \in Nat
<1>1. fds[fd] \in Descriptors
  BY DEF IInv, References
<1> QED BY <1>1, TablesFields DEF Descriptors, IInv, Layout, LayoutTyped

(* The bytes read are inside the region of the file, so inside data_buf.   *)
LEMMA ReadInv ==
  ASSUME IInv, NEW fd \in FDs, NEW count \in Counts, Read(fd, count) PROVE IInv'
<1> DEFINE i == fds[fd].inode
           left == size[i] - fds[fd].offset
           n == IF left <= 0 THEN 0 ELSE IF count > left THEN left ELSE count
<1>1. /\ i \in Inodes /\ kind[i] = "FILE"
      /\ got' = [k \in 1 .. n |-> data_buf[data_offset[i] + fds[fd].offset + k - 1]]
      /\ fds' = [fds EXCEPT ![fd].offset = @ + n]
      /\ UNCHANGED <<inodeVars, dataVars>>
  BY DEF Read, OnFile
<1>2. /\ fds[fd].offset \in Nat
      /\ size[i] \in Nat /\ size[i] <= MAX_FILE_SIZE
      /\ data_offset[i] \in Nat /\ count \in Nat
  BY <1>1, FileTyped, Sizes, InputsAssumption
<1>3. n \in Nat /\ (n > 0 => fds[fd].offset + n <= size[i])
  BY <1>2
<1>4. ASSUME n > 0
      PROVE  data_offset[i] + MAX_FILE_SIZE <= DATA_BUF_SIZE
  <2>1. Span(Tables, kind, size, i) = MAX_FILE_SIZE
    BY <1>1, <1>2, <1>3, <1>4 DEF Span
  <2>2. Tables.at[i] + MAX_FILE_SIZE <= Tables.free /\ Tables.free \in 0 .. DATA_BUF_SIZE
    BY <1>1, <2>1, Sizes DEF IInv, Layout, Allocated, LayoutTyped
  <2> QED BY <1>2, <2>2, Sizes, TablesFields
<1> HIDE DEF n
<1>5. \A k \in 1 .. n : data_offset[i] + fds[fd].offset + k - 1 \in 0 .. DATA_BUF_SIZE - 1
  BY <1>2, <1>3, <1>4, Sizes
<1> HIDE DEF i
<1>6. got' \in [1 .. n -> Bytes \cup {0}]
  BY <1>1, <1>5 DEF IInv, BytesTyped
<1>7. got' \in Seq(Bytes \cup {0})
  BY <1>3, <1>6
<1>8. UNCHANGED <<kind, size, data_offset, entries, next_free_offset, data_buf, ref_count>>
  BY <1>1 DEF inodeVars, dataVars
<1>9. References'
  <2>1. fds[fd].offset + n \in Nat
    BY <1>2, <1>3
  <2> QED BY <1>1, <1>8, <2>1, OffsetRefs DEF IInv
<1>10. Layout(Tables, kind, size)'
  BY <1>8, SameLayout DEF IInv
<1> QED BY <1>7, <1>8, <1>9, <1>10 DEF IInv, BytesTyped

LEMMA LseekInv ==
  ASSUME IInv, NEW fd \in FDs, NEW offset \in Offsets, NEW whence \in 0 .. 2,
         Lseek(fd, offset, whence)
  PROVE  IInv'
<1> DEFINE i == fds[fd].inode
           to == CASE whence = 0 -> offset
                   [] whence = 1 -> fds[fd].offset + offset
                   [] whence = 2 -> size[i] + offset
           at == IF to < 0 THEN 0 ELSE IF to > size[i] THEN size[i] ELSE to
<1>1. /\ i \in Inodes
      /\ fds' = [fds EXCEPT ![fd].offset = at]
      /\ UNCHANGED <<inodeVars, dataVars, got>>
  BY DEF Lseek, OnFile
<1>2. fds[fd].offset \in Nat /\ size[i] \in Nat /\ offset \in Int
  BY <1>1, FileTyped, Sizes, InputsAssumption
<1>3. to \in Int
  <2>1. whence = 0 \/ whence = 1 \/ whence = 2
    OBVIOUS
  <2> QED BY <1>2, <2>1
<1> HIDE DEF to
<1>4. at \in Nat
  BY <1>2, <1>3
<1> HIDE DEF at
<1>5. References'
  BY <1>1, <1>4, OffsetRefs DEF IInv, inodeVars
<1> QED BY <1>1, <1>5, DescriptorsInv DEF inodeVars

LEMMA ReaddirInv ==
  ASSUME IInv, NEW fd \in FDs, Readdir(fd) PROVE IInv'
<1>1. PICK k \in DOMAIN entries[fds[fd].inode] : fds' = [fds EXCEPT ![fd].offset = k]
  BY DEF Readdir
<1>2. fds[fd].inode \in Inodes /\ UNCHANGED <<inodeVars, dataVars, got>>
  BY DEF Readdir
<1>3. entries[fds[fd].inode] \in Seq(Entry)
  BY <1>2, TablesFields DEF IInv, Layout, LayoutTyped
<1>4. k \in Nat
  BY <1>1, <1>3
<1>5. References'
  BY <1>1, <1>2, <1>4, OffsetRefs DEF IInv, inodeVars
<1> QED BY <1>2, <1>5, DescriptorsInv DEF inodeVars

LEMMA WriteInv ==
  ASSUME IInv, NEW fd \in FDs, NEW bytes \in Buffers, Write(fd, bytes) PROVE IInv'
<1> DEFINE i == fds[fd].inode
           from == fds[fd].offset
           to == from + Len(bytes)
           at == IF NeedsRegion(i) THEN next_free_offset ELSE data_offset[i]
<1>1. /\ i \in Inodes /\ kind[i] = "FILE" /\ to <= MAX_FILE_SIZE
      /\ NeedsRegion(i) => next_free_offset + MAX_FILE_SIZE <= DATA_BUF_SIZE
  BY DEF Write, OnFile
<1>2. /\ data_offset' = [data_offset EXCEPT ![i] = at]
      /\ next_free_offset' = IF NeedsRegion(i) THEN next_free_offset + MAX_FILE_SIZE
                                               ELSE next_free_offset
      /\ size' = [size EXCEPT ![i] = IF to > @ THEN to ELSE @]
      /\ fds' = [fds EXCEPT ![fd].offset = to]
  BY DEF Write
<1>3. data_buf' = [b \in DOMAIN data_buf |->
                     IF b \in at + from .. at + to - 1 THEN bytes[b - (at + from) + 1]
                                                       ELSE data_buf[b]]
  BY DEF Write
<1>4. UNCHANGED <<kind, ref_count, entries, got>>
  BY DEF Write
<1>5. /\ from \in Nat /\ size[i] \in Nat /\ size[i] <= MAX_FILE_SIZE
      /\ data_offset[i] \in Nat /\ next_free_offset \in 0 .. DATA_BUF_SIZE
  BY <1>1, FileTyped, TablesFields, Sizes DEF IInv, Layout, LayoutTyped
<1>6. bytes \in [1 .. Len(bytes) -> Bytes] /\ Len(bytes) \in Nat
  <2>1. PICK n \in 0 .. MAX_FILE_SIZE : bytes \in [1 .. n -> Bytes]
    BY DEF Buffers
  <2>2. n \in Nat
    BY <2>1, Sizes
  <2>3. bytes \in Seq(Bytes) /\ Len(bytes) = n
    BY <2>1, <2>2
  <2> QED BY <2>1, <2>2, <2>3
<1>7. to \in Nat /\ at \in Nat
  BY <1>5, <1>6, Sizes
<1>8. data_buf' \in [0 .. DATA_BUF_SIZE - 1 -> Bytes \cup {0}]
  <2>1. data_buf \in [0 .. DATA_BUF_SIZE - 1 -> Bytes \cup {0}]
    BY DEF IInv, BytesTyped
  <2> SUFFICES ASSUME NEW b \in 0 .. DATA_BUF_SIZE - 1
               PROVE  (IF b \in at + from .. at + to - 1 THEN bytes[b - (at + from) + 1]
                                                         ELSE data_buf[b]) \in Bytes \cup {0}
    BY <1>3, <2>1
  <2> HIDE DEF at
  <2>2. ASSUME b \in at + from .. at + to - 1
        PROVE  b - (at + from) + 1 \in 1 .. Len(bytes)
    <3>1. at \in Nat /\ from \in Nat /\ Len(bytes) \in Nat
      BY <1>5, <1>6, <1>7
    <3>2. at + from <= b /\ b <= at + to - 1
      BY <2>2, <3>1
    <3> HIDE DEF from
    <3> QED BY <3>1, <3>2
  <2> QED BY <1>6, <2>1, <2>2
<1> HIDE DEF to
<1>9. References'
  BY <1>2, <1>4, <1>7, OffsetRefs DEF IInv
<1> DEFINE t2 == Tables'
<1>10. t2.entries = entries /\ t2.at = data_offset' /\ t2.free = next_free_offset'
  BY <1>4 DEF Tables
<1>11. Layout(t2, kind, size')
  <2>1. LayoutTyped(Tables, kind, size) /\ Layout(Tables, kind, size)
    BY DEF IInv, Layout
  <2>2. size' \in [Inodes -> 0 .. MAX_FILE_SIZE]
    <3>1. (IF to > size[i] THEN to ELSE size[i]) \in 0 .. MAX_FILE_SIZE
      BY <1>1, <1>5, <1>7, Sizes
    <3> QED BY <1>2, <2>1, <3>1 DEF LayoutTyped
  <2>3. next_free_offset' \in 0 .. DATA_BUF_SIZE
    BY <1>1, <1>2, <1>5, Sizes
  <2>4. data_offset' \in [Inodes -> Nat]
    BY <1>2, <1>7, <2>1, TablesFields DEF LayoutTyped
  <2> HIDE DEF i, t2
  <2>5. LayoutTyped(t2, kind, size')
    BY <1>10, <2>1, <2>2, <2>3, <2>4, TablesFields DEF LayoutTyped
  <2>6. /\ data_offset'[i] = at /\ size'[i] = IF to > size[i] THEN to ELSE size[i]
        /\ \A j \in Inodes \ {i} : data_offset'[j] = data_offset[j] /\ size'[j] = size[j]
    BY <1>1, <1>2, <2>1, TablesFields DEF LayoutTyped
  <2>7. SpansKept(Tables, kind, size, t2, kind, size', Inodes \ {i})
    BY <1>10, <2>6, TablesFields DEF SpansKept, Span
  <2>8. CASE NeedsRegion(i)
    <3>1. Span(t2, kind, size', i) \in {0, MAX_FILE_SIZE}
      BY <1>1 DEF Span
    <3>2. t2.free = Tables.free + MAX_FILE_SIZE /\ t2.at[i] = Tables.free
      BY <1>2, <1>10, <2>6, <2>8, TablesFields
    <3> QED BY <1>1, <2>1, <2>5, <2>7, <3>1, <3>2, Sizes, Grown
  <2>9. CASE ~NeedsRegion(i)
    <3>1. size[i] > 0 /\ size'[i] > 0
      BY <1>5, <1>7, <2>6, <2>9 DEF NeedsRegion
    <3>2. Span(t2, kind, size', i) = Span(Tables, kind, size, i)
      BY <1>1, <3>1 DEF Span
    <3>3. t2.free = Tables.free /\ t2.at[i] = Tables.at[i]
      BY <1>2, <1>10, <2>6, <2>9, TablesFields
    <3> QED BY <2>1, <2>5, <2>7, <3>2, <3>3, Shrunk DEF SpansKept
  <2> QED BY <2>8, <2>9
<1>12. Layout(Tables, kind, size)'
  BY <1>4, <1>11 DEF Layout, LayoutTyped, Allocated, Apart, Span
<1> QED BY <1>4, <1>8, <1>9, <1>12 DEF IInv, BytesTyped

LEMMA NextInv == IInv /\ [Next]_vars => IInv'
<1> SUFFICES ASSUME IInv, [Next]_vars PROVE IInv'
  OBVIOUS
<1>1. ASSUME NEW path \in Paths, OpenCreate(path) PROVE IInv'
  BY <1>1, OpenCreateInv
<1>2. ASSUME NEW path \in Paths, NEW truncate \in BOOLEAN, OpenExisting(path, truncate)
      PROVE  IInv'
  BY <1>2, OpenExistingInv
<1>3. ASSUME NEW path \in Paths, Opendir(path) PROVE IInv'
  <2>1. References'
    BY <1>3, OpendirRefs DEF IInv
  <2> QED BY <1>3, <2>1, DescriptorsInv DEF Opendir
<1>4. ASSUME NEW path \in Paths, Mkdir(path) PROVE IInv'
  BY <1>4, MkdirInv
<1>5. ASSUME NEW path \in Paths, Unlink(path) PROVE IInv'
  BY <1>5, UnlinkInv
<1>6. ASSUME NEW fd \in FDs, Close(fd) PROVE IInv'
  <2>1. References'
    BY <1>6, CloseRefs DEF IInv
  <2> QED BY <1>6, <2>1, DescriptorsInv DEF Close
<1>7. ASSUME NEW fd \in FDs, Readdir(fd) PROVE IInv'
  BY <1>7, ReaddirInv
<1>8. ASSUME NEW fd \in FDs, NEW newfd \in FDs, Dup2(fd, newfd) PROVE IInv'
  <2>1. References'
    BY <1>8, Dup2Refs DEF IInv
  <2> QED BY <1>8, <2>1, DescriptorsInv DEF Dup2
<1>9. ASSUME NEW fd \in FDs, NEW count \in Counts, Read(fd, count) PROVE IInv'
  BY <1>9, ReadInv
<1>10. ASSUME NEW fd \in FDs, NEW bytes \in Buffers, Write(fd, bytes) PROVE IInv'
  BY <1>10, WriteInv
<1>11. ASSUME NEW fd \in FDs, NEW offset \in Offsets, NEW whence \in 0 .. 2,
              Lseek(fd, offset, whence)
       PROVE  IInv'
  BY <1>11, LseekInv
<1>12. ASSUME UNCHANGED vars PROVE IInv'
  <2>1. UNCHANGED <<kind, size, data_offset, ref_count, entries, dataVars, fds, got>>
    BY <1>12 DEF vars, dataVars
  <2>2. References'
    BY <2>1 DEF IInv, References, NoStaleDescriptor
  <2> QED BY <2>1, <2>2, DescriptorsInv
<1> QED
  BY <1>1, <1>2, <1>3, <1>4, <1>5, <1>6, <1>7, <1>8, <1>9, <1>10, <1>11, <1>12 DEF Next

THEOREM Invariant == Spec => []IInv
BY InitInv, NextInv, PTL DEF Spec

LEMMA InvTypes == IInv => TypeOK
<1> SUFFICES ASSUME IInv PROVE TypeOK
  OBVIOUS
<1>1. \A i \in Inodes : \A k \in DOMAIN entries[i] : entries[i][k].inode \in Inodes
  <2> SUFFICES ASSUME NEW i \in Inodes, NEW k \in DOMAIN entries[i]
               PROVE  entries[i][k].inode \in Inodes
    OBVIOUS
  <2>1. entries[i] \in Seq(Entry)
    BY TablesFields DEF IInv, Layout, LayoutTyped
  <2>2. entries[i][k] \in Entry
    BY <2>1
  <2> QED BY <2>2 DEF Entry
<1>2. /\ kind \in [Inodes -> {"FREE", "FILE", "DIR"}]
      /\ ref_count \in [Inodes -> Nat] /\ fds \in [FDs -> Descriptors]
  BY DEF IInv, References
<1>3. size \in [Inodes -> Nat]
  BY Sizes DEF IInv, Layout, LayoutTyped
<1>4. data_offset \in [Inodes -> Nat] /\ next_free_offset \in 0 .. DATA_BUF_SIZE
  BY TablesFields DEF IInv, Layout, LayoutTyped
<1> QED BY <1>1, <1>2, <1>3, <1>4 DEF IInv, BytesTyped, TypeOK

(* The tables stay in their types, whatever the sizes: no offset leaves    *)
(* data_buf and no read returns anything but its bytes.                    *)
THEOREM Typing == Spec => []TypeOK
BY InvTypes, Invariant, PTL

(* The reference count of every inode is the number of descriptors open on *)
(* it.                                                                     *)
THEOREM RefCountExactHolds == Spec => []RefCountExact
<1>1. IInv => RefCountExact
  BY DEF IInv, References, RefCountExact, Holders
<1> QED BY <1>1, Invariant, PTL

(* No descriptor refers to an inode that was freed: unlink tests a count   *)
(* that is exact.                                                          *)
THEOREM NoStaleDescriptorHolds == Spec => []NoStaleDescriptor
<1>1. IInv => NoStaleDescriptor
  BY DEF IInv, References
<1> QED BY <1>1, Invariant, PTL

(* No two inodes share bytes of data_buf.                                  *)
THEOREM RegionsApartHolds == Spec => []RegionsApart
<1>1. IInv => RegionsApart
  <2> SUFFICES ASSUME IInv PROVE RegionsApart
    OBVIOUS
  <2> DEFINE span(i) == Span(Tables, kind, size, i)
  <2>1. \A i \in Inodes : /\ data_offset[i] \in Nat /\ span(i) \in Nat
                          /\ Region(i) = data_offset[i] .. data_offset[i] + span(i) - 1
                               \/ (Region(i) = {} /\ span(i) = 0)
    <3> TAKE i \in Inodes
    <3>1. data_offset[i] \in Nat /\ kind[i] \in {"FREE", "FILE", "DIR"}
      BY TablesFields DEF IInv, Layout, LayoutTyped
    <3> QED BY <3>1, SpanType, TablesFields DEF Region, Span
  <2>2. next_free_offset \in Nat
    BY TablesFields, Sizes DEF IInv, Layout, LayoutTyped
  <2>3. \A i \in Inodes : span(i) > 0 => data_offset[i] + span(i) <= next_free_offset
    BY TablesFields DEF IInv, Layout, Allocated
  <2>4. \A i, j \in Inodes : i # j /\ span(i) > 0 /\ span(j) > 0 =>
           \/ data_offset[i] + span(i) <= data_offset[j]
           \/ data_offset[j] + span(j) <= data_offset[i]
    BY TablesFields DEF IInv, Layout, Apart
  <2> HIDE DEF span
  <2>5. ASSUME NEW i \in Inodes PROVE Region(i) \subseteq 0 .. next_free_offset - 1
    BY <2>1, <2>2, <2>3
  <2>6. ASSUME NEW i \in Inodes, NEW j \in Inodes \ {i} PROVE Region(i) \cap Region(j) = {}
    BY <2>1, <2>4
  <2> QED BY <2>5, <2>6 DEF RegionsApart
<1> QED BY <1>1, Invariant, PTL
=============================================================================
