---------------------------- MODULE FsStoreProofs ----------------------------
(***************************************************************************)
(* The RAM file system implements FileStore, for every size of its tables: *)
(* each call of Fs is, to the files and the handles, a step of FileStore   *)
(* or none.  The bytes nobody has written, which a later write may leave   *)
(* inside a file, have to be zero: that is the invariant Zeros.            *)
(***************************************************************************)
EXTENDS FsProofs

Zeros ==
  /\ \A b \in 0 .. DATA_BUF_SIZE - 1 : b >= next_free_offset => data_buf[b] = 0
  /\ \A i \in Inodes : kind[i] = "FILE" /\ size[i] > 0 =>
        \A k \in size[i] .. MAX_FILE_SIZE - 1 : data_buf[data_offset[i] + k] = 0

(* What FileStore calls exists, content and handle. *)
Existing == {i \in Inodes : kind[i] = "FILE"}
Contents == [i \in Inodes |-> Content(i)]
Handles == [fd \in FDs |-> Handle(fd)]

NoFile == [file |-> NONE, pos |-> 0]

LEMMA TableTypes ==
  ASSUME IInv
  PROVE  /\ kind \in [Inodes -> {"FREE", "FILE", "DIR"}]
         /\ size \in [Inodes -> 0 .. MAX_FILE_SIZE] /\ size \in [Inodes -> Nat]
         /\ data_offset \in [Inodes -> Nat]
         /\ next_free_offset \in 0 .. DATA_BUF_SIZE
         /\ fds \in [FDs -> Descriptors]
         /\ data_buf \in [0 .. DATA_BUF_SIZE - 1 -> Bytes \cup {0}]
         /\ NONE \notin Inodes /\ CLOSED \notin Inodes /\ TERMINAL \notin Inodes
<1>1. size \in [Inodes -> 0 .. MAX_FILE_SIZE]
  BY DEF IInv, Layout, LayoutTyped
<1>2. size \in [Inodes -> Nat]
  BY <1>1, Sizes
<1>3. NONE \notin Inodes /\ CLOSED \notin Inodes /\ TERMINAL \notin Inodes
  BY Sizes DEF NONE, CLOSED, TERMINAL, Inodes
<1> QED
  BY <1>1, <1>2, <1>3, TablesFields DEF IInv, References, Layout, LayoutTyped, BytesTyped

-----------------------------------------------------------------------------
(* What a file contains. *)

LEMMA ContentOf ==
  ASSUME IInv, NEW i \in Inodes
  PROVE  /\ kind[i] = "FILE" => /\ Len(Content(i)) = size[i]
                                /\ DOMAIN Content(i) = 1 .. size[i]
                                /\ \A k \in 1 .. size[i] :
                                     Content(i)[k] = data_buf[data_offset[i] + k - 1]
         /\ kind[i] # "FILE" => Content(i) = <<>>
<1>1. size[i] \in Nat
  BY TableTypes
<1> QED BY <1>1 DEF Content

LEMMA EmptyContent ==
  ASSUME NEW i \in Inodes, kind'[i] # "FILE" \/ size'[i] = 0
  PROVE  Content(i)' = <<>>
BY DEF Content

(* A file of the same size in the same place, its bytes as they were.      *)
LEMMA KeptContent ==
  ASSUME NEW i \in Inodes, data_buf' = data_buf,
         kind'[i] = "FILE" <=> kind[i] = "FILE",
         kind[i] = "FILE" => /\ size'[i] = size[i]
                             /\ data_offset'[i] = data_offset[i]
  PROVE  Content(i)' = Content(i)
BY DEF Content

LEMMA KeptHandle ==
  ASSUME NEW fd \in FDs, fds'[fd] = fds[fd],
         fds[fd].inode \in Inodes =>
           (kind'[fds[fd].inode] = "FILE" <=> kind[fds[fd].inode] = "FILE")
  PROVE  Handle(fd)' = Handle(fd)
BY DEF Handle, OnFile

(* Files that keep their bytes, or become empty or disappear, and a free   *)
(* part that does not grow: the zeros stay.                                *)
LEMMA KeptZeros ==
  ASSUME IInv, Zeros, data_buf' = data_buf,
         next_free_offset' \in Nat, next_free_offset' >= next_free_offset,
         \A i \in Inodes : kind'[i] = "FILE" /\ size'[i] > 0 =>
            /\ kind[i] = "FILE" /\ size'[i] = size[i]
            /\ data_offset'[i] = data_offset[i]
  PROVE  Zeros'
<1>1. next_free_offset \in Nat
  BY TableTypes, Sizes
<1>2. \A b \in 0 .. DATA_BUF_SIZE - 1 : b >= next_free_offset' => data_buf'[b] = 0
  BY <1>1, Sizes DEF Zeros
<1>3. ASSUME NEW i \in Inodes, kind'[i] = "FILE", size'[i] > 0
      PROVE  \A k \in size'[i] .. MAX_FILE_SIZE - 1 : data_buf'[data_offset'[i] + k] = 0
  BY <1>3 DEF Zeros
<1> QED BY <1>2, <1>3 DEF Zeros

-----------------------------------------------------------------------------
(* The steps of FileStore, told of Existing, Contents and Handles. *)

LEMMA IsOpen ==
  ASSUME NEW i \in Inodes, NEW keep \in BOOLEAN, keep => i \in Existing,
         Existing' = Existing \cup {i},
         Contents' = [Contents EXCEPT ![i] = IF keep THEN @ ELSE <<>>],
         \/ Handles' = Handles
         \/ \E fd \in FDs : /\ Handles[fd] = NoFile
                            /\ Handles' = [Handles EXCEPT ![fd] = [file |-> i, pos |-> 0]],
         got' = got
  PROVE  Files!Next
<1>1. Files!Open(i, keep)
  BY DEF Files!Open, Files!NoHandle, NoFile, Existing, Contents, Handles
<1> QED BY <1>1 DEF Files!Next

LEMMA IsRemove ==
  ASSUME NEW i \in Existing, \A fd \in FDs : Handles[fd].file # i,
         Existing' = Existing \ {i}, Contents' = [Contents EXCEPT ![i] = <<>>],
         Handles' = Handles, got' = got
  PROVE  Files!Next
<1>1. Files!Remove(i)
  BY DEF Files!Remove, Existing, Contents, Handles
<1> QED BY <1>1 DEF Files!Next, Existing

LEMMA IsStutter ==
  ASSUME Existing' = Existing, Contents' = Contents, Handles' = Handles, got' = got
  PROVE  UNCHANGED Files!vars
BY DEF Files!vars, Existing, Contents, Handles

LEMMA IsHandleStep ==
  ASSUME Existing' = Existing, Contents' = Contents, got' = got,
         NEW fd \in FDs,
         \/ Handles' = [Handles EXCEPT ![fd] = NoFile]
         \/ \E old \in FDs : Handles' = [Handles EXCEPT ![fd] = Handles[old]]
  PROVE  Files!Next
<1>1. CASE Handles' = [Handles EXCEPT ![fd] = NoFile]
  <2>1. Files!Close(fd)
    BY <1>1 DEF Files!Close, Files!NoHandle, NoFile, Existing, Contents, Handles
  <2> QED BY <2>1 DEF Files!Next
<1>2. ASSUME NEW old \in FDs, Handles' = [Handles EXCEPT ![fd] = Handles[old]]
      PROVE  Files!Next
  <2>1. Files!Dup(old, fd)
    BY <1>2 DEF Files!Dup, Existing, Contents, Handles
  <2> QED BY <2>1 DEF Files!Next
<1> QED BY <1>1, <1>2

LEMMA IsRead ==
  ASSUME NEW fd \in FDs, Handles[fd].file # NONE,
         NEW n \in 0 .. Len(Contents[Handles[fd].file]),
         Handles[fd].pos + n <= Len(Contents[Handles[fd].file]) \/ n = 0,
         got' = SubSeq(Contents[Handles[fd].file], Handles[fd].pos + 1, Handles[fd].pos + n),
         Existing' = Existing, Contents' = Contents,
         Handles' = [Handles EXCEPT ![fd].pos = Handles[fd].pos + n]
  PROVE  Files!Next
<1>1. Files!Read(fd)
  BY DEF Files!Read, Existing, Contents, Handles
<1> QED BY <1>1 DEF Files!Next

LEMMA IsSeek ==
  ASSUME NEW fd \in FDs, Handles[fd].file # NONE,
         NEW to \in 0 .. Len(Contents[Handles[fd].file]),
         Handles' = [Handles EXCEPT ![fd].pos = to],
         Existing' = Existing, Contents' = Contents, got' = got
  PROVE  Files!Next
<1>1. Files!Seek(fd)
  BY DEF Files!Seek, Existing, Contents, Handles
<1> QED BY <1>1 DEF Files!Next

LEMMA IsWrite ==
  ASSUME NEW fd \in FDs, NEW bytes \in Buffers, Handles[fd].file # NONE,
         Contents' = [Contents EXCEPT ![Handles[fd].file] =
                        Files!Overlay(@, Handles[fd].pos, bytes)],
         Handles' = [Handles EXCEPT ![fd].pos = Handles[fd].pos + Len(bytes)],
         Existing' = Existing, got' = got
  PROVE  Files!Next
<1>1. Files!Write(fd, bytes)
  BY DEF Files!Write, Existing, Contents, Handles
<1> QED BY <1>1 DEF Files!Next

-----------------------------------------------------------------------------
(* The calls that change no byte. *)

(* A call that changes no kind, no size and no place of a file.            *)
LEMMA SameFiles ==
  ASSUME IInv, Zeros, data_buf' = data_buf,
         next_free_offset' \in Nat, next_free_offset' >= next_free_offset,
         \A i \in Inodes : /\ kind'[i] = "FILE" <=> kind[i] = "FILE"
                           /\ kind[i] = "FILE" => /\ size'[i] = size[i]
                                                  /\ data_offset'[i] = data_offset[i]
  PROVE  Zeros' /\ Existing' = Existing /\ Contents' = Contents
<1>1. \A i \in Inodes : Content(i)' = Content(i)
  BY KeptContent
<1> QED BY <1>1, KeptZeros DEF Existing, Contents

(* ... and no descriptor of a file either.                                 *)
LEMMA SameHandles ==
  ASSUME IInv, \A i \in Inodes : kind'[i] = "FILE" <=> kind[i] = "FILE",
         NEW fd, \A f \in FDs \ {fd} : fds'[f] = fds[f],
         fd \in FDs => Handle(fd)' = Handle(fd)
  PROVE  Handles' = Handles
<1>1. \A f \in FDs : Handle(f)' = Handle(f)
  BY KeptHandle
<1> QED BY <1>1 DEF Handles

(* A descriptor that open has found, or none.                              *)
LEMMA OpenedHandles ==
  ASSUME IInv, NEW i \in Inodes, NEW fd \in FDs \cup {NONE}, FreeFd(fd),
         fds' = Opened(fd, i), kind'[i] = "FILE",
         \A j \in Inodes \ {i} : kind'[j] = kind[j],
         kind[i] = "FILE" \/ \A f \in FDs : fds[f].inode # i
  PROVE  \/ Handles' = Handles
         \/ \E f \in FDs : /\ Handles[f] = NoFile
                           /\ Handles' = [Handles EXCEPT ![f] = [file |-> i, pos |-> 0]]
<1>1. \A f \in FDs : fds[f].inode \in Inodes =>
         (kind'[fds[f].inode] = "FILE" <=> kind[fds[f].inode] = "FILE")
  OBVIOUS
<1>2. CASE fd = NONE
  <2>1. fds' = fds
    BY <1>2 DEF Opened
  <2>2. \A f \in FDs : Handle(f)' = Handle(f)
    BY <1>1, <2>1, KeptHandle
  <2> QED BY <2>2 DEF Handles
<1>3. CASE fd # NONE
  <2>1. fd \in FDs /\ fds[fd].inode = CLOSED
    BY <1>3 DEF FreeFd, Valid
  <2>2. fds' = [fds EXCEPT ![fd] = [inode |-> i, offset |-> 0]]
    BY <1>3 DEF Opened
  <2>3. /\ fds'[fd] = [inode |-> i, offset |-> 0]
        /\ \A f \in FDs \ {fd} : fds'[f] = fds[f]
    BY <2>1, <2>2, TableTypes
  <2>4. Handle(fd) = NoFile
    BY <2>1, TableTypes DEF Handle, OnFile, NoFile
  <2>5. Handle(fd)' = [file |-> i, pos |-> 0]
    BY <2>3 DEF Handle, OnFile
  <2>6. \A f \in FDs \ {fd} : Handle(f)' = Handle(f)
    BY <1>1, <2>3, KeptHandle
  <2>7. Handles' = [Handles EXCEPT ![fd] = [file |-> i, pos |-> 0]]
    BY <2>1, <2>5, <2>6 DEF Handles
  <2> QED BY <2>1, <2>4, <2>7 DEF Handles
<1> QED BY <1>2, <1>3

(* dir_add_entry moves no file.                                            *)
LEMMA AddEntryFiles ==
  ASSUME NEW t, NEW ks, NEW sz, LayoutTyped(t, ks, sz),
         NEW d \in Inodes, NEW name, NEW i \in Inodes,
         NEW t2, t2 = AddEntry(t, ks, d, name, i)
  PROVE  /\ t2.free >= t.free
         /\ \A j \in Inodes : ks[j] # "DIR" => t2.at[j] = t.at[j]
<1>1. t.free \in Nat /\ t.at \in [Inodes -> Nat]
  BY Sizes DEF LayoutTyped
<1>2. CASE ~HasRoom(t, ks, d)
  BY <1>1, <1>2 DEF AddEntry
<1>3. CASE HasRoom(t, ks, d)
  BY <1>1, <1>3, Sizes DEF AddEntry, AfterDir, HasRoom
<1> QED BY <1>2, <1>3

(* A new inode for a file or a directory leaves the other files in place.  *)
LEMMA ClearedFiles ==
  ASSUME IInv, NEW i \in Inodes, NEW j \in Inodes \ {i}
  PROVE  Cleared(i).at[j] = data_offset[j] /\ Cleared(i).free = next_free_offset
BY TableTypes DEF Cleared, Tables

LEMMA OpenCreateStep ==
  ASSUME IInv, Zeros, NEW path \in Paths, OpenCreate(path) PROVE Zeros' /\ Files!Next
<1> DEFINE d == Parent(path)
<1>1. PICK i \in Inodes, fd \in FDs \cup {NONE} :
        /\ Allocates(i)
        /\ FreeFd(fd)
        /\ kind' = [kind EXCEPT ![i] = "FILE"]
        /\ size' = [size EXCEPT ![i] = 0]
        /\ Put(AddEntry(Cleared(i), kind', d, Name(path), i))
        /\ fds' = Opened(fd, i)
  BY DEF OpenCreate
<1>2. d \in Inodes /\ UNCHANGED <<data_buf, got>>
  BY DEF OpenCreate
<1> HIDE DEF d
<1>3. /\ kind'[i] = "FILE" /\ size'[i] = 0
      /\ \A j \in Inodes \ {i} : kind'[j] = kind[j] /\ size'[j] = size[j]
  BY <1>1, TableTypes
<1>4. kind[i] = "FREE" /\ \A f \in FDs : fds[f].inode # i
  BY <1>1 DEF Allocates, IInv, References, NoStaleDescriptor
<1>5. LayoutTyped(Cleared(i), kind', size')
  BY <1>1, ClearedLayout DEF IInv, Layout
<1>6. /\ next_free_offset' >= Cleared(i).free
      /\ \A j \in Inodes : kind'[j] # "DIR" => data_offset'[j] = Cleared(i).at[j]
  <2> DEFINE t2 == AddEntry(Cleared(i), kind', d, Name(path), i)
  <2>1. next_free_offset' = t2.free /\ data_offset' = t2.at
    BY <1>1 DEF Put
  <2>2. t2 = AddEntry(Cleared(i), kind', d, Name(path), i)
    OBVIOUS
  <2> HIDE DEF t2
  <2>3. /\ t2.free >= Cleared(i).free
        /\ \A j \in Inodes : kind'[j] # "DIR" => t2.at[j] = Cleared(i).at[j]
    BY ONLY i \in Inodes, <1>2, <1>5, <2>2, AddEntryFiles
  <2> QED BY <2>1, <2>3
<1>7. next_free_offset' \in Nat
  <2>1. IInv'
    BY OpenCreateInv
  <2>2. (Tables.free)' \in 0 .. DATA_BUF_SIZE
    BY <2>1 DEF IInv, Layout, LayoutTyped
  <2> QED BY <2>2, Sizes DEF Tables
<1>8. next_free_offset' >= next_free_offset
  <2>1. Cleared(i).free = next_free_offset
    BY DEF Cleared, Tables
  <2> QED BY <1>6, <2>1
<1>9. \A j \in Inodes \ {i} : kind[j] = "FILE" => data_offset'[j] = data_offset[j]
  BY <1>3, <1>6, ClearedFiles
<1>10. Zeros'
  BY <1>2, <1>3, <1>7, <1>8, <1>9, KeptZeros
<1>11. Existing' = Existing \cup {i}
  BY <1>3 DEF Existing
<1>12. Contents' = [Contents EXCEPT ![i] = <<>>]
  <2>1. Content(i)' = <<>>
    BY <1>3, EmptyContent
  <2>2. \A j \in Inodes \ {i} : Content(j)' = Content(j)
    BY <1>2, <1>3, <1>9, KeptContent
  <2> QED BY <2>1, <2>2 DEF Contents
<1>13. \/ Handles' = Handles
       \/ \E f \in FDs : /\ Handles[f] = NoFile
                         /\ Handles' = [Handles EXCEPT ![f] = [file |-> i, pos |-> 0]]
  BY <1>1, <1>3, <1>4, OpenedHandles
<1>14. Contents' = [Contents EXCEPT ![i] = IF FALSE THEN @ ELSE <<>>]
  BY <1>12
<1>15. Files!Next
  BY <1>2, <1>11, <1>13, <1>14, IsOpen
<1> QED BY <1>10, <1>15

LEMMA OpenExistingStep ==
  ASSUME IInv, Zeros, NEW path, NEW truncate \in BOOLEAN, OpenExisting(path, truncate)
  PROVE  Zeros' /\ Files!Next
<1>1. PICK i \in Inodes :
        /\ i = Resolve(path) /\ kind[i] = "FILE"
        /\ size' = [size EXCEPT ![i] = IF truncate THEN 0 ELSE @]
        /\ UNCHANGED <<kind, data_offset, entries, data_buf, next_free_offset, got>>
  BY DEF OpenExisting, dataVars
<1>2. PICK fd \in FDs \cup {NONE} : FreeFd(fd) /\ fds' = Opened(fd, i)
  BY <1>1 DEF OpenExisting
<1>3. /\ size'[i] = (IF truncate THEN 0 ELSE size[i])
      /\ \A j \in Inodes \ {i} : size'[j] = size[j]
  BY <1>1, TableTypes
<1>4. next_free_offset' \in Nat /\ next_free_offset' >= next_free_offset
  BY <1>1, TableTypes, Sizes
<1>5. Zeros'
  BY <1>1, <1>3, <1>4, KeptZeros
<1>6. Existing' = Existing \cup {i} /\ i \in Existing
  BY <1>1 DEF Existing
<1>7. Content(i)' = IF truncate THEN <<>> ELSE Content(i)
  BY <1>1, <1>3, EmptyContent, KeptContent
<1>8. \A j \in Inodes \ {i} : Content(j)' = Content(j)
  BY <1>1, <1>3, KeptContent
<1>9. Contents' = [Contents EXCEPT ![i] = IF ~truncate THEN @ ELSE <<>>]
  BY <1>1, <1>7, <1>8 DEF Contents
<1>10. \/ Handles' = Handles
       \/ \E f \in FDs : /\ Handles[f] = NoFile
                         /\ Handles' = [Handles EXCEPT ![f] = [file |-> i, pos |-> 0]]
  BY <1>1, <1>2, OpenedHandles
<1>11. Files!Next
  BY <1>1, <1>6, <1>9, <1>10, IsOpen
<1> QED BY <1>5, <1>11

LEMMA UnlinkStep ==
  ASSUME IInv, Zeros, NEW path, Unlink(path) PROVE Zeros' /\ Files!Next
<1>1. PICK i \in Inodes :
        /\ kind[i] = "FILE" /\ ref_count[i] = 0
        /\ kind' = [kind EXCEPT ![i] = "FREE"]
        /\ UNCHANGED <<size, data_offset, data_buf, next_free_offset, fds, got>>
  BY DEF Unlink, Unlinkable, dataVars
<1>2. \A fd \in FDs : fds[fd].inode # i
  <2>1. Holders(fds, i) = {}
    BY <1>1, FiniteHolders, FS_EmptySet DEF IInv, References
  <2> QED BY <2>1 DEF Holders
<1>3. kind'[i] = "FREE" /\ \A j \in Inodes \ {i} : kind'[j] = kind[j]
  BY <1>1, TableTypes
<1>4. next_free_offset' \in Nat /\ next_free_offset' >= next_free_offset
  BY <1>1, TableTypes, Sizes
<1>5. Zeros'
  BY <1>1, <1>3, <1>4, KeptZeros
<1>6. Existing' = Existing \ {i} /\ i \in Existing
  BY <1>1, <1>3 DEF Existing
<1>7. Contents' = [Contents EXCEPT ![i] = <<>>]
  <2>1. Content(i)' = <<>>
    BY <1>3, EmptyContent
  <2>2. \A j \in Inodes \ {i} : Content(j)' = Content(j)
    BY <1>1, <1>3, KeptContent
  <2> QED BY <2>1, <2>2 DEF Contents
<1>8. Handles' = Handles
  <2>1. \A fd \in FDs : Handle(fd)' = Handle(fd)
    BY <1>1, <1>2, <1>3, KeptHandle
  <2> QED BY <2>1 DEF Handles
<1>9. \A fd \in FDs : Handles[fd].file # i
  BY <1>1, <1>2, TableTypes DEF Handles, Handle
<1>10. Files!Next
  BY <1>1, <1>6, <1>7, <1>8, <1>9, IsRemove
<1> QED BY <1>5, <1>10

(* A directory is made, or nothing but descriptors and counts change.      *)
LEMMA MkdirStep ==
  ASSUME IInv, Zeros, NEW path \in Paths, Mkdir(path)
  PROVE  Zeros' /\ UNCHANGED Files!vars
<1> DEFINE d == Parent(path)
           dot(i) == AddEntry(Cleared(i), kind', i, ".", i)
           dotdot(i) == AddEntry(dot(i), kind', i, "..", d)
           last(i) == AddEntry(dotdot(i), kind', d, Name(path), i)
<1>1. PICK i \in Inodes :
        /\ Allocates(i)
        /\ kind' = [kind EXCEPT ![i] = "DIR"]
        /\ size' = [size EXCEPT ![i] = 0]
        /\ Put(last(i))
  BY DEF Mkdir
<1>2. d \in Inodes /\ UNCHANGED <<data_buf, fds, got>>
  BY DEF Mkdir
<1>3. /\ kind'[i] = "DIR" /\ kind[i] = "FREE"
      /\ \A j \in Inodes \ {i} : kind'[j] = kind[j] /\ size'[j] = size[j]
  BY <1>1, TableTypes DEF Allocates
<1>4. Layout(Cleared(i), kind', size')
  BY <1>1, ClearedLayout DEF IInv
<1>5. next_free_offset' = last(i).free /\ data_offset' = last(i).at
  BY <1>1 DEF Put
<1>6. /\ dot(i) = AddEntry(Cleared(i), kind', i, ".", i)
      /\ dotdot(i) = AddEntry(dot(i), kind', i, "..", d)
      /\ last(i) = AddEntry(dotdot(i), kind', d, Name(path), i)
  OBVIOUS
<1> HIDE DEF d, dot, dotdot, last
<1>7. Layout(dot(i), kind', size')
  BY <1>4, <1>6, EntryNames, AddEntryLayout
<1>8. Layout(dotdot(i), kind', size')
  BY <1>2, <1>6, <1>7, EntryNames, AddEntryLayout
<1>9. Layout(last(i), kind', size')
  BY <1>2, <1>6, <1>8, EntryNames, AddEntryLayout
<1> DEFINE Kept(t, u) == /\ u.free >= t.free
                         /\ \A j \in Inodes : kind'[j] # "DIR" => u.at[j] = t.at[j]
<1>10. Kept(Cleared(i), dot(i))
  BY ONLY i \in Inodes, <1>4, <1>6, AddEntryFiles DEF Layout
<1>11. Kept(dot(i), dotdot(i))
  BY ONLY i \in Inodes, <1>2, <1>6, <1>7, AddEntryFiles DEF Layout
<1>12. Kept(dotdot(i), last(i))
  BY ONLY i \in Inodes, <1>2, <1>6, <1>8, AddEntryFiles DEF Layout
<1>13. /\ dot(i).free \in Nat /\ dotdot(i).free \in Nat /\ last(i).free \in Nat
       /\ Cleared(i).free = next_free_offset
  BY <1>7, <1>8, <1>9, Sizes DEF Layout, LayoutTyped, Cleared, Tables
<1>14. next_free_offset' \in Nat /\ next_free_offset' >= next_free_offset
  <2>1. next_free_offset \in Nat
    BY TableTypes, Sizes
  <2> QED BY <2>1, <1>5, <1>10, <1>11, <1>12, <1>13
<1>15. \A j \in Inodes : kind'[j] # "DIR" => data_offset'[j] = data_offset[j]
  <2>1. \A j \in Inodes : kind'[j] # "DIR" => last(i).at[j] = Cleared(i).at[j]
    BY <1>10, <1>11, <1>12
  <2> QED BY <2>1, <1>3, <1>5, ClearedFiles
<1>16. \A j \in Inodes : /\ kind'[j] = "FILE" <=> kind[j] = "FILE"
                         /\ kind[j] = "FILE" => /\ size'[j] = size[j]
                                                /\ data_offset'[j] = data_offset[j]
  BY <1>3, <1>15
<1>17. Zeros' /\ Existing' = Existing /\ Contents' = Contents
  BY <1>2, <1>14, <1>16, SameFiles
<1>18. Handles' = Handles
  <2>1. \A fd \in FDs : Handle(fd)' = Handle(fd)
    BY <1>2, <1>16, KeptHandle
  <2> QED BY <2>1 DEF Handles
<1> QED BY <1>2, <1>17, <1>18, IsStutter

(* A call that changes nothing but descriptors and counts.                 *)
LEMMA NoFileChanged ==
  ASSUME IInv, Zeros, UNCHANGED <<kind, size, data_offset, data_buf, next_free_offset>>
  PROVE  /\ Zeros' /\ Existing' = Existing /\ Contents' = Contents
         /\ \A fd \in FDs : fds'[fd] = fds[fd] => Handle(fd)' = Handle(fd)
<1>1. next_free_offset' \in Nat /\ next_free_offset' >= next_free_offset
  BY TableTypes, Sizes
<1>2. Zeros' /\ Existing' = Existing /\ Contents' = Contents
  BY <1>1, SameFiles
<1> QED BY <1>2, KeptHandle

LEMMA OpendirStep ==
  ASSUME IInv, Zeros, NEW path, Opendir(path) PROVE Zeros' /\ UNCHANGED Files!vars
<1>1. PICK fd \in FDs : FreeFd(fd) /\ fds' = Opened(fd, Resolve(path))
  BY DEF Opendir
<1>2. /\ kind[Resolve(path)] = "DIR"
      /\ UNCHANGED <<kind, size, data_offset, data_buf, next_free_offset, got>>
  BY DEF Opendir, dataVars
<1>3. fd # NONE /\ fds[fd].inode = CLOSED
  BY <1>1, Sizes DEF FDs, NONE, FreeFd, Valid
<1>4. /\ fds'[fd] = [inode |-> Resolve(path), offset |-> 0]
      /\ \A f \in FDs \ {fd} : fds'[f] = fds[f]
  BY <1>1, <1>3, TableTypes DEF Opened
<1>5. Handle(fd) = NoFile
  BY <1>3, TableTypes DEF Handle, OnFile, NoFile
<1>6. Handle(fd)' = NoFile
  BY <1>2, <1>4 DEF Handle, OnFile, NoFile
<1>7. Handles' = Handles
  BY <1>2, <1>4, <1>5, <1>6, SameHandles
<1> QED BY <1>2, <1>7, NoFileChanged, IsStutter

LEMMA ReaddirStep ==
  ASSUME IInv, Zeros, NEW fd \in FDs, Readdir(fd) PROVE Zeros' /\ UNCHANGED Files!vars
<1>1. PICK k \in DOMAIN entries[fds[fd].inode] : fds' = [fds EXCEPT ![fd].offset = k]
  BY DEF Readdir
<1>2. /\ kind[fds[fd].inode] = "DIR"
      /\ UNCHANGED <<kind, size, data_offset, data_buf, next_free_offset, got>>
  BY DEF Readdir, inodeVars, dataVars
<1>3. /\ fds'[fd].inode = fds[fd].inode
      /\ \A f \in FDs \ {fd} : fds'[f] = fds[f]
  BY <1>1, TableTypes DEF Descriptors
<1>4. Handle(fd)' = Handle(fd)
  BY <1>2, <1>3 DEF Handle, OnFile
<1>5. Handles' = Handles
  BY <1>2, <1>3, <1>4, SameHandles
<1> QED BY <1>2, <1>5, NoFileChanged, IsStutter

LEMMA CloseStep ==
  ASSUME IInv, Zeros, NEW fd \in FDs, Close(fd) PROVE Zeros' /\ Files!Next
<1>1. /\ fds' = [fds EXCEPT ![fd] = Closed]
      /\ UNCHANGED <<kind, size, data_offset, data_buf, next_free_offset, got>>
  BY DEF Close, dataVars
<1>2. fds'[fd].inode = CLOSED /\ \A f \in FDs \ {fd} : fds'[f] = fds[f]
  BY <1>1, TableTypes DEF Closed
<1>3. Handle(fd)' = NoFile
  BY <1>2, TableTypes DEF Handle, OnFile, NoFile
<1>4. \A f \in FDs \ {fd} : Handle(f)' = Handle(f)
  BY <1>1, <1>2, KeptHandle
<1>5. Handles' = [Handles EXCEPT ![fd] = NoFile]
  BY <1>3, <1>4 DEF Handles
<1> QED BY <1>1, <1>5, NoFileChanged, IsHandleStep

LEMMA Dup2Step ==
  ASSUME IInv, Zeros, NEW oldfd \in FDs, NEW newfd \in FDs, Dup2(oldfd, newfd)
  PROVE  Zeros' /\ Files!Next
<1>1. /\ fds' = [fds EXCEPT ![newfd] = fds[oldfd]]
      /\ UNCHANGED <<kind, size, data_offset, data_buf, next_free_offset, got>>
  BY DEF Dup2, dataVars
<1>2. fds'[newfd] = fds[oldfd] /\ \A f \in FDs \ {newfd} : fds'[f] = fds[f]
  BY <1>1, TableTypes
<1>3. Handle(newfd)' = Handle(oldfd)
  BY <1>1, <1>2 DEF Handle, OnFile
<1>4. \A f \in FDs \ {newfd} : Handle(f)' = Handle(f)
  BY <1>1, <1>2, KeptHandle
<1>5. Handles' = [Handles EXCEPT ![newfd] = Handles[oldfd]]
  BY <1>3, <1>4 DEF Handles
<1> QED BY <1>1, <1>5, NoFileChanged, IsHandleStep

(* Of a descriptor of a file, what the handle says.                        *)
LEMMA HandleOf ==
  ASSUME IInv, NEW fd \in FDs, OnFile(fd)
  PROVE  /\ fds[fd].inode \in Inodes /\ kind[fds[fd].inode] = "FILE"
         /\ fds[fd].offset \in Nat
         /\ Handles[fd] = [file |-> fds[fd].inode, pos |-> fds[fd].offset]
         /\ Handles[fd].file = fds[fd].inode /\ Handles[fd].pos = fds[fd].offset
         /\ Handles[fd].file # NONE
         /\ Contents[fds[fd].inode] = Content(fds[fd].inode)
BY TableTypes, FileTyped DEF OnFile, Handles, Handle, Contents

(* Moving its offset moves the position of the handle.                     *)
LEMMA MovedHandle ==
  ASSUME IInv, NEW fd \in FDs, OnFile(fd), kind' = kind, NEW to,
         fds' = [fds EXCEPT ![fd].offset = to]
  PROVE  Handles' = [Handles EXCEPT ![fd].pos = to]
<1>1. /\ fds'[fd].inode = fds[fd].inode /\ fds'[fd].offset = to
      /\ \A f \in FDs \ {fd} : fds'[f] = fds[f]
  BY TableTypes DEF Descriptors
<1>2. Handle(fd)' = [file |-> fds[fd].inode, pos |-> to]
  BY <1>1 DEF Handle, OnFile
<1>3. \A f \in FDs \ {fd} : Handle(f)' = Handle(f)
  BY <1>1, KeptHandle
<1>4. Handle(fd) = [file |-> fds[fd].inode, pos |-> fds[fd].offset]
  BY DEF Handle
<1>5. [Handle(fd) EXCEPT !.pos = to] = [file |-> fds[fd].inode, pos |-> to]
  BY <1>4
<1>6. Handles' = [Handles EXCEPT ![fd] = Handle(fd)']
  BY <1>3 DEF Handles
<1>7. [Handles EXCEPT ![fd].pos = to] = [Handles EXCEPT ![fd] = [Handle(fd) EXCEPT !.pos = to]]
  BY DEF Handles
<1> QED BY <1>2, <1>5, <1>6, <1>7

LEMMA LseekStep ==
  ASSUME IInv, Zeros, NEW fd \in FDs, NEW offset \in Offsets, NEW whence \in 0 .. 2,
         Lseek(fd, offset, whence)
  PROVE  Zeros' /\ Files!Next
<1> DEFINE i == fds[fd].inode
           to == CASE whence = 0 -> offset
                   [] whence = 1 -> fds[fd].offset + offset
                   [] whence = 2 -> size[i] + offset
           at == IF to < 0 THEN 0 ELSE IF to > size[i] THEN size[i] ELSE to
<1>1. /\ OnFile(fd)
      /\ fds' = [fds EXCEPT ![fd].offset = at]
      /\ UNCHANGED <<kind, size, data_offset, data_buf, next_free_offset, got>>
  BY DEF Lseek, inodeVars, dataVars
<1>2. /\ i \in Inodes /\ kind[i] = "FILE" /\ size[i] \in Nat /\ fds[fd].offset \in Nat
      /\ offset \in Int
  BY <1>1, HandleOf, TableTypes, InputsAssumption
<1>3. to \in Int
  <2>1. whence = 0 \/ whence = 1 \/ whence = 2
    OBVIOUS
  <2> QED BY <1>2, <2>1
<1> HIDE DEF to
<1>4. at \in 0 .. size[i]
  BY <1>2, <1>3
<1> HIDE DEF at
<1>5. at \in 0 .. Len(Contents[Handles[fd].file])
  <2>1. Handles[fd].file = i /\ Contents[i] = Content(i)
    BY <1>1, HandleOf, Zenon
  <2>2. Len(Content(i)) = size[i]
    BY <1>2, ContentOf
  <2> QED BY <1>4, <2>1, <2>2
<1>6. Handles' = [Handles EXCEPT ![fd].pos = at]
  BY <1>1, MovedHandle
<1>7. Zeros' /\ Existing' = Existing /\ Contents' = Contents
  BY <1>1, NoFileChanged
<1>8. Handles[fd].file # NONE
  BY <1>1, HandleOf
<1>9. Files!Next
  BY <1>1, <1>5, <1>6, <1>7, <1>8, IsSeek
<1> QED BY <1>7, <1>9

LEMMA ReadStep ==
  ASSUME IInv, Zeros, NEW fd \in FDs, NEW count \in Counts, Read(fd, count)
  PROVE  Zeros' /\ Files!Next
<1> DEFINE i == fds[fd].inode
           from == fds[fd].offset
           left == size[i] - from
           n == IF left <= 0 THEN 0 ELSE IF count > left THEN left ELSE count
<1>1. /\ OnFile(fd)
      /\ got' = [k \in 1 .. n |-> data_buf[data_offset[i] + from + k - 1]]
      /\ fds' = [fds EXCEPT ![fd].offset = @ + n]
      /\ UNCHANGED <<kind, size, data_offset, data_buf, next_free_offset>>
  BY DEF Read, inodeVars, dataVars
<1>2. /\ i \in Inodes /\ kind[i] = "FILE" /\ size[i] \in Nat /\ from \in Nat
      /\ data_offset[i] \in Nat /\ count \in Nat
  BY <1>1, HandleOf, TableTypes, InputsAssumption
<1>3. n \in Nat /\ n <= size[i] /\ (n = 0 \/ from + n <= size[i])
  BY <1>2
<1> HIDE DEF n
<1>4. /\ Len(Content(i)) = size[i]
      /\ \A k \in 1 .. size[i] : Content(i)[k] = data_buf[data_offset[i] + k - 1]
  BY <1>2, ContentOf
<1> HIDE DEF i, from
<1>5. got' = SubSeq(Content(i), from + 1, from + n)
  <2> DEFINE S == Bytes \cup {0}
             sub == SubSeq(Content(i), from + 1, from + n)
  <2>1. IInv'
    BY ReadInv
  <2>2. \A k \in 1 .. n : Content(i)[k + from] = data_buf[data_offset[i] + from + k - 1]
    <3> TAKE k \in 1 .. n
    <3>1. k + from \in 1 .. size[i]
      BY <1>2, <1>3
    <3>2. data_offset[i] + (k + from) - 1 = data_offset[i] + from + k - 1
      BY <1>2, <1>3
    <3> QED BY <1>4, <3>1, <3>2
  <2>3. got' \in Seq(S) /\ Len(got') = n /\ \A k \in 1 .. n : got'[k] \in S
    BY <1>1, <1>3, <2>1 DEF IInv, BytesTyped
  <2>4. \A k \in from + 1 .. from + n : Content(i)[k] \in S
    <3> TAKE k \in from + 1 .. from + n
    <3>1. k - from \in 1 .. n /\ (k - from) + from = k
      BY <1>2, <1>3
    <3>2. Content(i)[k] = got'[k - from]
      BY <1>1, <2>2, <3>1
    <3> QED BY <2>3, <3>1, <3>2
  <2>5. from + 1 \in Int /\ from + n \in Int
    BY <1>2, <1>3
  <2>6. /\ sub \in Seq(S)
        /\ Len(sub) = IF from + 1 <= from + n THEN (from + n) - (from + 1) + 1 ELSE 0
        /\ \A k \in 1 .. (from + n) - (from + 1) + 1 : sub[k] = Content(i)[(from + 1) + k - 1]
    BY <2>4, <2>5, SubSeqProperties
  <2> HIDE DEF sub, S
  <2>7. Len(sub) = n
    BY <1>2, <1>3, <2>6
  <2>8. ASSUME NEW k \in 1 .. n PROVE got'[k] = sub[k]
    <3>1. (from + 1) + k - 1 = k + from /\ k \in 1 .. (from + n) - (from + 1) + 1
      BY <1>2, <1>3
    <3> QED BY <1>1, <2>2, <2>6, <3>1
  <2>9. got' = sub
    BY <2>3, <2>6, <2>7, <2>8, SeqEqual
  <2> QED BY <2>9 DEF sub
<1>6. Handles[fd].file = i /\ Handles[fd].pos = from /\ Contents[i] = Content(i) /\ i # NONE
  BY <1>1, HandleOf DEF i, from
<1>7. Handles' = [Handles EXCEPT ![fd].pos = Handles[fd].pos + n]
  <2>1. fds' = [fds EXCEPT ![fd].offset = from + n]
    BY <1>1 DEF from
  <2> QED BY <1>1, <1>6, <2>1, MovedHandle
<1>8. Zeros' /\ Existing' = Existing /\ Contents' = Contents
  BY <1>1, NoFileChanged
<1>9. n \in 0 .. Len(Contents[Handles[fd].file])
  BY <1>2, <1>3, <1>4, <1>6
<1>10. Handles[fd].pos + n <= Len(Contents[Handles[fd].file]) \/ n = 0
  BY <1>3, <1>4, <1>6
<1>11. Files!Next
  BY <1>5, <1>6, <1>7, <1>8, <1>9, <1>10, IsRead
<1> QED BY <1>8, <1>11

-----------------------------------------------------------------------------
(* A write.  Its bytes are in the region of its file and in no other, and  *)
(* what it skips, or finds in a new region, is zero.                       *)

Place(i) == IF NeedsRegion(i) THEN next_free_offset ELSE data_offset[i]

(* What becomes of data_buf when bytes go to places from .. to - 1 of file *)
(* i, whose region is at `at'.                                             *)
Written(i, from, to, at, bytes) ==
  /\ \A k \in 0 .. MAX_FILE_SIZE - 1 :
       data_buf'[at + k] = IF from <= k /\ k < to THEN bytes[k - from + 1]
                                                  ELSE data_buf[at + k]
  /\ \A k \in size[i] .. MAX_FILE_SIZE - 1 : data_buf[at + k] = 0
  /\ \A b \in 0 .. DATA_BUF_SIZE - 1 : b >= next_free_offset' => data_buf'[b] = 0
  /\ \A j \in Inodes \ {i} : kind[j] = "FILE" /\ size[j] > 0 =>
       \A k \in 0 .. MAX_FILE_SIZE - 1 :
         data_buf'[data_offset[j] + k] = data_buf[data_offset[j] + k]

LEMMA WriteBytes ==
  ASSUME IInv, Zeros, NEW fd \in FDs, NEW bytes \in Buffers, Write(fd, bytes),
         NEW i \in Inodes, i = fds[fd].inode,
         NEW from \in Nat, from = fds[fd].offset,
         NEW to \in Nat, to = from + Len(bytes),
         NEW at \in Nat, at = Place(i)
  PROVE  Written(i, from, to, at, bytes)
<1> DEFINE D == DATA_BUF_SIZE
           M == MAX_FILE_SIZE
           nf == next_free_offset
           nf2 == next_free_offset'
<1>1. /\ kind[i] = "FILE" /\ to <= M
      /\ NeedsRegion(i) => nf + M <= D
      /\ nf2 = IF NeedsRegion(i) THEN nf + M ELSE nf
      /\ data_buf' = [b \in DOMAIN data_buf |->
                        IF b \in at + from .. at + to - 1 THEN bytes[b - (at + from) + 1]
                                                          ELSE data_buf[b]]
  BY DEF Write, OnFile, Place
<1>2. /\ nf \in Nat /\ nf <= D /\ D \in Nat /\ M \in Nat /\ M > 0
      /\ DOMAIN data_buf = 0 .. D - 1
      /\ \A j \in Inodes : data_offset[j] \in Nat /\ size[j] \in Nat
  BY TableTypes, Sizes
<1>3. Len(bytes) \in Nat /\ to \in Nat /\ from <= to
  <2>1. PICK n \in 0 .. M : bytes \in [1 .. n -> Bytes]
    BY DEF Buffers
  <2>2. n \in Nat
    BY <1>2, <2>1
  <2>3. Len(bytes) = n
    BY <2>1, <2>2
  <2> QED BY <2>2, <2>3
<1>4. \A j \in Inodes : kind[j] = "FILE" /\ size[j] > 0 =>
         /\ Span(Tables, kind, size, j) = M
         /\ data_offset[j] + M <= nf
  <2> TAKE j \in Inodes
  <2> HAVE kind[j] = "FILE" /\ size[j] > 0
  <2>1. Span(Tables, kind, size, j) = M
    BY DEF Span
  <2>2. Tables.at[j] + M <= Tables.free
    BY <1>2, <2>1 DEF IInv, Layout, Allocated
  <2> QED BY <2>1, <2>2, TablesFields
<1>5. \/ NeedsRegion(i) /\ at = nf
      \/ ~NeedsRegion(i) /\ at = data_offset[i] /\ size[i] > 0
  BY <1>2 DEF Place, NeedsRegion
<1>6. at + M <= D /\ at + M <= nf2 /\ nf2 \in Nat /\ nf2 >= nf
  <2>1. ~NeedsRegion(i) => at + M <= nf
    BY <1>1, <1>4, <1>5
  <2> QED BY <1>1, <1>2, <1>5, <2>1
<1>7. \A j \in Inodes \ {i} : kind[j] = "FILE" /\ size[j] > 0 =>
         \/ data_offset[j] + M <= at
         \/ at + M <= data_offset[j]
  <2> TAKE j \in Inodes \ {i}
  <2> HAVE kind[j] = "FILE" /\ size[j] > 0
  <2>1. CASE NeedsRegion(i)
    BY <1>4, <1>5, <2>1
  <2>2. CASE ~NeedsRegion(i)
    <3>1. Span(Tables, kind, size, i) = M /\ Span(Tables, kind, size, j) = M
      BY <1>1, <1>4, <1>5, <2>2
    <3>2. Tables.at[j] + M <= Tables.at[i] \/ Tables.at[i] + M <= Tables.at[j]
      BY <1>2, <3>1 DEF IInv, Layout, Apart
    <3> QED BY <1>5, <2>2, <3>2, TablesFields
  <2> QED BY <2>1, <2>2
<1>fits. to <= M
  BY <1>1
<1> DEFINE written(b) == b \in at + from .. at + to - 1
<1>8. \A b \in 0 .. D - 1 :
          data_buf'[b] = IF written(b) THEN bytes[b - (at + from) + 1] ELSE data_buf[b]
  BY <1>1, <1>2
<1>9. \A b \in Int : written(b) <=> at + from <= b /\ b < at + to
  BY <1>3
<1> HIDE DEF written
<1>10. \A b \in 0 .. D - 1 : b < at \/ b >= at + M => data_buf'[b] = data_buf[b]
  <2> TAKE b \in 0 .. D - 1
  <2> HAVE b < at \/ b >= at + M
  <2>1. b \in Int /\ at <= at + from /\ at + to <= at + M
    BY ONLY <1>2, <1>fits, from \in Nat, to \in Nat, at \in Nat, b \in 0 .. D - 1
  <2>2. ~(at + from <= b /\ b < at + to)
    BY ONLY <1>2, <2>1, from \in Nat, to \in Nat, at \in Nat, b < at \/ b >= at + M
  <2>3. ~written(b)
    BY ONLY <1>9, <2>1, <2>2
  <2> QED BY <1>8, <2>3
<1>11. \A k \in 0 .. M - 1 :
         data_buf'[at + k] = IF from <= k /\ k < to THEN bytes[k - from + 1]
                                                    ELSE data_buf[at + k]
  <2> TAKE k \in 0 .. M - 1
  <2>1. at + k \in 0 .. D - 1 /\ at + k \in Int
    BY <1>2, <1>6
  <2>2. written(at + k) <=> from <= k /\ k < to
    BY <1>9, <2>1
  <2>3. (at + k) - (at + from) + 1 = k - from + 1
    OBVIOUS
  <2> QED BY <1>8, <2>1, <2>2, <2>3
<1>12. \A k \in size[i] .. M - 1 : data_buf[at + k] = 0
  <2> TAKE k \in size[i] .. M - 1
  <2>1. CASE NeedsRegion(i)
    <3>1. at = nf
      BY ONLY <1>5, <2>1
    <3>2. size[i] \in Nat /\ M \in Nat /\ D \in Nat /\ at + M <= D
      BY <1>2, <1>6
    <3>3. k \in Nat /\ k < M
      BY ONLY <3>2, k \in size[i] .. M - 1
    <3>4. at + k \in 0 .. D - 1 /\ at + k >= nf
      BY ONLY <3>1, <3>2, <3>3, at \in Nat
    <3> QED BY <3>4 DEF Zeros
  <2>2. CASE ~NeedsRegion(i)
    BY <1>1, <1>5, <2>2 DEF Zeros
  <2> QED BY <2>1, <2>2
<1>13. \A b \in 0 .. D - 1 : b >= nf2 => data_buf'[b] = 0
  <2> TAKE b \in 0 .. D - 1
  <2> HAVE b >= nf2
  <2>1. b \in Int /\ b >= nf /\ b >= at + M
    BY ONLY <1>2, <1>6, b \in 0 .. D - 1, b >= nf2, at \in Nat
  <2>2. data_buf'[b] = data_buf[b]
    BY ONLY <1>10, <2>1, b \in 0 .. D - 1
  <2> QED BY <2>1, <2>2 DEF Zeros
<1>14. \A j \in Inodes \ {i} : kind[j] = "FILE" /\ size[j] > 0 =>
          \A k \in 0 .. M - 1 : data_buf'[data_offset[j] + k] = data_buf[data_offset[j] + k]
  <2> TAKE j \in Inodes \ {i}
  <2> HAVE kind[j] = "FILE" /\ size[j] > 0
  <2> TAKE k \in 0 .. M - 1
  <2> DEFINE b == data_offset[j] + k
  <2>1. /\ data_offset[j] \in Nat /\ data_offset[j] + M <= nf
        /\ data_offset[j] + M <= at \/ at + M <= data_offset[j]
    BY <1>2, <1>4, <1>7
  <2>2. b \in 0 .. D - 1 /\ (b < at \/ b >= at + M)
    BY ONLY <1>2, <2>1, k \in 0 .. M - 1, at \in Nat
  <2> QED BY <1>10, <2>2
<1> QED BY <1>11, <1>12, <1>13, <1>14 DEF Written

LEMMA WriteStep ==
  ASSUME IInv, Zeros, NEW fd \in FDs, NEW bytes \in Buffers, Write(fd, bytes)
  PROVE  Zeros' /\ Files!Next
<1>1. OnFile(fd)
  BY DEF Write
<1>2. PICK i \in Inodes, from \in Nat, to \in Nat, at \in Nat :
        /\ i = fds[fd].inode /\ from = fds[fd].offset
        /\ to = from + Len(bytes) /\ at = Place(i)
  <2>1. fds[fd].inode \in Inodes /\ fds[fd].offset \in Nat
    BY <1>1, HandleOf
  <2>2. Place(fds[fd].inode) \in Nat
    BY <2>1, TableTypes, Sizes DEF Place
  <2>3. PICK n \in 0 .. MAX_FILE_SIZE : bytes \in [1 .. n -> Bytes]
    BY DEF Buffers
  <2>4. n \in Nat
    BY <2>3, Sizes
  <2>5. Len(bytes) = n
    BY <2>3, <2>4
  <2>6. fds[fd].offset + Len(bytes) \in Nat
    BY <2>1, <2>4, <2>5
  <2> QED BY <2>1, <2>2, <2>6
<1>3. /\ kind[i] = "FILE" /\ to <= MAX_FILE_SIZE
      /\ data_offset' = [data_offset EXCEPT ![i] = at]
      /\ size' = [size EXCEPT ![i] = IF to > @ THEN to ELSE @]
      /\ fds' = [fds EXCEPT ![fd].offset = to]
      /\ kind' = kind /\ got' = got
  BY <1>1, <1>2 DEF Write, OnFile, Place
<1>4. /\ size[i] \in Nat /\ size[i] <= MAX_FILE_SIZE /\ MAX_FILE_SIZE \in Nat
      /\ DATA_BUF_SIZE \in Nat
      /\ \A j \in Inodes : size[j] \in 0 .. MAX_FILE_SIZE
  BY TableTypes, Sizes
<1>5. /\ data_offset'[i] = at /\ size'[i] = (IF to > size[i] THEN to ELSE size[i])
      /\ \A j \in Inodes \ {i} : data_offset'[j] = data_offset[j] /\ size'[j] = size[j]
  BY <1>3, TableTypes
<1>6. /\ \A k \in 0 .. MAX_FILE_SIZE - 1 :
           data_buf'[at + k] = IF from <= k /\ k < to THEN bytes[k - from + 1]
                                                      ELSE data_buf[at + k]
      /\ \A k \in size[i] .. MAX_FILE_SIZE - 1 : data_buf[at + k] = 0
      /\ \A b \in 0 .. DATA_BUF_SIZE - 1 : b >= next_free_offset' => data_buf'[b] = 0
      /\ \A j \in Inodes \ {i} : kind[j] = "FILE" /\ size[j] > 0 =>
           \A k \in 0 .. MAX_FILE_SIZE - 1 :
             data_buf'[data_offset[j] + k] = data_buf[data_offset[j] + k]
  <2>1. Written(i, from, to, at, bytes)
    BY <1>2, WriteBytes
  <2> QED BY ONLY <2>1 DEF Written
<1>7. size'[i] \in Nat /\ size'[i] <= MAX_FILE_SIZE /\ to <= size'[i] /\ size[i] <= size'[i]
  <2>1. to <= MAX_FILE_SIZE
    BY <1>3
  <2>2. size'[i] = IF to > size[i] THEN to ELSE size[i]
    BY ONLY <1>5
  <2> QED BY ONLY <1>4, <2>1, <2>2, to \in Nat
<1>8. Zeros'
  <2>1. ASSUME NEW k \in size'[i] .. MAX_FILE_SIZE - 1
        PROVE  data_buf'[data_offset'[i] + k] = 0
    <3>1. k \in 0 .. MAX_FILE_SIZE - 1 /\ k \in size[i] .. MAX_FILE_SIZE - 1 /\ ~(k < to)
      BY <1>4, <1>7
    <3> QED BY <1>5, <1>6, <3>1
  <2>2. ASSUME NEW j \in Inodes \ {i}, kind'[j] = "FILE", size'[j] > 0,
               NEW k \in size'[j] .. MAX_FILE_SIZE - 1
        PROVE  data_buf'[data_offset'[j] + k] = 0
    <3>1. /\ kind[j] = "FILE" /\ size[j] > 0 /\ k \in size[j] .. MAX_FILE_SIZE - 1
          /\ data_offset'[j] = data_offset[j]
      BY <1>3, <1>5, <2>2
    <3>2. k \in 0 .. MAX_FILE_SIZE - 1
      BY <1>4, <3>1
    <3>3. data_buf[data_offset[j] + k] = 0
      BY <3>1 DEF Zeros
    <3> QED BY <1>6, <3>1, <3>2, <3>3
  <2> QED BY <1>6, <2>1, <2>2 DEF Zeros
<1>9. Content(i)' = Files!Overlay(Content(i), from, bytes)
  <2> DEFINE c == Content(i)
             end == from + Len(bytes)
             last == IF end > Len(c) THEN end ELSE Len(c)
             over(k) == IF k \in from + 1 .. end THEN bytes[k - from]
                        ELSE IF k <= Len(c) THEN c[k] ELSE 0
  <2>1. Files!Overlay(c, from, bytes) = [k \in 1 .. last |-> over(k)]
    BY DEF Files!Overlay
  <2>2. /\ Len(c) = size[i]
        /\ \A k \in 1 .. size[i] : c[k] = data_buf[data_offset[i] + k - 1]
    BY <1>3, ContentOf
  <2>3. last = size'[i] /\ end = to
    BY <1>2, <1>5, <2>2
  <2>4. Content(i)' = [k \in 1 .. size'[i] |-> data_buf'[at + k - 1]]
    BY <1>3, <1>5 DEF Content
  <2>5. ASSUME NEW k \in 1 .. size'[i] PROVE data_buf'[at + k - 1] = over(k)
    <3> HIDE DEF c, end, last
    <3>1. /\ k - 1 \in 0 .. MAX_FILE_SIZE - 1 /\ at + (k - 1) = at + k - 1
          /\ (k - 1) - from + 1 = k - from
          /\ k \in from + 1 .. end <=> from <= k - 1 /\ k - 1 < to
      BY <1>4, <1>7, <2>3
    <3>2. data_buf'[at + k - 1] = IF k \in from + 1 .. end THEN bytes[k - from]
                                                           ELSE data_buf[at + k - 1]
      BY <1>6, <3>1
    <3>3. CASE k <= size[i]
      <4>1. k \in 1 .. size[i]
        BY <1>4, <1>7, <3>3
      <4>2. at = data_offset[i]
        BY <1>2, <1>4, <4>1 DEF Place, NeedsRegion
      <4>3. c[k] = data_buf[at + k - 1]
        BY <2>2, <4>1, <4>2
      <4> QED BY <2>2, <3>2, <3>3, <4>3
    <3>4. CASE ~(k <= size[i])
      <4>1. k - 1 \in size[i] .. MAX_FILE_SIZE - 1
        BY <1>4, <1>7, <3>4
      <4>2. data_buf[at + k - 1] = 0
        BY <1>6, <3>1, <4>1
      <4> QED BY <2>2, <3>2, <3>4, <4>2
    <3> QED BY <3>3, <3>4
  <2> HIDE DEF c, over, last
  <2>6. [k \in 1 .. size'[i] |-> data_buf'[at + k - 1]] = [k \in 1 .. last |-> over(k)]
    BY <2>3, <2>5
  <2> QED BY <2>1, <2>4, <2>6 DEF c
<1>10. \A j \in Inodes \ {i} : Content(j)' = Content(j)
  <2> TAKE j \in Inodes \ {i}
  <2>1. CASE kind[j] # "FILE"
    BY <1>3, <2>1 DEF Content
  <2>2. CASE kind[j] = "FILE"
    <3>1. \A k \in 1 .. size[j] :
             data_buf'[data_offset[j] + k - 1] = data_buf[data_offset[j] + k - 1]
      <4> TAKE k \in 1 .. size[j]
      <4>1. /\ k - 1 \in 0 .. MAX_FILE_SIZE - 1 /\ size[j] > 0
            /\ data_offset[j] + (k - 1) = data_offset[j] + k - 1
        BY <1>4, TableTypes
      <4> QED BY <1>6, <2>2, <4>1
    <3> QED BY <1>3, <1>5, <2>2, <3>1 DEF Content
  <2> QED BY <2>1, <2>2
<1>11. Handles[fd].file = i /\ Handles[fd].pos = from /\ Contents[i] = Content(i) /\ i # NONE
  BY <1>1, <1>2, HandleOf
<1>12. Contents' = [Contents EXCEPT ![i] = Files!Overlay(@, from, bytes)]
  <2>1. Contents' = [Contents EXCEPT ![i] = Content(i)']
    BY <1>10 DEF Contents
  <2> QED BY <1>9, <1>11, <2>1
<1>13. Handles' = [Handles EXCEPT ![fd].pos = Handles[fd].pos + Len(bytes)]
  BY <1>1, <1>2, <1>3, <1>11, MovedHandle
<1>14. Existing' = Existing
  BY <1>3 DEF Existing
<1>15. Files!Next
  BY <1>3, <1>11, <1>12, <1>13, <1>14, IsWrite
<1> QED BY <1>8, <1>15

-----------------------------------------------------------------------------

LEMMA InitStore == Init => Zeros /\ Files!Init
<1> SUFFICES ASSUME Init PROVE Zeros /\ Files!Init
  OBVIOUS
<1>1. Zeros
  BY DEF Init, Zeros
<1>2. Existing = {}
  BY DEF Init, Existing
<1>3. Contents = [i \in Inodes |-> <<>>]
  BY DEF Init, Contents, Content
<1>4. Handles = [fd \in FDs |-> NoFile]
  <2>1. IInv
    BY InitInv
  <2>2. \A fd \in FDs : fds[fd].inode \in {TERMINAL, CLOSED}
    BY DEF Init, Terminal, Closed
  <2>3. \A fd \in FDs : Handle(fd) = NoFile
    BY <2>1, <2>2, TableTypes DEF Handle, OnFile, NoFile
  <2> QED BY <2>3 DEF Handles
<1>5. got = <<>>
  BY DEF Init
<1> QED
  BY <1>1, <1>2, <1>3, <1>4, <1>5
  DEF Files!Init, Files!NoHandle, NoFile, Existing, Contents, Handles

LEMMA NextStore == IInv /\ Zeros /\ [Next]_vars => Zeros' /\ [Files!Next]_(Files!vars)
<1> SUFFICES ASSUME IInv, Zeros, [Next]_vars
             PROVE  Zeros' /\ (Files!Next \/ UNCHANGED Files!vars)
  OBVIOUS
<1>1. ASSUME NEW path \in Paths, OpenCreate(path) PROVE Zeros' /\ Files!Next
  BY <1>1, OpenCreateStep
<1>2. ASSUME NEW path \in Paths, NEW truncate \in BOOLEAN, OpenExisting(path, truncate)
      PROVE  Zeros' /\ Files!Next
  BY <1>2, OpenExistingStep
<1>3. ASSUME NEW path \in Paths, Opendir(path) PROVE Zeros' /\ UNCHANGED Files!vars
  BY <1>3, OpendirStep
<1>4. ASSUME NEW path \in Paths, Mkdir(path) PROVE Zeros' /\ UNCHANGED Files!vars
  BY <1>4, MkdirStep
<1>5. ASSUME NEW path \in Paths, Unlink(path) PROVE Zeros' /\ Files!Next
  BY <1>5, UnlinkStep
<1>6. ASSUME NEW fd \in FDs, Close(fd) PROVE Zeros' /\ Files!Next
  BY <1>6, CloseStep
<1>7. ASSUME NEW fd \in FDs, Readdir(fd) PROVE Zeros' /\ UNCHANGED Files!vars
  BY <1>7, ReaddirStep
<1>8. ASSUME NEW fd \in FDs, NEW newfd \in FDs, Dup2(fd, newfd) PROVE Zeros' /\ Files!Next
  BY <1>8, Dup2Step
<1>9. ASSUME NEW fd \in FDs, NEW count \in Counts, Read(fd, count)
      PROVE  Zeros' /\ Files!Next
  BY <1>9, ReadStep
<1>10. ASSUME NEW fd \in FDs, NEW bytes \in Buffers, Write(fd, bytes)
       PROVE  Zeros' /\ Files!Next
  BY <1>10, WriteStep
<1>11. ASSUME NEW fd \in FDs, NEW offset \in Offsets, NEW whence \in 0 .. 2,
              Lseek(fd, offset, whence)
       PROVE  Zeros' /\ Files!Next
  BY <1>11, LseekStep
<1>12. ASSUME UNCHANGED vars PROVE Zeros' /\ UNCHANGED Files!vars
  <2>1. UNCHANGED <<kind, size, data_offset, data_buf, next_free_offset, fds, got>>
    BY <1>12 DEF vars
  <2>2. Handles' = Handles
    BY <2>1, NoFileChanged DEF Handles
  <2> QED BY <2>1, <2>2, NoFileChanged, IsStutter
<1> QED
  BY <1>1, <1>2, <1>3, <1>4, <1>5, <1>6, <1>7, <1>8, <1>9, <1>10, <1>11, <1>12 DEF Next

(* What programs see of files is what FileStore promises: a file is the    *)
(* bytes written to it, gaps read as zero, what was truncated or removed   *)
(* stays gone, and no call touches the bytes of another file.              *)
THEOREM StoreImplemented == Spec => ImplementsFileStore
BY InitInv, NextInv, InitStore, NextStore, PTL DEF Spec, ImplementsFileStore, Files!Spec
=============================================================================
