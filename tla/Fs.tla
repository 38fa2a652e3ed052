--------------------------------- MODULE Fs ---------------------------------
(***************************************************************************)
(* The RAM file system of the letsgo kernel: fs.c and fs.h.                *)
(*                                                                         *)
(* Every call runs to completion (no system call is preempted, and only a  *)
(* read of the terminal yields), so a call is one step, whichever process  *)
(* makes it: there is one table of file descriptors for all of them.  A    *)
(* call that returns -1 without having changed anything is a stuttering    *)
(* step and has no action here.                                            *)
(*                                                                         *)
(* inode_table[i].used and .type are one function: "FREE" when not used.   *)
(* The entries of a directory are a sequence kept apart from data_buf, of  *)
(* which they take DirBytes bytes; `size' of a directory is its length.    *)
(* The flags stored in a descriptor are never read and are left out.       *)
(***************************************************************************)
EXTENDS Integers, Sequences, FiniteSets

CONSTANTS
  MAX_INODES,
  MAX_FD,
  FirstFd,           \* descriptors below it are the terminal's at boot: 3
  MAX_DIR_ENTRIES,
  DirBytes,          \* what the entries of a directory take in data_buf
  MAX_FILE_SIZE,
  DATA_BUF_SIZE,
  Paths,             \* the paths programs use: sequences of components
  Bytes,             \* the bytes they write
  Counts,            \* the counts they pass to read()
  Offsets            \* the offsets they pass to lseek()

ASSUME SizesAssumption ==
  /\ {MAX_INODES, MAX_FD, MAX_DIR_ENTRIES, DirBytes, MAX_FILE_SIZE, DATA_BUF_SIZE}
       \subseteq Nat \ {0}
  /\ FirstFd \in 0 .. MAX_FD
  /\ MAX_DIR_ENTRIES >= 2
  /\ DirBytes <= DATA_BUF_SIZE
ASSUME InputsAssumption ==
  /\ Paths \subseteq Seq(STRING) \ {<<>>}
  /\ Bytes \subseteq Nat /\ Counts \subseteq Nat /\ Offsets \subseteq Int

Inodes == 0 .. MAX_INODES - 1
FDs == 0 .. MAX_FD - 1
ROOT == 0
TERMINAL == -1         \* TERMINAL_INODE
CLOSED == -2           \* the inode of a descriptor that is not valid
NONE == -3             \* what a lookup that fails returns

VARIABLES
  kind,              \* "FREE", "FILE" or "DIR" for each inode
  size,              \* bytes in a file
  data_offset,       \* where in data_buf its bytes, or its entries, start
  ref_count,
  entries,           \* the entries of a directory, in the order added
  data_buf,          \* the bytes of files
  next_free_offset,
  fds,               \* current_fd_table
  got                \* the bytes the last read() returned

inodeVars == <<kind, size, data_offset, ref_count, entries>>
dataVars == <<data_buf, next_free_offset>>
vars == <<kind, size, data_offset, ref_count, entries, data_buf, next_free_offset,
          fds, got>>

Descriptors == [inode : Inodes \cup {TERMINAL, CLOSED}, offset : Nat]
Closed == [inode |-> CLOSED, offset |-> 0]
Terminal == [inode |-> TERMINAL, offset |-> 0]
Valid(fd) == fds[fd].inode # CLOSED

TypeOK ==
  /\ kind \in [Inodes -> {"FREE", "FILE", "DIR"}]
  /\ size \in [Inodes -> Nat]
  /\ data_offset \in [Inodes -> Nat]
  /\ ref_count \in [Inodes -> Nat]
  /\ \A i \in Inodes : \A k \in DOMAIN entries[i] : entries[i][k].inode \in Inodes
  /\ data_buf \in [0 .. DATA_BUF_SIZE - 1 -> Bytes \cup {0}]
  /\ next_free_offset \in 0 .. DATA_BUF_SIZE
  /\ fds \in [FDs -> Descriptors]
  /\ got \in Seq(Bytes \cup {0})

-----------------------------------------------------------------------------
(* Directories. *)

(* The positions of directory d where dir_lookup() would accept an entry.  *)
Matches(d, name) ==
  {k \in DOMAIN entries[d] : /\ entries[d][k].name = name
                             /\ kind[entries[d][k].inode] # "FREE"}

(* dir_lookup(): the first of them. *)
Lookup(d, name) ==
  IF kind[d] # "DIR" \/ Matches(d, name) = {} THEN NONE
  ELSE entries[d][CHOOSE k \in Matches(d, name) : \A m \in Matches(d, name) : k <= m].inode

(* fs_resolve_path().  The working directory is always the root: nothing   *)
(* assigns current_cwd after fs_init().                                    *)
Resolve(path) ==
  LET walk[n \in 0 .. Len(path)] ==
        IF n = 0 THEN ROOT
        ELSE IF walk[n - 1] = NONE \/ kind[walk[n - 1]] # "DIR" THEN NONE
        ELSE IF path[n] = "." THEN walk[n - 1]
        ELSE Lookup(walk[n - 1], path[n])
  IN walk[Len(path)]

Parent(path) == Resolve(SubSeq(path, 1, Len(path) - 1))
Name(path) == path[Len(path)]

(* What dir_add_entry() does to the entries, the offsets of inodes and the *)
(* free part of data_buf: t is a record of the three, ks the kinds.  When  *)
(* it fails it returns -1, which no caller looks at.                       *)
Tables == [entries |-> entries, at |-> data_offset, free |-> next_free_offset]

HasRoomUnchecked(t, ks, d) == ks[d] = "DIR" /\ Len(t.entries[d]) < MAX_DIR_ENTRIES

HasRoom(t, ks, d) ==
  /\ ks[d] = "DIR"
  /\ Len(t.entries[d]) < MAX_DIR_ENTRIES
  /\ t.entries[d] = <<>> => t.free + DirBytes <= DATA_BUF_SIZE

(* The free part of data_buf once it has given a directory its entries. *)
AfterDirNoAdvance(free) == free

AfterDir(free) == free + DirBytes

AddEntry(t, ks, d, name, i) ==
  LET first == t.entries[d] = <<>>
  IN IF ~HasRoom(t, ks, d) THEN t
     ELSE [entries |-> [t.entries EXCEPT ![d] = Append(@, [name |-> name, inode |-> i])],
           at |-> IF first THEN [t.at EXCEPT ![d] = t.free] ELSE t.at,
           free |-> IF first THEN AfterDir(t.free) ELSE t.free]

(* Making t the state. *)
Put(t) == /\ entries' = t.entries
            /\ data_offset' = t.at
            /\ next_free_offset' = t.free

(* alloc_inode() returns i, and the tables it leaves. *)
Allocates(i) == /\ kind[i] = "FREE"
                /\ \A j \in Inodes : j < i => kind[j] # "FREE"

Cleared(i) == [Tables EXCEPT !.entries[i] = <<>>, !.at[i] = 0]

-----------------------------------------------------------------------------
(* Descriptors. *)

(* The descriptor open() and opendir() pick, or NONE when all are taken. *)
FreeFd(fd) ==
  LET free == {f \in FirstFd .. MAX_FD - 1 : ~Valid(f)}
  IN \/ fd \in free /\ \A f \in free : fd <= f
     \/ free = {} /\ fd = NONE

(* Opening inode i there. *)
Opened(fd, i) == IF fd = NONE THEN fds ELSE [fds EXCEPT ![fd] = [inode |-> i, offset |-> 0]]

(* The reference counts once descriptor fd is closed. *)
DroppedNever(fd) == ref_count

Dropped(fd) ==
  LET i == fds[fd].inode
  IN IF i \in Inodes /\ ref_count[i] > 0 THEN [ref_count EXCEPT ![i] = @ - 1] ELSE ref_count

(* fs_open() of a path that does not resolve, with O_CREAT.  The new file  *)
(* is there even if its directory had no room for its name, and even if    *)
(* there is no descriptor left and the call fails.                         *)
OpenCreate(path) ==
  /\ Resolve(path) = NONE
  /\ Parent(path) \in Inodes
  /\ \E i \in Inodes, fd \in FDs \cup {NONE} :
       /\ Allocates(i)
       /\ FreeFd(fd)
       /\ kind' = [kind EXCEPT ![i] = "FILE"]
       /\ size' = [size EXCEPT ![i] = 0]
       /\ Put(AddEntry(Cleared(i), kind', Parent(path), Name(path), i))
       /\ fds' = Opened(fd, i)
       /\ ref_count' = [ref_count EXCEPT ![i] = IF fd = NONE THEN 0 ELSE 1]
  /\ UNCHANGED <<data_buf, got>>

(* fs_open() of a file that is there.  O_TRUNC with a write mode empties it *)
(* first, again even if there is no descriptor left.                        *)
OpenExisting(path, truncate) ==
  /\ Resolve(path) \in Inodes
  /\ kind[Resolve(path)] = "FILE"
  /\ \E fd \in FDs \cup {NONE} :
       /\ FreeFd(fd)
       /\ fds' = Opened(fd, Resolve(path))
       /\ ref_count' = [ref_count EXCEPT ![Resolve(path)] = IF fd = NONE THEN @ ELSE @ + 1]
  /\ size' = [size EXCEPT ![Resolve(path)] = IF truncate THEN 0 ELSE @]
  /\ UNCHANGED <<kind, data_offset, entries, dataVars, got>>

(* fs_opendir() *)
Opendir(path) ==
  /\ Resolve(path) \in Inodes
  /\ kind[Resolve(path)] = "DIR"
  /\ \E fd \in FDs :
       /\ FreeFd(fd)
       /\ fds' = Opened(fd, Resolve(path))
  /\ ref_count' = [ref_count EXCEPT ![Resolve(path)] = @ + 1]
  /\ UNCHANGED <<kind, size, data_offset, entries, dataVars, got>>

(* fs_close() *)
Close(fd) ==
  /\ Valid(fd)
  /\ fds' = [fds EXCEPT ![fd] = Closed]
  /\ ref_count' = Dropped(fd)
  /\ UNCHANGED <<kind, size, data_offset, entries, dataVars, got>>

(* fs_dup2(): newfd is closed first, then becomes a copy with an offset of *)
(* its own.                                                                *)
Dup2(oldfd, newfd) ==
  /\ Valid(oldfd)
  /\ oldfd # newfd
  /\ fds' = [fds EXCEPT ![newfd] = fds[oldfd]]
  /\ ref_count' = [i \in Inodes |-> Dropped(newfd)[i] + IF i = fds[oldfd].inode THEN 1 ELSE 0]
  /\ UNCHANGED <<kind, size, data_offset, entries, dataVars, got>>

-----------------------------------------------------------------------------
(* Files. *)

OnFile(fd) == fds[fd].inode \in Inodes /\ kind[fds[fd].inode] = "FILE"

(* fs_read() of a file.  (Of the terminal it changes nothing here.) *)
Read(fd, count) ==
  LET i == fds[fd].inode
      left == size[i] - fds[fd].offset
      n == IF left <= 0 THEN 0 ELSE IF count > left THEN left ELSE count
  IN /\ OnFile(fd)
     /\ got' = [k \in 1 .. n |-> data_buf[data_offset[i] + fds[fd].offset + k - 1]]
     /\ fds' = [fds EXCEPT ![fd].offset = @ + n]
     /\ UNCHANGED <<inodeVars, dataVars>>

(* Whether fs_write() gives file i a new region of data_buf: it does when  *)
(* the file is empty.  The region it may have had before it was truncated  *)
(* is never used again.                                                    *)
NeedsRegionOnce(i) == data_offset[i] = 0

NeedsRegion(i) == size[i] = 0

(* fs_write() of a file. *)
Write(fd, bytes) ==
  LET i == fds[fd].inode
      from == fds[fd].offset
      to == from + Len(bytes)
      at == IF NeedsRegion(i) THEN next_free_offset ELSE data_offset[i]
  IN /\ OnFile(fd)
     /\ to <= MAX_FILE_SIZE
     /\ NeedsRegion(i) => next_free_offset + MAX_FILE_SIZE <= DATA_BUF_SIZE
     /\ data_offset' = [data_offset EXCEPT ![i] = at]
     /\ next_free_offset' = IF NeedsRegion(i) THEN next_free_offset + MAX_FILE_SIZE
                                              ELSE next_free_offset
     /\ data_buf' = [b \in DOMAIN data_buf |->
                       IF b \in at + from .. at + to - 1 THEN bytes[b - (at + from) + 1]
                                                         ELSE data_buf[b]]
     /\ size' = [size EXCEPT ![i] = IF to > @ THEN to ELSE @]
     /\ fds' = [fds EXCEPT ![fd].offset = to]
     /\ UNCHANGED <<kind, ref_count, entries, got>>

(* fs_lseek(): relative to the start, the offset or the end, then clamped. *)
Lseek(fd, offset, whence) ==
  LET i == fds[fd].inode
      to == CASE whence = 0 -> offset
              [] whence = 1 -> fds[fd].offset + offset
              [] whence = 2 -> size[i] + offset
  IN /\ OnFile(fd)
     /\ fds' = [fds EXCEPT ![fd].offset = IF to < 0 THEN 0
                                          ELSE IF to > size[i] THEN size[i] ELSE to]
     /\ UNCHANGED <<inodeVars, dataVars, got>>

(* fs_mkdir(): three entries are added, none of them checked.  The name    *)
(* must not be in use; that its parent is a directory is not asked.        *)
Mkdir(path) ==
  /\ Parent(path) \in Inodes
  /\ Lookup(Parent(path), Name(path)) = NONE
  /\ \E i \in Inodes :
       /\ Allocates(i)
       /\ kind' = [kind EXCEPT ![i] = "DIR"]
       /\ LET dot == AddEntry(Cleared(i), kind', i, ".", i)
              dotdot == AddEntry(dot, kind', i, "..", Parent(path))
          IN Put(AddEntry(dotdot, kind', Parent(path), Name(path), i))
       /\ size' = [size EXCEPT ![i] = 0]
       /\ ref_count' = [ref_count EXCEPT ![i] = 0]
  /\ UNCHANGED <<data_buf, fds, got>>

(* What fs_unlink() removes: a file that is not open. *)
UnlinkableOpenToo(i) == kind[i] = "FILE"

Unlinkable(i) == kind[i] = "FILE" /\ ref_count[i] = 0

(* fs_unlink(): the inode is freed, its name stays in the directory. *)
Unlink(path) ==
  /\ Resolve(path) \in Inodes
  /\ Unlinkable(Resolve(path))
  /\ kind' = [kind EXCEPT ![Resolve(path)] = "FREE"]
  /\ UNCHANGED <<size, data_offset, ref_count, entries, dataVars, fds, got>>

(* fs_readdir(): the next entry in use.  Programs call it with what        *)
(* opendir() gave them (fs.c does not check for the terminal).             *)
Readdir(fd) ==
  /\ fds[fd].inode \in Inodes
  /\ kind[fds[fd].inode] = "DIR"
  /\ \E k \in DOMAIN entries[fds[fd].inode] :
       LET live(m) == kind[entries[fds[fd].inode][m].inode] # "FREE"
       IN /\ k > fds[fd].offset /\ live(k)
          /\ \A m \in fds[fd].offset + 1 .. k - 1 : ~live(m)
          /\ fds' = [fds EXCEPT ![fd].offset = k]
  /\ UNCHANGED <<inodeVars, dataVars, got>>

-----------------------------------------------------------------------------
(* fs_init() *)
Init ==
  /\ kind = [i \in Inodes |-> IF i = ROOT THEN "DIR" ELSE "FREE"]
  /\ size = [i \in Inodes |-> 0]
  /\ data_offset = [i \in Inodes |-> 0]
  /\ ref_count = [i \in Inodes |-> 0]
  /\ entries = [i \in Inodes |->
                  IF i = ROOT THEN <<[name |-> ".", inode |-> ROOT],
                                     [name |-> "..", inode |-> ROOT]>> ELSE <<>>]
  /\ data_buf = [b \in 0 .. DATA_BUF_SIZE - 1 |-> 0]
  /\ next_free_offset = DirBytes
  /\ fds = [fd \in FDs |-> IF fd < FirstFd THEN Terminal ELSE Closed]
  /\ got = <<>>

(* What a program writes in one call: up to MAX_FILE_SIZE bytes. *)
Buffers == UNION {[1 .. n -> Bytes] : n \in 0 .. MAX_FILE_SIZE}

Next ==
  \/ \E path \in Paths : \/ OpenCreate(path)
                         \/ \E truncate \in BOOLEAN : OpenExisting(path, truncate)
                         \/ Opendir(path)
                         \/ Mkdir(path)
                         \/ Unlink(path)
  \/ \E fd \in FDs : \/ Close(fd)
                     \/ Readdir(fd)
                     \/ \E newfd \in FDs : Dup2(fd, newfd)
                     \/ \E count \in Counts : Read(fd, count)
                     \/ \E bytes \in Buffers : Write(fd, bytes)
                     \/ \E offset \in Offsets, whence \in 0 .. 2 : Lseek(fd, offset, whence)

Spec == Init /\ [][Next]_vars

-----------------------------------------------------------------------------
(* Properties. *)

(* ref_count counts: it is the number of descriptors open on the inode,    *)
(* however open, opendir, close and dup2 over an open descriptor (itself   *)
(* on the same inode perhaps) were mixed.                                  *)
RefCountExact ==
  \A i \in Inodes : ref_count[i] = Cardinality({fd \in FDs : fds[fd].inode = i})

(* No descriptor outlives its inode: one that is open refers to an inode   *)
(* in use, so a reused inode never appears under an old descriptor.        *)
NoStaleDescriptor == \A fd \in FDs : fds[fd].inode \in Inodes => kind[fds[fd].inode] # "FREE"

(* The part of data_buf an inode in use owns: its entries if a directory,  *)
(* a region for its bytes if a file that is not empty.                     *)
Region(i) ==
  CASE kind[i] = "DIR" /\ entries[i] # <<>> -> data_offset[i] .. data_offset[i] + DirBytes - 1
    [] kind[i] = "FILE" /\ size[i] > 0 -> data_offset[i] .. data_offset[i] + MAX_FILE_SIZE - 1
    [] OTHER -> {}

(* No two inodes share bytes of data_buf, and none owns a byte the next    *)
(* allocation may hand out.                                                *)
RegionsApart ==
  \A i \in Inodes : /\ Region(i) \subseteq 0 .. next_free_offset - 1
                    /\ \A j \in Inodes \ {i} : Region(i) \cap Region(j) = {}

(* A name that did not resolve resolves only once a file or a directory    *)
(* has been created under that very name.                                  *)
AppearsWhenCreated ==
  [][\A path \in Paths : Resolve(path) = NONE /\ Resolve(path)' # NONE =>
        OpenCreate(path) \/ Mkdir(path)]_vars

(* Whatever was created can be found: every inode in use but the root is   *)
(* named by an entry of some directory.                                    *)
EveryInodeNamed ==
  \A i \in Inodes \ {ROOT} : kind[i] # "FREE" =>
     \E d \in Inodes : \E k \in DOMAIN entries[d] : kind[d] = "DIR" /\ d # i /\ entries[d][k].inode = i

(* What the file system promises about files: FileStore.  A file's content *)
(* is the first `size' bytes of its region.                                *)
Content(i) == IF kind[i] = "FILE" THEN [k \in 1 .. size[i] |-> data_buf[data_offset[i] + k - 1]]
                                  ELSE <<>>

Handle(fd) == IF OnFile(fd) THEN [file |-> fds[fd].inode, pos |-> fds[fd].offset]
                            ELSE [file |-> NONE, pos |-> 0]

Files == INSTANCE FileStore WITH
           Ids <- Inodes,
           None <- NONE,
           exists <- {i \in Inodes : kind[i] = "FILE"},
           content <- [i \in Inodes |-> Content(i)],
           handle <- [fd \in FDs |-> Handle(fd)]

(* Every system call does to the files what FileStore says, or nothing.    *)
ImplementsFileStore == Files!Spec
=============================================================================
