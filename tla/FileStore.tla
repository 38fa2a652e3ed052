------------------------------ MODULE FileStore ------------------------------
(***************************************************************************)
(* What the RAM file system promises about the content of files, without   *)
(* directories, reference counts or a data area: a file is a sequence of   *)
(* bytes, a handle is a file and a position in it.                         *)
(*                                                                         *)
(* A write goes where its handle stands and changes nothing else of this   *)
(* file and nothing of any other; bytes skipped over read as zero; what    *)
(* was truncated or removed never comes back.                              *)
(***************************************************************************)
EXTENDS Integers, Sequences

CONSTANTS
  Ids,         \* what identifies a file
  FDs,
  None,        \* no file
  Buffers      \* what one write may write

VARIABLES
  exists,      \* the files there are
  content,     \* the bytes of each
  handle,      \* the file and the position behind each descriptor
  got          \* what the last read returned

vars == <<exists, content, handle, got>>

NoHandle == [file |-> None, pos |-> 0]

(* bytes laid over c from position pos on, after zeros if c is shorter. *)
Overlay(c, pos, bytes) ==
  LET end == pos + Len(bytes)
  IN [k \in 1 .. (IF end > Len(c) THEN end ELSE Len(c)) |->
        IF k \in pos + 1 .. end THEN bytes[k - pos]
        ELSE IF k <= Len(c) THEN c[k] ELSE 0]

Init ==
  /\ exists = {}
  /\ content = [i \in Ids |-> <<>>]
  /\ handle = [fd \in FDs |-> NoHandle]
  /\ got = <<>>

(* A file is created, emptied or found as it is, and opened if there is a  *)
(* descriptor left.                                                        *)
Open(i, keep) ==
  /\ keep => i \in exists
  /\ exists' = exists \cup {i}
  /\ content' = [content EXCEPT ![i] = IF keep THEN @ ELSE <<>>]
  /\ \/ UNCHANGED handle
     \/ \E fd \in FDs : /\ handle[fd] = NoHandle
                        /\ handle' = [handle EXCEPT ![fd] = [file |-> i, pos |-> 0]]
  /\ UNCHANGED got

Close(fd) ==
  /\ handle' = [handle EXCEPT ![fd] = NoHandle]
  /\ UNCHANGED <<exists, content, got>>

Dup(fd, newfd) ==
  /\ handle' = [handle EXCEPT ![newfd] = handle[fd]]
  /\ UNCHANGED <<exists, content, got>>

Read(fd) ==
  LET i == handle[fd].file
      from == handle[fd].pos
  IN /\ i # None
     /\ \E n \in 0 .. Len(content[i]) :
          /\ from + n <= Len(content[i]) \/ n = 0
          /\ got' = SubSeq(content[i], from + 1, from + n)
          /\ handle' = [handle EXCEPT ![fd].pos = from + n]
     /\ UNCHANGED <<exists, content>>

Write(fd, bytes) ==
  LET i == handle[fd].file
      from == handle[fd].pos
  IN /\ i # None
     /\ content' = [content EXCEPT ![i] = Overlay(@, from, bytes)]
     /\ handle' = [handle EXCEPT ![fd].pos = from + Len(bytes)]
     /\ UNCHANGED <<exists, got>>

Seek(fd) ==
  /\ handle[fd].file # None
  /\ \E to \in 0 .. Len(content[handle[fd].file]) :
       handle' = [handle EXCEPT ![fd].pos = to]
  /\ UNCHANGED <<exists, content, got>>

(* Only a file nobody has open is removed. *)
Remove(i) ==
  /\ i \in exists
  /\ \A fd \in FDs : handle[fd].file # i
  /\ exists' = exists \ {i}
  /\ content' = [content EXCEPT ![i] = <<>>]
  /\ UNCHANGED <<handle, got>>

Next ==
  \/ \E i \in Ids : Remove(i) \/ \E keep \in BOOLEAN : Open(i, keep)
  \/ \E fd \in FDs : \/ Close(fd) \/ Read(fd) \/ Seek(fd)
                     \/ \E bytes \in Buffers : Write(fd, bytes)
                     \/ \E newfd \in FDs : Dup(fd, newfd)

Spec == Init /\ [][Next]_vars
=============================================================================
