------------------------------- MODULE Memory -------------------------------
(***************************************************************************)
(* What the kernel promises programs about memory, without frames, tables  *)
(* or page faults: each process has a memory of its own, zero where        *)
(* nothing was written.  fork() gives the child a copy, exec() a fresh one *)
(* with the program's image, and a store is seen by its process alone.     *)
(***************************************************************************)
CONSTANTS
  Procs,
  Pages,       \* the pages programs use
  Words,       \* what they store
  Image        \* what exec() puts in each page

VARIABLES
  live,        \* the processes that run a program
  view         \* what each finds in each page

vars == <<live, view>>

Blank == [va \in Pages |-> 0]

Init ==
  /\ live = {}
  /\ view = [p \in Procs |-> Blank]

Store(p) ==
  /\ p \in live
  /\ \E va \in Pages, w \in Words : view' = [view EXCEPT ![p][va] = w]
  /\ UNCHANGED live

Fork(p, q) ==
  /\ p \in live /\ q \notin live
  /\ live' = live \cup {q}
  /\ view' = [view EXCEPT ![q] = view[p]]

Exec(p) ==
  /\ live' = live \cup {p}
  /\ view' = [view EXCEPT ![p] = Image]

Exit(p) ==
  /\ live' = live \ {p}
  /\ view' = [view EXCEPT ![p] = Blank]

Next == \E p \in Procs : \/ Store(p) \/ Exec(p) \/ Exit(p)
                         \/ \E q \in Procs : Fork(p, q)

Spec == Init /\ [][Next]_vars
=============================================================================
