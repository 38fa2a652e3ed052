------------------------------ MODULE Allocator ------------------------------
(***************************************************************************)
(* What kmalloc() and kfree() promise their callers: chunks at least as    *)
(* long as asked for, aligned, apart from each other, and untouched until  *)
(* they are freed.                                                         *)
(***************************************************************************)
EXTENDS Integers

CONSTANTS
  Addresses,   \* where a chunk may start
  Align,
  Sizes        \* what callers ask for

VARIABLES
  chunks,      \* the chunks in the hands of callers: [at, len]
  request,     \* the size being asked for, 0 when no call is under way
  ret          \* what the last call returned

vars == <<chunks, request, ret>>

Span(c) == c.at .. c.at + c.len - 1

Init ==
  /\ chunks = {}
  /\ request = 0
  /\ ret = 0

Ask ==
  /\ request = 0
  /\ request' \in Sizes
  /\ UNCHANGED <<chunks, ret>>

Grant ==
  /\ request # 0
  /\ \E c \in chunks' \ chunks :
       /\ chunks' = chunks \cup {c}
       /\ c.at \in Addresses
       /\ c.at % Align = 0
       /\ c.len >= request
       /\ \A d \in chunks : Span(c) \cap Span(d) = {}
       /\ ret' = c.at
  /\ request' = 0

Release ==
  /\ request = 0
  /\ \E c \in chunks : chunks' = chunks \ {c}
  /\ UNCHANGED <<request, ret>>

Next == Ask \/ Grant \/ Release

Spec == Init /\ [][Next]_vars
=============================================================================
