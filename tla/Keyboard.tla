------------------------------ MODULE Keyboard ------------------------------
(***************************************************************************)
(* What the console promises to those who read the keyboard, without its   *)
(* ring, its interrupt and its polling.  Characters are numbered in the    *)
(* order typed.  Each is delivered at most once; which of those that are   *)
(* pending comes first is left open.  Characters may be lost only when     *)
(* Capacity of them are pending, and then the newest are the ones kept.    *)
(***************************************************************************)
EXTENDS Integers, Sequences, FiniteSets

CONSTANT Capacity

VARIABLES
  typed,       \* how many characters have been typed
  pending,     \* those that may still be delivered
  delivered    \* those that were, in the order they were

vars == <<typed, pending, delivered>>

Init == typed = 0 /\ pending = {} /\ delivered = <<>>

Type ==
  /\ typed' = typed + 1
  /\ pending' = pending \cup {typed'}
  /\ UNCHANGED delivered

Deliver ==
  /\ \E c \in pending : /\ delivered' = Append(delivered, c)
                        /\ pending' = pending \ {c}
  /\ UNCHANGED typed

Lose ==
  /\ Cardinality(pending) >= Capacity
  /\ pending' \in (SUBSET pending) \ {pending}
  /\ \A kept \in pending', lost \in pending \ pending' : lost < kept
  /\ UNCHANGED <<typed, delivered>>

Next == Type \/ Deliver \/ Lose

Spec == Init /\ [][Next]_vars
=============================================================================
