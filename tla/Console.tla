------------------------------- MODULE Console -------------------------------
(***************************************************************************)
(* Reading the keyboard in the letsgo kernel: uart.c with the external     *)
(* interrupt of trap.c and plic.c that fills the ring, and the processes   *)
(* that read the terminal (the shell's readline(), read() on a terminal).  *)
(*                                                                         *)
(* One hart, no preemption: of the processes inside uart_getc_blocking(),  *)
(* one is on the CPU and the others have called yield().  The interrupt    *)
(* may come between any two accesses to the ring or the device, but only   *)
(* while the hart accepts it: a system call starts with SIE clear, and     *)
(* yield() sets it when it switches (proc.c:135, 141), for good.           *)
(*                                                                         *)
(* A character is its number in the order typed.  NUL is never typed: the  *)
(* poll takes it for `no character' (uart.c:43).                           *)
(***************************************************************************)
EXTENDS Integers, Sequences, FiniteSets

CONSTANTS
  KBD_BUF_SIZE,
  RxSize,         \* characters the device holds before the line is stopped
  MaxTyped,       \* bound: characters typed in all
  Procs,          \* the processes
  Shell           \* the one of them that is a kernel thread

ASSUME BufAssumption == KBD_BUF_SIZE \in Nat \ {0} /\ RxSize \in Nat \ {0}
ASSUME TypedAssumption == MaxTyped \in Nat
ASSUME ProcsAssumption == Shell \in Procs

VARIABLES
  typed,          \* how many characters have been typed
  rx,             \* the characters in the device
  kbd_buf,
  kbd_head,
  kbd_tail,
  pc,             \* where each process stands in uart_getc_blocking()
  current,        \* the process on the CPU
  sie,            \* does the hart accept interrupts?
  delivered       \* the characters read, in the order they were

ringVars == <<kbd_buf, kbd_head, kbd_tail>>
vars == <<typed, rx, kbd_buf, kbd_head, kbd_tail, pc, current, sie, delivered>>

(* "out": not in uart_getc_blocking(), in user mode or, the shell, in its  *)
(* own code.  The others are named for what comes next there: the test of  *)
(* the ring, of the device's status, the read of its data, yield(), the    *)
(* read of kbd_buf and the store to kbd_head.                              *)
Labels == {"out", "test", "status", "data", "yield", "take", "advance"}

Chars == 1 .. MaxTyped

TypeOK ==
  /\ typed \in 0 .. MaxTyped
  /\ rx \in Seq(Chars) /\ Len(rx) <= RxSize
  /\ kbd_buf \in [0 .. KBD_BUF_SIZE - 1 -> Chars \cup {0}]
  /\ kbd_head \in 0 .. KBD_BUF_SIZE - 1
  /\ kbd_tail \in 0 .. KBD_BUF_SIZE - 1
  /\ pc \in [Procs -> Labels]
  /\ current \in Procs
  /\ sie \in BOOLEAN
  /\ delivered \in Seq(Chars)
  /\ \A p \in Procs \ {current} : pc[p] \in {"out", "test"}

-----------------------------------------------------------------------------
(* The device and the interrupt. *)

(* A key is pressed. *)
Type ==
  /\ typed < MaxTyped
  /\ Len(rx) < RxSize
  /\ typed' = typed + 1
  /\ rx' = Append(rx, typed')
  /\ UNCHANGED <<ringVars, pc, current, sie, delivered>>

(* The slot n places on in the ring. *)
SlotUnwrapped(i, n) == i + n

Slot(i, n) == (i + n) % KBD_BUF_SIZE

(* uart_intr() empties the device into the ring; that the ring may be full *)
(* is not looked at.  So the last character for a slot is the one there.   *)
Interrupt ==
  /\ sie
  /\ rx # <<>>
  /\ kbd_buf' = [i \in DOMAIN kbd_buf |->
       LET here == {k \in 1 .. Len(rx) : Slot(kbd_tail, k - 1) = i}
       IN IF here = {} THEN kbd_buf[i]
                       ELSE rx[CHOOSE k \in here : \A m \in here : m <= k]]
  /\ kbd_tail' = Slot(kbd_tail, Len(rx))
  /\ rx' = <<>>
  /\ UNCHANGED <<typed, kbd_head, pc, current, sie, delivered>>

-----------------------------------------------------------------------------
(* uart_getc_blocking(), one access to the ring or the device at a time.   *)

At(p, label) == current = p /\ pc[p] = label

Goto(p, label) == pc' = [pc EXCEPT ![p] = label]

(* A system call clears SIE; the shell calls with it set. *)
Call(p) ==
  /\ At(p, "out")
  /\ Goto(p, "test")
  /\ sie' = (p = Shell)
  /\ UNCHANGED <<typed, rx, ringVars, current, delivered>>

(* Back to user mode, or to the shell: interrupts are accepted there. *)
Return(p) == Goto(p, "out") /\ sie' = TRUE

RingEmptyNever == FALSE

RingEmptyAlways == TRUE

RingEmpty == kbd_head = kbd_tail

Test(p) ==
  /\ At(p, "test")
  /\ Goto(p, IF RingEmpty THEN "status" ELSE "take")
  /\ UNCHANGED <<typed, rx, ringVars, current, sie, delivered>>

(* uart_getc(): the status, then the data. *)
Status(p) ==
  /\ At(p, "status")
  /\ Goto(p, IF rx # <<>> THEN "data" ELSE "yield")
  /\ UNCHANGED <<typed, rx, ringVars, current, sie, delivered>>

Data(p) ==
  /\ At(p, "data")
  /\ rx # <<>>
  /\ delivered' = Append(delivered, Head(rx))
  /\ rx' = Tail(rx)
  /\ Return(p)
  /\ UNCHANGED <<typed, ringVars, current>>

(* The interrupt was faster: the device is empty and gives 0. *)
DataGone(p) ==
  /\ At(p, "data")
  /\ rx = <<>>
  /\ Goto(p, "yield")
  /\ UNCHANGED <<typed, rx, ringVars, current, sie, delivered>>

(* The character is read here, and its slot given back in the next step.   *)
Take(p) ==
  /\ At(p, "take")
  /\ delivered' = Append(delivered, kbd_buf[kbd_head])
  /\ Goto(p, "advance")
  /\ UNCHANGED <<typed, rx, ringVars, current, sie>>

Advance(p) ==
  /\ At(p, "advance")
  /\ kbd_head' = Slot(kbd_head, 1)
  /\ Return(p)
  /\ UNCHANGED <<typed, rx, kbd_buf, kbd_tail, current, delivered>>

(* yield() with nobody else ready: back to the test, SIE as it was. *)
YieldAlone(p) ==
  /\ At(p, "yield")
  /\ Goto(p, "test")
  /\ UNCHANGED <<typed, rx, ringVars, current, sie, delivered>>

(* The process on the CPU gives it to p, in yield() here or elsewhere.     *)
SwitchTo(p) ==
  /\ p # current
  /\ pc[current] \in {"yield", "out"}
  /\ Goto(current, IF pc[current] = "yield" THEN "test" ELSE "out")
  /\ current' = p
  /\ sie' = TRUE
  /\ UNCHANGED <<typed, rx, ringVars, delivered>>

(* A program is killed by the one on the CPU while it waits. *)
Kill(p) ==
  /\ p \notin {current, Shell}
  /\ pc[current] = "out"
  /\ pc[p] = "test"
  /\ Goto(p, "out")
  /\ UNCHANGED <<typed, rx, ringVars, current, sie, delivered>>

-----------------------------------------------------------------------------
Init ==
  /\ typed = 0
  /\ rx = <<>>
  /\ kbd_buf = [i \in 0 .. KBD_BUF_SIZE - 1 |-> 0]
  /\ kbd_head = 0
  /\ kbd_tail = 0
  /\ pc = [p \in Procs |-> "out"]
  /\ current = Shell
  /\ sie = TRUE
  /\ delivered = <<>>

(* What p does inside uart_getc_blocking() while it has the CPU. *)
Step(p) ==
  \/ Test(p)
  \/ Status(p)
  \/ Data(p)
  \/ DataGone(p)
  \/ Take(p)
  \/ Advance(p)
  \/ YieldAlone(p)

Next ==
  \/ Type
  \/ Interrupt
  \/ \E p \in Procs : Call(p) \/ Step(p) \/ SwitchTo(p) \/ Kill(p)

Spec == Init /\ [][Next]_vars

(* The hart executes instructions, and the scheduler reaches every process *)
(* that is ready, which one inside uart_getc_blocking() always is: Proc    *)
(* shows that of RR and FCFS (RunnableRuns).  Nothing is assumed of keys,  *)
(* of the interrupt or of calls.                                           *)
FairSpec ==
  /\ Spec
  /\ \A p \in Procs : /\ WF_vars(Step(p))
                      /\ SF_vars(pc[p] = "test" /\ SwitchTo(p))

-----------------------------------------------------------------------------
(* The ring from its first unread slot: once a character has been taken    *)
(* its slot no longer counts, though kbd_head still names it.              *)
FirstUnread == IF pc[current] = "advance" THEN Slot(kbd_head, 1) ELSE kbd_head

(* How many it holds.  A reader that found it not empty takes a character  *)
(* even if the interrupt has filled the ring since.                        *)
Unread == IF pc[current] = "take" /\ kbd_head = kbd_tail
          THEN KBD_BUF_SIZE
          ELSE (kbd_tail - FirstUnread + KBD_BUF_SIZE) % KBD_BUF_SIZE

InRing == {kbd_buf[Slot(FirstUnread, i)] : i \in 0 .. Unread - 1}

InDevice == {rx[k] : k \in DOMAIN rx}

Pending == InRing \cup InDevice

(* The ring, the interrupt and the poll together lose no character and     *)
(* give none twice, whatever the order of their steps, unless KBD_BUF_SIZE *)
(* are pending; and then it is the interrupt that loses the oldest.        *)
Abstract == INSTANCE Keyboard WITH Capacity <- KBD_BUF_SIZE, pending <- Pending

ImplementsKeyboard == Abstract!Spec

(* The characters delivered before c, or so far if c is pending. *)
DeliveredBefore(c) ==
  {delivered[k] : k \in {n \in DOMAIN delivered : \A m \in 1 .. n : delivered[m] # c}}

(* The poll of the device may overtake a character that an interrupt has   *)
(* put in the ring since the ring was found empty (uart.c:41-43), but each *)
(* character is overtaken once at most: the next call empties the ring.    *)
OvertakenOnce ==
  \A c \in Pending \cup {delivered[k] : k \in DOMAIN delivered} :
    Cardinality({d \in DeliveredBefore(c) : d > c}) <= 1

(* A character that is pending while somebody waits for one is delivered   *)
(* (or lost to a full ring), unless nobody waits any more.                 *)
WaitingIsServed ==
  \A c \in Chars :
    c \in Pending /\ (\E p \in Procs : pc[p] # "out")
      ~> c \notin Pending \/ (\A p \in Procs : pc[p] = "out")
=============================================================================
