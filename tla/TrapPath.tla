------------------------------ MODULE TrapPath ------------------------------
(***************************************************************************)
(* The way between user mode and the kernel in letsgo: trap_vec.S, the     *)
(* part of trap.c and syscall.c that changes the saved frame, the end of   *)
(* yield() and swtch.S, and the asm with which the shell's child enters    *)
(* its program (kernel.c).                                                 *)
(*                                                                         *)
(* What can go wrong here is in the registers the hart has one of (sepc,   *)
(* sscratch, satp, SIE) and in two globals, switch_to_user and user_satp,  *)
(* that trap_return obeys whoever set them.  General registers, SPP, which *)
(* every path leaves right, and what handlers do elsewhere are left out.   *)
(*                                                                         *)
(* A trap clears SIE; yield() sets it before it switches, so that whoever  *)
(* is resumed runs the rest of its system call, and of trap_return, with   *)
(* interrupts on.  Kernel threads always do.                               *)
(***************************************************************************)
EXTENDS Integers

CONSTANTS
  Procs,         \* slots of the process table
  Shell,         \* the one of the shell
  None,          \* sscratch = 0
  MaxTables      \* bound: user page tables made in all

ASSUME ShellAssumption == Shell \in Procs
ASSUME NoneAssumption == None \notin Procs
ASSUME TablesAssumption == MaxTables \in Nat

BARE == -1       \* satp = 0, as user_satp starts: no translation
KERNEL == 0      \* kernel_pagetable, and the pagetable of a kernel thread
Tables == 1 .. MaxTables   \* user page tables, numbered as they are made

VARIABLES
  current,         \* the process the scheduler has put on the CPU
  running,         \* the one whose code the hart executes: they differ in yield()
  pc,              \* where each process is, or will go on
  pagetable,
  tables,          \* how many user page tables have been made
  sie, sscratch, sepc, satp,
  switch_to_user, user_satp,
  struck           \* history: who was interrupted where it must not be

csrs == <<sie, sscratch, sepc, satp>>
globals == <<switch_to_user, user_satp>>
vars == <<current, running, pc, pagetable, tables, sie, sscratch, sepc, satp,
          switch_to_user, user_satp, struck>>

(* Kernel stacks are named for their process.  sscratch is the stack for   *)
(* the next trap, None while in the kernel.                                *)
(*                                                                         *)
(* "none": UNUSED, or dead.  "kernel": a kernel thread's own code.         *)
(* "flag" .. "sret": the shell's child from exec() to its program.         *)
(* "syscall": the handler of a trap from user mode, which has not yielded; *)
(* "resumed": it has.  "yield" .. "swtch": in yield(), past `current ='.   *)
(* "return", "status": in trap_return, before the write of sepc and of     *)
(* sstatus.  "panic": in user mode at an address of the kernel, where the  *)
(* page fault is fatal.  "astray": a trap has put its frame on the user's  *)
(* stack; what follows is not modelled.                                    *)
Launch == {"flag", "usatp", "scratch", "csatp", "sepc", "sret"}
InYield == {"yield", "unflag", "load", "swtch"}
Suspended == {"kernel", "resumed", "return"}
Labels == {"none", "user", "syscall", "status", "panic", "astray"}
            \cup Suspended \cup Launch \cup InYield

TypeOK ==
  /\ current \in Procs /\ running \in Procs
  /\ pc \in [Procs -> Labels]
  /\ pagetable \in [Procs -> Tables \cup {KERNEL}]
  /\ tables \in 0 .. MaxTables
  /\ sie \in BOOLEAN
  /\ sscratch \in Procs \cup {None}
  /\ sepc \in {"user", "kernel"}
  /\ satp \in Tables \cup {KERNEL, BARE}
  /\ switch_to_user \in BOOLEAN
  /\ user_satp \in Tables \cup {BARE}
  /\ struck \subseteq Procs
  /\ \A p \in Procs \ {running} : pc[p] \in Suspended \cup {"none"}

At(p, label) == running = p /\ pc[p] = label

Goto(p, label) == pc' = [pc EXCEPT ![p] = label]

-----------------------------------------------------------------------------
(* Into the kernel. *)

(* trap_vector from user mode: an interrupt, a page fault or an ecall. *)
Trap(p) ==
  /\ At(p, "user")
  /\ sscratch = p
  /\ Goto(p, "syscall")
  /\ sscratch' = None
  /\ sepc' = "user"
  /\ sie' = FALSE
  /\ UNCHANGED <<current, running, pagetable, tables, satp, globals, struck>>

(* The same when sscratch is 0: the trap is taken for one from the kernel. *)
TrapOnUserStack(p) ==
  /\ At(p, "user")
  /\ sscratch # p
  /\ Goto(p, "astray")
  /\ sie' = FALSE
  /\ UNCHANGED <<current, running, pagetable, tables, sscratch, sepc, satp, globals, struck>>

(* What trap_return does to satp: it obeys the flag, and clears it. *)
Obey == /\ satp' = IF switch_to_user THEN user_satp ELSE satp
        /\ switch_to_user' = FALSE
        /\ UNCHANGED user_satp

(* An interrupt in the kernel, or a page fault of a handler on the user's  *)
(* memory, from entry to sret.  SIE is clear in between.  It leaves        *)
(* sscratch 0 even if the kernel had just prepared it, and sepc its own.   *)
Nested ==
  /\ \/ sie /\ pc[running] \notin {"user", "panic", "astray"}
     \/ pc[running] = "syscall"
  /\ sscratch' = None
  /\ sepc' = "kernel"
  /\ Obey
  /\ struck' = IF pc[running] \in {"status", "csatp", "sepc", "sret"}
               THEN struck \cup {running} ELSE struck
  /\ UNCHANGED <<current, running, pc, pagetable, tables, sie>>

-----------------------------------------------------------------------------
(* In the kernel. *)

(* The handler is done. *)
Done(p) ==
  /\ running = p
  /\ pc[p] \in {"syscall", "resumed"}
  /\ Goto(p, "return")
  /\ UNCHANGED <<current, running, pagetable, tables, csrs, globals, struck>>

(* A page table for p: frames are never freed, so it is a new one. *)
NewTable(p) ==
  /\ tables < MaxTables
  /\ tables' = tables + 1
  /\ pagetable' = [pagetable EXCEPT ![p] = tables']

(* sys_fork: the child has a copy of the frame and starts in trap_return.  *)
SysFork(p, c) ==
  /\ At(p, "syscall")
  /\ pc[c] = "none"
  /\ NewTable(c)
  /\ pc' = [pc EXCEPT ![p] = "return", ![c] = "return"]
  /\ UNCHANGED <<current, running, csrs, globals, struck>>

(* sys_exec: the old table stays in satp until trap_return. *)
ExecFlagNot == FALSE

ExecFlag == TRUE

SysExec(p) ==
  /\ At(p, "syscall")
  /\ NewTable(p)
  /\ user_satp' = tables'
  /\ switch_to_user' = ExecFlag
  /\ Goto(p, "return")
  /\ UNCHANGED <<current, running, csrs, struck>>

(* sys_kill of a program that is not running. *)
SysKill(p, t) ==
  /\ At(p, "syscall")
  /\ t # running
  /\ pc[t] # "none"
  /\ pagetable[t] # KERNEL
  /\ pc' = [pc EXCEPT ![p] = "return", ![t] = "none"]
  /\ UNCHANGED <<current, running, pagetable, tables, csrs, globals, struck>>

(* The shell's fork(): a kernel thread. *)
ShellFork(c) ==
  /\ At(Shell, "kernel")
  /\ pc[c] = "none"
  /\ Goto(c, "kernel")
  /\ pagetable' = [pagetable EXCEPT ![c] = KERNEL]
  /\ UNCHANGED <<current, running, tables, csrs, globals, struck>>

(* exec() by that thread has succeeded. *)
ThreadExec(p) ==
  /\ At(p, "kernel")
  /\ p # Shell
  /\ NewTable(p)
  /\ Goto(p, "flag")
  /\ UNCHANGED <<current, running, csrs, globals, struck>>

-----------------------------------------------------------------------------
(* yield(), called by system calls that wait, by exit() and by threads.    *)

(* if (current->pagetable) *)
AnyTable(p) == p \in Procs

HasTable(p) == pagetable[p] # KERNEL

(* yield() up to `current = next'. *)
Yield(p, next) ==
  /\ running = p
  /\ pc[p] \in {"syscall", "resumed", "kernel"}
  /\ next # p
  /\ pc[next] \in Suspended
  /\ current' = next
  /\ Goto(p, IF HasTable(next) THEN "yield" ELSE "load")
  /\ UNCHANGED <<running, pagetable, tables, csrs, globals, struck>>

(* user_satp = .. *)
YieldSatp(p) ==
  /\ At(p, "yield")
  /\ user_satp' = pagetable[current]
  /\ Goto(p, "unflag")
  /\ UNCHANGED <<current, running, pagetable, tables, csrs, switch_to_user, struck>>

(* switch_to_user = 0 *)
YieldFlag(p) ==
  /\ At(p, "unflag")
  /\ switch_to_user' = FALSE
  /\ Goto(p, "load")
  /\ UNCHANGED <<current, running, pagetable, tables, csrs, user_satp, struck>>

(* csrw satp, and SIE on. *)
YieldLoad(p) ==
  /\ At(p, "load")
  /\ satp' = pagetable[current]
  /\ sie' = TRUE
  /\ Goto(p, "swtch")
  /\ UNCHANGED <<current, running, pagetable, tables, sscratch, sepc, globals, struck>>

(* swtch().  A process that is not suspended has called exit(). *)
Swtch(p) ==
  /\ At(p, "swtch")
  /\ running' = current
  /\ \/ Goto(p, IF pagetable[p] = KERNEL THEN "kernel" ELSE "resumed")
     \/ p # Shell /\ Goto(p, "none")
  /\ UNCHANGED <<current, pagetable, tables, csrs, globals, struck>>

-----------------------------------------------------------------------------
(* Out of the kernel. *)

(* sret to user mode; with an address of the kernel in sepc it is fatal. *)
Sret(p) == IF sepc = "user" THEN Goto(p, "user") /\ sie' = TRUE
                            ELSE Goto(p, "panic") /\ sie' = FALSE

(* trap_return up to the write of sepc. *)
Return(p) ==
  /\ At(p, "return")
  /\ sepc' = "user"
  /\ Goto(p, "status")
  /\ UNCHANGED <<current, running, pagetable, tables, sie, sscratch, satp, globals, struck>>

(* The stack for the next trap: sp + 272. *)
ScratchZero(p) == IF p \in Procs THEN None ELSE p

ScratchReady(p) == p

(* The rest of it: sstatus, which has SIE clear, then sscratch, satp, sret. *)
ReturnUser(p) ==
  /\ At(p, "status")
  /\ sscratch' = ScratchReady(p)
  /\ Obey
  /\ Sret(p)
  /\ UNCHANGED <<current, running, pagetable, tables, sepc, struck>>

(* The shell's child enters its program, one store or CSR at a time, with  *)
(* SIE set all along.                                                      *)
LaunchFlag(p) ==
  /\ At(p, "flag")
  /\ switch_to_user' = TRUE
  /\ Goto(p, "usatp")
  /\ UNCHANGED <<current, running, pagetable, tables, csrs, user_satp, struck>>

LaunchSatp(p) ==
  /\ At(p, "usatp")
  /\ user_satp' = pagetable[p]
  /\ Goto(p, "scratch")
  /\ UNCHANGED <<current, running, pagetable, tables, csrs, switch_to_user, struck>>

LaunchScratch(p) ==
  /\ At(p, "scratch")
  /\ sscratch' = p
  /\ Goto(p, "csatp")
  /\ UNCHANGED <<current, running, pagetable, tables, sie, sepc, satp, globals, struck>>

LaunchLoad(p) ==
  /\ At(p, "csatp")
  /\ satp' = pagetable[p]
  /\ Goto(p, "sepc")
  /\ UNCHANGED <<current, running, pagetable, tables, sie, sscratch, sepc, globals, struck>>

LaunchSepc(p) ==
  /\ At(p, "sepc")
  /\ sepc' = "user"
  /\ Goto(p, "sret")
  /\ UNCHANGED <<current, running, pagetable, tables, sie, sscratch, satp, globals, struck>>

LaunchSret(p) ==
  /\ At(p, "sret")
  /\ Sret(p)
  /\ UNCHANGED <<current, running, pagetable, tables, sscratch, sepc, satp, globals, struck>>

-----------------------------------------------------------------------------
Init ==
  /\ current = Shell /\ running = Shell
  /\ pc = [p \in Procs |-> IF p = Shell THEN "kernel" ELSE "none"]
  /\ pagetable = [p \in Procs |-> KERNEL]
  /\ tables = 0
  /\ sie = TRUE
  /\ sscratch = None
  /\ sepc = "kernel"
  /\ satp = KERNEL
  /\ switch_to_user = FALSE
  /\ user_satp = BARE
  /\ struck = {}

InKernel(p) ==
  \/ Done(p)
  \/ SysExec(p)
  \/ ThreadExec(p)
  \/ \E q \in Procs : SysFork(p, q) \/ SysKill(p, q) \/ Yield(p, q)
  \/ YieldSatp(p) \/ YieldFlag(p) \/ YieldLoad(p) \/ Swtch(p)

Leaves(p) ==
  \/ Return(p) \/ ReturnUser(p)
  \/ LaunchFlag(p) \/ LaunchSatp(p) \/ LaunchScratch(p)
  \/ LaunchLoad(p) \/ LaunchSepc(p) \/ LaunchSret(p)

Next ==
  \/ Nested
  \/ \E p \in Procs : Trap(p) \/ TrapOnUserStack(p) \/ ShellFork(p) \/ InKernel(p) \/ Leaves(p)

Spec == Init /\ [][Next]_vars

-----------------------------------------------------------------------------
(* A program runs in its own address space: in user mode the hart          *)
(* translates with the page table of the process that runs, which is the   *)
(* one `current' names, whoever set or consumed switch_to_user before.     *)
OwnMemory ==
  pc[running] = "user" => current = running /\ satp = pagetable[running]

(* The next trap finds the kernel stack of the process that runs           *)
(* (kernel.c:135), and sret an address of the program, unless an interrupt *)
(* came in one of the two places where SIE is set while sscratch or sepc   *)
(* holds what sret needs: the launch after the write of sscratch, and      *)
(* trap_return, when the system call has yielded, between the writes of    *)
(* sepc and sstatus.  Then they are lost, always: nothing writes them      *)
(* again.                                                                  *)
Hurt == \/ pc[running] = "user" /\ sscratch # running
        \/ pc[running] \in {"panic", "astray"}

HurtOnlyInWindows ==
  pc[running] \in {"user", "panic", "astray"} => (Hurt <=> running \in struck)
=============================================================================
