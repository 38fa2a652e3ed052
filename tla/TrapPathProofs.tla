--------------------------- MODULE TrapPathProofs ---------------------------
(***************************************************************************)
(* Theorems of TrapPath, for any number of processes and page tables.      *)
(***************************************************************************)
EXTENDS TrapPath, TLAPS

(* `current' and the process whose code runs differ only in yield(), where *)
(* `current' names a process that is suspended.                            *)
Owner ==
  IF pc[running] \in InYield THEN current # running /\ pc[current] \in Suspended
                             ELSE current = running

(* Whoever has been, or is about to be, in user mode has a table.          *)
Programs == {"user", "syscall", "resumed", "return", "status"} \cup Launch

ProgramsHaveTables == \A p \in Procs : pc[p] \in Programs => HasTable(p)

(* What trap_return will leave in satp is the table of the one it returns  *)
(* to: satp now, or user_satp when the flag is set.                        *)
Settled == IF switch_to_user THEN user_satp = pagetable[running]
                             ELSE satp = pagetable[running]

SatpFollows ==
  LET at == pc[running]
  IN /\ at \in {"user", "syscall", "resumed", "return", "status"} => Settled
     /\ at \in {"user", "sepc", "sret"} => satp = pagetable[running]
     /\ at \in {"scratch", "csatp", "sepc", "sret"} => user_satp = pagetable[running]
     /\ at \in {"yield", "unflag"} => HasTable(current)
     /\ at = "unflag" => user_satp = pagetable[current]
     /\ at = "load" /\ HasTable(current) => ~switch_to_user
     /\ at = "swtch" /\ HasTable(current) => ~switch_to_user /\ satp = pagetable[current]

(* Who was interrupted in a window, and what it has lost.                  *)
StruckExact ==
  LET at == pc[running]
      hurt == running \in struck
  IN /\ struck \subseteq {running}
     /\ hurt => at \in {"status", "csatp", "sepc", "sret", "user", "panic", "astray"}
     /\ at \in {"csatp", "sepc", "sret", "user"} => (hurt <=> sscratch # running)
     /\ at = "status" => (hurt <=> sepc # "user")
     /\ at = "sret" /\ ~hurt => sepc = "user"
     /\ at \in {"panic", "astray"} => hurt

IInv == TypeOK /\ Owner /\ ProgramsHaveTables /\ SatpFollows /\ StruckExact

LEMMA InitInv == Init => IInv
<1> SUFFICES ASSUME Init PROVE IInv
  OBVIOUS
<1>1. running = Shell /\ current = Shell /\ pc[Shell] = "kernel" /\ struck = {}
  BY ShellAssumption DEF Init
<1>2. TypeOK
  <2>1. pc \in [Procs -> Labels]
    BY DEF Init, Labels, Suspended
  <2>2. \A p \in Procs \ {running} : pc[p] = "none"
    BY <1>1 DEF Init
  <2>3. pagetable \in [Procs -> Tables \cup {KERNEL}] /\ tables \in 0 .. MaxTables
    BY TablesAssumption DEF Init
  <2>4. /\ sie \in BOOLEAN /\ sepc \in {"user", "kernel"} /\ switch_to_user \in BOOLEAN
        /\ sscratch \in Procs \cup {None}
        /\ satp \in Tables \cup {KERNEL, BARE} /\ user_satp \in Tables \cup {BARE}
    BY DEF Init
  <2> QED BY <1>1, <2>1, <2>2, <2>3, <2>4, ShellAssumption DEF TypeOK
<1>3. Owner /\ SatpFollows /\ StruckExact
  BY <1>1 DEF Owner, InYield, SatpFollows, StruckExact
<1>4. ProgramsHaveTables
  BY DEF Init, ProgramsHaveTables, Programs, Launch
<1> QED BY <1>2, <1>3, <1>4 DEF IInv

LEMMA NestedInv == IInv /\ Nested => IInv'
<1> SUFFICES ASSUME IInv, Nested PROVE IInv'
  OBVIOUS
<1>1. TypeOK'
  BY DEF IInv, Nested, Obey, TypeOK
<1>2. Owner' /\ ProgramsHaveTables'
  BY DEF IInv, Nested, Owner, ProgramsHaveTables, HasTable
<1>3. SatpFollows'
  BY DEF IInv, Nested, Obey, SatpFollows, Settled, HasTable
<1>4. StruckExact'
  BY NoneAssumption DEF IInv, TypeOK, Nested, StruckExact
<1> QED BY <1>1, <1>2, <1>3, <1>4 DEF IInv
(* A trap from user mode. *)
LEMMA TrapInv == ASSUME IInv, NEW p \in Procs, Trap(p) PROVE IInv'
<1>1. TypeOK'
  BY DEF IInv, Trap, At, Goto, TypeOK, Labels, globals
<1>2. Owner'
  BY DEF IInv, Trap, At, Goto, Owner, InYield
<1>3. ProgramsHaveTables'
  BY DEF IInv, Trap, At, Goto, ProgramsHaveTables, HasTable, Programs
<1>4. SatpFollows'
  BY DEF IInv, Trap, At, Goto, SatpFollows, Settled, globals
<1>5. StruckExact'
  BY NoneAssumption DEF IInv, Trap, At, Goto, TypeOK, StruckExact
<1> QED BY <1>1, <1>2, <1>3, <1>4, <1>5 DEF IInv

(* One that finds no kernel stack: only after an interrupt in a window. *)
LEMMA TrapOnUserStackInv == ASSUME IInv, NEW p \in Procs, TrapOnUserStack(p) PROVE IInv'
<1>1. TypeOK'
  BY DEF IInv, TrapOnUserStack, At, Goto, TypeOK, Labels, globals
<1>2. Owner'
  BY DEF IInv, TrapOnUserStack, At, Goto, Owner, InYield
<1>3. ProgramsHaveTables'
  BY DEF IInv, TrapOnUserStack, At, Goto, ProgramsHaveTables, HasTable, Programs
<1>4. SatpFollows'
  BY DEF IInv, TrapOnUserStack, At, Goto, TypeOK, SatpFollows
<1>5. StruckExact'
  BY NoneAssumption DEF IInv, TrapOnUserStack, At, Goto, StruckExact
<1> QED BY <1>1, <1>2, <1>3, <1>4, <1>5 DEF IInv

(* The handler returns. *)
LEMMA DoneInv == ASSUME IInv, NEW p \in Procs, Done(p) PROVE IInv'
<1>1. TypeOK'
  BY DEF IInv, Done, Goto, TypeOK, Labels, Suspended, csrs, globals
<1>2. Owner'
  BY DEF IInv, Done, Goto, Owner, InYield
<1>3. ProgramsHaveTables'
  BY DEF IInv, Done, Goto, ProgramsHaveTables, HasTable, Programs
<1>4. SatpFollows'
  BY DEF IInv, Done, Goto, SatpFollows, Settled, csrs, globals
<1>5. StruckExact'
  BY NoneAssumption DEF IInv, Done, Goto, StruckExact
<1> QED BY <1>1, <1>2, <1>3, <1>4, <1>5 DEF IInv

(* fork: only the child, which is suspended, gets a table. *)
LEMMA SysForkInv == ASSUME IInv, NEW p \in Procs, NEW c \in Procs, SysFork(p, c) PROVE IInv'
<1>1. TypeOK'
  BY TablesAssumption DEF IInv, SysFork, NewTable, Tables, TypeOK, Labels, Suspended, csrs, globals
<1>2. Owner'
  BY DEF IInv, SysFork, At, TypeOK, Owner, InYield
<1>3. ProgramsHaveTables'
  BY TablesAssumption DEF IInv, SysFork, NewTable, KERNEL, At, TypeOK, ProgramsHaveTables, HasTable, Programs
<1>4. SatpFollows'
  BY DEF IInv, SysFork, NewTable, At, TypeOK, SatpFollows, Settled, csrs, globals
<1>5. StruckExact'
  BY NoneAssumption DEF IInv, SysFork, At, TypeOK, StruckExact
<1> QED BY <1>1, <1>2, <1>3, <1>4, <1>5 DEF IInv

(* exec: the flag and user_satp are set for the new table. *)
LEMMA SysExecInv == ASSUME IInv, NEW p \in Procs, SysExec(p) PROVE IInv'
<1>1. TypeOK'
  BY TablesAssumption DEF IInv, SysExec, NewTable, ExecFlag, Tables, Goto, TypeOK, Labels, Suspended, csrs
<1>2. Owner'
  BY DEF IInv, SysExec, At, Goto, Owner, InYield
<1>3. ProgramsHaveTables'
  BY TablesAssumption DEF IInv, SysExec, NewTable, KERNEL, Goto, TypeOK, ProgramsHaveTables, HasTable
<1>4. SatpFollows'
  BY DEF IInv, SysExec, NewTable, ExecFlag, At, Goto, TypeOK, SatpFollows, Settled
<1>5. StruckExact'
  BY NoneAssumption DEF IInv, SysExec, At, Goto, StruckExact
<1> QED BY <1>1, <1>2, <1>3, <1>4, <1>5 DEF IInv

(* kill: of a process that is not running. *)
LEMMA SysKillInv == ASSUME IInv, NEW p \in Procs, NEW t \in Procs, SysKill(p, t) PROVE IInv'
<1>1. TypeOK'
  BY DEF IInv, SysKill, TypeOK, Labels, Suspended, csrs, globals
<1>2. Owner'
  BY DEF IInv, SysKill, At, TypeOK, Owner, InYield
<1>3. ProgramsHaveTables'
  BY DEF IInv, SysKill, At, TypeOK, ProgramsHaveTables, HasTable, Programs
<1>4. SatpFollows'
  BY DEF IInv, SysKill, At, TypeOK, SatpFollows, Settled, csrs, globals
<1>5. StruckExact'
  BY NoneAssumption DEF IInv, SysKill, At, TypeOK, StruckExact
<1> QED BY <1>1, <1>2, <1>3, <1>4, <1>5 DEF IInv

(* The shell forks. *)
LEMMA ShellForkInv == ASSUME IInv, NEW c \in Procs, ShellFork(c) PROVE IInv'
<1>1. TypeOK'
  BY DEF IInv, ShellFork, At, Goto, TypeOK, Suspended, csrs, globals
<1>2. Owner'
  BY DEF IInv, ShellFork, At, Goto, Owner, Suspended
<1>3. ProgramsHaveTables'
  BY DEF IInv, ShellFork, Goto, ProgramsHaveTables, HasTable, Programs, Launch
<1>4. SatpFollows'
  BY DEF IInv, ShellFork, At, Goto, SatpFollows
<1>5. StruckExact'
  BY NoneAssumption DEF IInv, ShellFork, At, Goto, StruckExact
<1> QED BY <1>1, <1>2, <1>3, <1>4, <1>5 DEF IInv

(* Its child has loaded the program. *)
LEMMA ThreadExecInv == ASSUME IInv, NEW p \in Procs, ThreadExec(p) PROVE IInv'
<1>1. TypeOK'
  BY TablesAssumption DEF IInv, ThreadExec, NewTable, Tables, At, Goto, TypeOK, Labels, Launch, csrs, globals
<1>2. Owner'
  BY DEF IInv, ThreadExec, At, Goto, Owner, InYield
<1>3. ProgramsHaveTables'
  BY TablesAssumption DEF IInv, ThreadExec, NewTable, KERNEL, Goto, TypeOK, ProgramsHaveTables, HasTable
<1>4. SatpFollows'
  BY DEF IInv, ThreadExec, At, Goto, SatpFollows
<1>5. StruckExact'
  BY NoneAssumption DEF IInv, ThreadExec, At, Goto, StruckExact
<1> QED BY <1>1, <1>2, <1>3, <1>4, <1>5 DEF IInv

(* yield() chooses the next process. *)
LEMMA YieldInv == ASSUME IInv, NEW p \in Procs, NEW next \in Procs, Yield(p, next) PROVE IInv'
<1>1. TypeOK'
  BY DEF IInv, Yield, Goto, TypeOK, Labels, InYield, csrs, globals
<1>2. Owner'
  BY DEF IInv, Yield, Goto, TypeOK, Owner, InYield
<1>3. ProgramsHaveTables'
  BY DEF IInv, Yield, HasTable, Goto, ProgramsHaveTables, Programs, Launch
<1>4. SatpFollows'
  BY DEF IInv, Yield, HasTable, Goto, TypeOK, SatpFollows
<1>5. StruckExact'
  BY NoneAssumption DEF IInv, Yield, Goto, StruckExact
<1> QED BY <1>1, <1>2, <1>3, <1>4, <1>5 DEF IInv

(* It sets user_satp for it .. *)
LEMMA YieldSatpInv == ASSUME IInv, NEW p \in Procs, YieldSatp(p) PROVE IInv'
<1>1. TypeOK'
  BY DEF IInv, YieldSatp, SatpFollows, HasTable, At, Goto, TypeOK, Labels, InYield, csrs
<1>2. Owner'
  BY DEF IInv, YieldSatp, At, Goto, Owner, InYield
<1>3. ProgramsHaveTables'
  BY DEF IInv, YieldSatp, HasTable, Goto, ProgramsHaveTables, Programs, Launch
<1>4. SatpFollows'
  BY DEF IInv, YieldSatp, SatpFollows, HasTable, At, Goto
<1>5. StruckExact'
  BY NoneAssumption DEF IInv, YieldSatp, At, Goto, StruckExact
<1> QED BY <1>1, <1>2, <1>3, <1>4, <1>5 DEF IInv

(* .. and clears the flag .. *)
LEMMA YieldFlagInv == ASSUME IInv, NEW p \in Procs, YieldFlag(p) PROVE IInv'
<1>1. TypeOK'
  BY DEF IInv, YieldFlag, At, Goto, TypeOK, Labels, InYield, csrs
<1>2. Owner'
  BY DEF IInv, YieldFlag, At, Goto, Owner, InYield
<1>3. ProgramsHaveTables'
  BY DEF IInv, YieldFlag, Goto, ProgramsHaveTables, HasTable, Programs, Launch
<1>4. SatpFollows'
  BY DEF IInv, YieldFlag, At, Goto, TypeOK, SatpFollows
<1>5. StruckExact'
  BY NoneAssumption DEF IInv, YieldFlag, At, Goto, StruckExact
<1> QED BY <1>1, <1>2, <1>3, <1>4, <1>5 DEF IInv

(* .. and loads satp. *)
LEMMA YieldLoadInv == ASSUME IInv, NEW p \in Procs, YieldLoad(p) PROVE IInv'
<1>1. TypeOK'
  BY DEF IInv, YieldLoad, At, Goto, TypeOK, Labels, InYield, globals
<1>2. Owner'
  BY DEF IInv, YieldLoad, At, Goto, Owner, InYield
<1>3. ProgramsHaveTables'
  BY DEF IInv, YieldLoad, Goto, ProgramsHaveTables, HasTable, Programs, Launch
<1>4. SatpFollows'
  BY DEF IInv, YieldLoad, At, Goto, HasTable, SatpFollows, globals
<1>5. StruckExact'
  BY NoneAssumption DEF IInv, YieldLoad, At, Goto, StruckExact
<1> QED BY <1>1, <1>2, <1>3, <1>4, <1>5 DEF IInv

(* The next process is resumed. *)
LEMMA SwtchInv == ASSUME IInv, NEW p \in Procs, Swtch(p) PROVE IInv'
<1>1. TypeOK'
  BY DEF IInv, Swtch, At, Goto, TypeOK, Labels, Suspended, csrs, globals
<1>2. Owner'
  BY DEF IInv, Swtch, Goto, TypeOK, Owner, Suspended, InYield
<1>3. ProgramsHaveTables'
  BY DEF IInv, Swtch, Goto, TypeOK, ProgramsHaveTables, HasTable, Programs, Launch
<1>4. SatpFollows'
  BY DEF IInv, Swtch, At, Goto, TypeOK, Owner, ProgramsHaveTables, HasTable, Programs, Suspended, Launch, InYield, SatpFollows, Settled, csrs, globals
<1>5. StruckExact'
  BY NoneAssumption DEF IInv, Swtch, At, Goto, TypeOK, Suspended, StruckExact
<1> QED BY <1>1, <1>2, <1>3, <1>4, <1>5 DEF IInv

(* trap_return writes sepc .. *)
LEMMA ReturnInv == ASSUME IInv, NEW p \in Procs, Return(p) PROVE IInv'
<1>1. TypeOK'
  BY DEF IInv, Return, At, Goto, TypeOK, Labels, globals
<1>2. Owner'
  BY DEF IInv, Return, At, Goto, Owner, InYield
<1>3. ProgramsHaveTables'
  BY DEF IInv, Return, At, Goto, ProgramsHaveTables, HasTable, Programs
<1>4. SatpFollows'
  BY DEF IInv, Return, At, Goto, SatpFollows, Settled, globals
<1>5. StruckExact'
  BY NoneAssumption DEF IInv, Return, At, Goto, StruckExact
<1> QED BY <1>1, <1>2, <1>3, <1>4, <1>5 DEF IInv

(* .. and the rest, and returns. *)
LEMMA ReturnUserInv == ASSUME IInv, NEW p \in Procs, ReturnUser(p) PROVE IInv'
<1>1. TypeOK'
  BY DEF IInv, ReturnUser, Obey, Sret, ScratchReady, At, Goto, TypeOK, Labels
<1>2. Owner'
  BY DEF IInv, ReturnUser, Obey, Sret, ScratchReady, At, Goto, TypeOK, Owner, InYield
<1>3. ProgramsHaveTables'
  BY DEF IInv, ReturnUser, Obey, Sret, ScratchReady, At, Goto, TypeOK, ProgramsHaveTables, HasTable, Programs
<1>4. SatpFollows'
  BY DEF IInv, ReturnUser, Obey, Sret, ScratchReady, At, Goto, TypeOK, SatpFollows, Settled
<1>5. StruckExact'
  BY NoneAssumption DEF IInv, ReturnUser, Obey, Sret, ScratchReady, At, Goto, TypeOK, StruckExact
<1> QED BY <1>1, <1>2, <1>3, <1>4, <1>5 DEF IInv

(* The launch, step by step. *)
LEMMA LaunchFlagInv == ASSUME IInv, NEW p \in Procs, LaunchFlag(p) PROVE IInv'
<1>1. TypeOK'
  BY DEF IInv, LaunchFlag, At, Goto, TypeOK, Labels, Launch, csrs
<1>2. Owner'
  BY DEF IInv, LaunchFlag, At, Goto, Owner, InYield
<1>3. ProgramsHaveTables'
  BY DEF IInv, LaunchFlag, At, Goto, ProgramsHaveTables, HasTable, Programs, Launch
<1>4. SatpFollows'
  BY DEF IInv, LaunchFlag, At, Goto, SatpFollows
<1>5. StruckExact'
  BY NoneAssumption DEF IInv, LaunchFlag, At, Goto, StruckExact
<1> QED BY <1>1, <1>2, <1>3, <1>4, <1>5 DEF IInv

(* user_satp is that of the program. *)
LEMMA LaunchSatpInv == ASSUME IInv, NEW p \in Procs, LaunchSatp(p) PROVE IInv'
<1>1. TypeOK'
  BY DEF IInv, LaunchSatp, ProgramsHaveTables, HasTable, Programs, At, Goto, TypeOK, Labels, Launch, csrs
<1>2. Owner'
  BY DEF IInv, LaunchSatp, At, Goto, Owner, InYield
<1>3. ProgramsHaveTables'
  BY DEF IInv, LaunchSatp, ProgramsHaveTables, HasTable, Programs, At, Goto, Launch
<1>4. SatpFollows'
  BY DEF IInv, LaunchSatp, At, Goto, SatpFollows
<1>5. StruckExact'
  BY NoneAssumption DEF IInv, LaunchSatp, At, Goto, StruckExact
<1> QED BY <1>1, <1>2, <1>3, <1>4, <1>5 DEF IInv

(* sscratch is set. *)
LEMMA LaunchScratchInv == ASSUME IInv, NEW p \in Procs, LaunchScratch(p) PROVE IInv'
<1>1. TypeOK'
  BY DEF IInv, LaunchScratch, At, Goto, TypeOK, Labels, Launch, globals
<1>2. Owner'
  BY DEF IInv, LaunchScratch, At, Goto, Owner, InYield
<1>3. ProgramsHaveTables'
  BY DEF IInv, LaunchScratch, At, Goto, ProgramsHaveTables, HasTable, Programs, Launch
<1>4. SatpFollows'
  BY DEF IInv, LaunchScratch, At, Goto, SatpFollows, globals
<1>5. StruckExact'
  BY NoneAssumption DEF IInv, LaunchScratch, At, Goto, StruckExact
<1> QED BY <1>1, <1>2, <1>3, <1>4, <1>5 DEF IInv

(* satp is set. *)
LEMMA LaunchLoadInv == ASSUME IInv, NEW p \in Procs, LaunchLoad(p) PROVE IInv'
<1>1. TypeOK'
  BY DEF IInv, LaunchLoad, At, Goto, TypeOK, Labels, Suspended, Launch, InYield, csrs, globals
<1>2. Owner'
  BY DEF IInv, LaunchLoad, At, Goto, Owner, InYield
<1>3. ProgramsHaveTables'
  BY DEF IInv, LaunchLoad, At, Goto, ProgramsHaveTables, HasTable, Programs, Launch
<1>4. SatpFollows'
  BY DEF IInv, LaunchLoad, At, Goto, SatpFollows, globals
<1>5. StruckExact'
  BY NoneAssumption DEF IInv, LaunchLoad, At, Goto, StruckExact
<1> QED BY <1>1, <1>2, <1>3, <1>4, <1>5 DEF IInv

(* sepc is set. *)
LEMMA LaunchSepcInv == ASSUME IInv, NEW p \in Procs, LaunchSepc(p) PROVE IInv'
<1>1. TypeOK'
  BY DEF IInv, LaunchSepc, At, Goto, TypeOK, Labels, Launch, globals
<1>2. Owner'
  BY DEF IInv, LaunchSepc, At, Goto, Owner, InYield
<1>3. ProgramsHaveTables'
  BY DEF IInv, LaunchSepc, At, Goto, ProgramsHaveTables, HasTable, Programs, Launch
<1>4. SatpFollows'
  BY DEF IInv, LaunchSepc, At, Goto, SatpFollows, globals
<1>5. StruckExact'
  BY NoneAssumption DEF IInv, LaunchSepc, At, Goto, StruckExact
<1> QED BY <1>1, <1>2, <1>3, <1>4, <1>5 DEF IInv

(* The program starts. *)
LEMMA LaunchSretInv == ASSUME IInv, NEW p \in Procs, LaunchSret(p) PROVE IInv'
<1>1. TypeOK'
  BY DEF IInv, LaunchSret, Sret, At, Goto, TypeOK, Labels, globals
<1>2. Owner'
  BY DEF IInv, LaunchSret, Sret, At, Goto, TypeOK, Owner, InYield
<1>3. ProgramsHaveTables'
  BY DEF IInv, LaunchSret, Sret, At, Goto, TypeOK, ProgramsHaveTables, HasTable, Programs, Launch
<1>4. SatpFollows'
  BY DEF IInv, LaunchSret, Sret, At, Goto, TypeOK, SatpFollows, Settled, globals
<1>5. StruckExact'
  BY NoneAssumption DEF IInv, LaunchSret, Sret, At, Goto, TypeOK, StruckExact
<1> QED BY <1>1, <1>2, <1>3, <1>4, <1>5 DEF IInv

LEMMA NextInv == IInv /\ [Next]_vars => IInv'
<1> SUFFICES ASSUME IInv, [Next]_vars PROVE IInv'
  OBVIOUS
<1>1. CASE Nested
  BY <1>1, NestedInv
<1>2. ASSUME NEW p \in Procs, Trap(p) \/ TrapOnUserStack(p) \/ ShellFork(p) PROVE IInv'
  BY <1>2, TrapInv, TrapOnUserStackInv, ShellForkInv
<1>3. ASSUME NEW p \in Procs, InKernel(p) PROVE IInv'
  <2>1. CASE Done(p) \/ SysExec(p) \/ ThreadExec(p)
    BY <2>1, DoneInv, SysExecInv, ThreadExecInv
  <2>2. ASSUME NEW q \in Procs, SysFork(p, q) \/ SysKill(p, q) \/ Yield(p, q) PROVE IInv'
    BY <2>2, SysForkInv, SysKillInv, YieldInv
  <2>3. CASE YieldSatp(p) \/ YieldFlag(p) \/ YieldLoad(p) \/ Swtch(p)
    BY <2>3, YieldSatpInv, YieldFlagInv, YieldLoadInv, SwtchInv
  <2> QED BY <1>3, <2>1, <2>2, <2>3 DEF InKernel
<1>4. ASSUME NEW p \in Procs, Leaves(p) PROVE IInv'
  BY <1>4, ReturnInv, ReturnUserInv, LaunchFlagInv, LaunchSatpInv, LaunchScratchInv,
     LaunchLoadInv, LaunchSepcInv, LaunchSretInv DEF Leaves
<1>5. CASE UNCHANGED vars
  BY <1>5 DEF vars, IInv, TypeOK, Owner, ProgramsHaveTables, HasTable, SatpFollows, Settled,
             StruckExact
<1> QED BY <1>1, <1>2, <1>3, <1>4, <1>5 DEF Next

(* The invariant holds in every reachable state. *)
THEOREM Invariant == Spec => []IInv
BY InitInv, NextInv, PTL DEF Spec

-----------------------------------------------------------------------------
(* What it gives. *)

(* The registers and globals of the trap path are well typed, and whoever  *)
(* does not run is suspended in the kernel.                                *)
THEOREM Typing == Spec => []TypeOK
<1>1. IInv => TypeOK
  BY DEF IInv
<1> QED BY <1>1, Invariant, PTL

(* A program in user mode runs in its own address space, for every number  *)
(* of processes: switch_to_user may be set by one and consumed by another, *)
(* and never leaves the hart with the table of the wrong one.              *)
THEOREM OwnMemoryHolds == Spec => []OwnMemory
<1>1. IInv => OwnMemory
  BY DEF IInv, Owner, InYield, SatpFollows, OwnMemory
<1> QED BY <1>1, Invariant, PTL

(* The kernel stack of the next trap and the address to return to are lost *)
(* to an interrupt in one of the two windows, and to nothing else.         *)
THEOREM HurtOnlyInWindowsHolds == Spec => []HurtOnlyInWindows
<1>1. IInv => HurtOnlyInWindows
  BY DEF IInv, StruckExact, HurtOnlyInWindows, Hurt
<1> QED BY <1>1, Invariant, PTL

=============================================================================
