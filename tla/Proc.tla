-------------------------------- MODULE Proc --------------------------------
(***************************************************************************)
(* The process table of the letsgo kernel and its scheduler: proc.c, with  *)
(* the system calls of syscall.c, the timer path of trap.c and the shell   *)
(* loop of kernel.c that drive it.                                         *)
(*                                                                         *)
(* One hart, no preemption: a process runs until it calls yield(), wait()  *)
(* or exit(), so what lies between two of those calls is one step.  The    *)
(* timer interrupt is the exception.  It runs sched_tick() at any moment,  *)
(* in particular inside yield(), after `current' names the next process    *)
(* and before the previous one is put back among the RUNNABLE ones.  Hence *)
(* yield() is two steps (YieldEnter and YieldFinish) with a Tick possible  *)
(* in between.                                                             *)
(*                                                                         *)
(* A pid is the index of a slot of procs[], reused as soon as the slot is  *)
(* UNUSED.  A pointer to a struct proc is the slot, the null pointer NULL. *)
(***************************************************************************)
EXTENDS Integers, FiniteSets

CONSTANTS
  NPROC,        \* slots of the process table
  NQUEUE,       \* queues of the MLFQ scheduler
  Quantum,      \* slice given at a switch by the other schedulers: 10
  Algorithms,   \* the values sched_algorithm may have been built with
  ExitCodes     \* statuses a user program may pass to exit()

RR == 0
FCFS == 1
MLFQ == 2

ASSUME NPROCAssumption == NPROC \in Nat \ {0}
ASSUME NQUEUEAssumption == NQUEUE \in Nat \ {0}
ASSUME QuantumAssumption == Quantum \in Nat
ASSUME AlgorithmsAssumption == Algorithms \subseteq {RR, FCFS, MLFQ}
ASSUME ExitCodesAssumption == ExitCodes \subseteq Int

NULL == -1            \* the null pointer
ANY == -1             \* wait(-1, ..): any child
Slots == 0 .. NPROC - 1
InitProc == 0         \* the slot proc_init() gives to the shell

KilledStatus == -9    \* what do_kill() stores
FaultStatus == -1     \* what a fatal page fault stores
NoExecStatus == 1     \* what the shell's child stores when exec() fails

VARIABLES
  state,            \* enum procstate of each slot
  priority,         \* MLFQ queue, 0 is the best
  slice,            \* ticks left
  ahead,            \* the slots whose enq_time is smaller (read by FCFS only)
  parent,           \* struct proc *parent
  chan,             \* the channel a BLOCKED process sleeps on
  exit_code,
  pagetable,        \* TRUE when the process has a user page table
  current,          \* the process on the CPU
  prev,             \* yield()'s local, NULL outside of it
  next_pid,         \* where RR_select() starts to look
  need_resched,
  sched_algorithm,
  cont,             \* where the process stands in the kernel: see Conts
  waitFor           \* the argument of the wait() it is in

procVars == <<state, priority, slice, ahead, parent, chan, exit_code, pagetable>>
cpuVars == <<current, prev, next_pid, need_resched, sched_algorithm>>
vars == <<state, priority, slice, ahead, parent, chan, exit_code, pagetable,
          current, prev, next_pid, need_resched, sched_algorithm, cont, waitFor>>

States == {"UNUSED", "RUNNABLE", "RUNNING", "BLOCKED", "ZOMBIE"}

(* "code": its own program, or the shell reading a line.                   *)
(* "exec": the shell's child, a kernel thread that has yet to call exec(). *)
(* "wait": inside the loop of wait().                                      *)
Conts == {"code", "exec", "wait"}

TypeOK ==
  /\ state \in [Slots -> States]
  /\ priority \in [Slots -> 0 .. NQUEUE - 1]
  /\ slice \in [Slots -> Nat]
  /\ ahead \in [Slots -> SUBSET Slots]
  /\ parent \in [Slots -> Slots \cup {NULL}]
  /\ chan \in [Slots -> Slots \cup {NULL}]
  /\ exit_code \in [Slots -> Int]
  /\ pagetable \in [Slots -> BOOLEAN]
  /\ current \in Slots
  /\ prev \in Slots \cup {NULL}
  /\ next_pid \in Slots
  /\ need_resched \in BOOLEAN
  /\ sched_algorithm \in Algorithms
  /\ cont \in [Slots -> Conts]
  /\ waitFor \in [Slots -> Slots \cup {ANY}]

-----------------------------------------------------------------------------
(* The scheduler.  It is asked after the caller changed its own state, so  *)
(* the table it looks at is a parameter: st for state, ah for ahead.       *)

Runnable(st) == {q \in Slots : st[q] = "RUNNABLE"}

(* enq_time is a clock that only FCFS_select() reads, and only to compare: *)
(* what is kept of it is who comes before whom.  Stamping the slots of W   *)
(* in table order puts them behind all others.                             *)
Stamp(W) ==
  IF sched_algorithm = FCFS
  THEN [q \in Slots |-> IF q \in W THEN (Slots \ W) \cup {r \in W : r < q}
                                   ELSE ahead[q] \ W]
  ELSE ahead

(* Steps from next_pid to q, going round the table. *)
RRDistanceFromZero(q) == q

RRDistance(q) == (q + NPROC - next_pid) % NPROC

RR_select(st, q) ==
  LET others == Runnable(st) \ {current}
  IN \/ q \in others /\ \A r \in others : RRDistance(q) <= RRDistance(r)
     \/ others = {} /\ q = current /\ st[current] = "RUNNABLE"
     \/ Runnable(st) = {} /\ q = NULL

FCFS_select(st, ah, q) ==
  \/ q \in Runnable(st) /\ ah[q] \cap Runnable(st) = {}
  \/ Runnable(st) = {} /\ q = NULL

MLFQ_select(st, q) ==
  \/ /\ q \in Runnable(st)
     /\ \A r \in Runnable(st) :
          priority[q] < priority[r] \/ (priority[q] = priority[r] /\ q <= r)
  \/ Runnable(st) = {} /\ q = NULL

(* scheduler() returns q. *)
Scheduler(st, ah, q) ==
  \/ sched_algorithm = RR /\ RR_select(st, q)
  \/ sched_algorithm = FCFS /\ FCFS_select(st, ah, q)
  \/ sched_algorithm = MLFQ /\ MLFQ_select(st, q)

(* yield() up to `current = next'.  With nobody to switch to it returns at *)
(* once, and the caller goes on in whatever state it put itself in.        *)
YieldEnter(st, ah) ==
  \E q \in Slots \cup {NULL} :
    /\ Scheduler(st, ah, q)
    /\ next_pid' = IF sched_algorithm = RR /\ q \notin {NULL, current}
                   THEN (q + 1) % NPROC ELSE next_pid
    /\ IF q \in {NULL, current}
       THEN UNCHANGED <<current, prev>>
       ELSE current' = q /\ prev' = current

(* A process that gave up the CPU while RUNNING goes back among the        *)
(* RUNNABLE ones; under MLFQ it moves up one queue, unless need_resched.   *)
PromotedAlways(p) == sched_algorithm = MLFQ /\ state[p] = "RUNNING"

Promoted(p) == sched_algorithm = MLFQ /\ ~need_resched /\ state[p] = "RUNNING"

(* The slice it is left with. *)
YieldedSlice(p) == IF Promoted(p) THEN 1 ELSE slice[p]

(* yield() from there to swtch(). *)
YieldFinish ==
  /\ prev # NULL
  /\ state' = [state EXCEPT ![prev] = IF @ = "RUNNING" THEN "RUNNABLE" ELSE @,
                            ![current] = "RUNNING"]
  /\ ahead' = IF state[prev] = "RUNNING" THEN Stamp({prev}) ELSE ahead
  /\ priority' = [priority EXCEPT ![prev] = IF Promoted(prev) /\ @ > 0 THEN @ - 1 ELSE @]
  /\ slice' = [slice EXCEPT ![prev] = YieldedSlice(prev),
                            ![current] = IF sched_algorithm # MLFQ THEN Quantum ELSE @]
  /\ prev' = NULL
  /\ UNCHANGED <<parent, chan, exit_code, pagetable, current, next_pid,
                 need_resched, sched_algorithm, cont, waitFor>>

(* One queue down, the last one excepted. *)
LowerUncapped(pr) == pr + 1

Lower(pr) == IF pr < NQUEUE - 1 THEN pr + 1 ELSE pr

(* The slice of a process that has just entered queue pr. *)
RefillNone(pr) == 0

Refill(pr) == 2 ^ pr

(* The timer interrupt: sched_tick(). *)
Tick ==
  LET expired == slice[current] = 1
      lower == Lower(priority[current])
  IN /\ need_resched' = (need_resched \/ expired)
     /\ priority' = [priority EXCEPT
                       ![current] = IF expired /\ sched_algorithm = MLFQ THEN lower ELSE @]
     /\ slice' = [slice EXCEPT
                    ![current] = CASE expired /\ sched_algorithm = MLFQ -> Refill(lower)
                                   [] slice[current] = 0 -> 0
                                   [] OTHER -> slice[current] - 1]
     /\ UNCHANGED <<state, ahead, parent, chan, exit_code, pagetable, current, prev,
                    next_pid, sched_algorithm, cont, waitFor>>

-----------------------------------------------------------------------------
(* What the process on the CPU may do. *)

(* p runs, outside of yield(), at the point `where'. *)
At(p, where) == /\ current = p
                /\ prev = NULL
                /\ state[p] = "RUNNING"
                /\ cont[p] = where

(* Sleepers(c): the processes wakeup(c) makes RUNNABLE. *)
SleepersNone(c) == {}

SleepersAnyState(c) == {q \in Slots : chan[q] = c}

Sleepers(c) == {q \in Slots : state[q] = "BLOCKED" /\ chan[q] = c}

(* allocproc() takes the first UNUSED slot; without one it fails and fork  *)
(* returns -1 with nothing changed, which is a stuttering step.  The other *)
(* failure of fork, a page table that cannot be cloned, never returns: the *)
(* frame allocator panics first.                                           *)
FreeSlot(i) == /\ state[i] = "UNUSED"
               /\ \A j \in Slots : j < i => state[j] # "UNUSED"

(* fork() and fork_from_trap(): slot i becomes a child of p that will      *)
(* start at `where'.                                                       *)
Fork(p, i, where) ==
  /\ FreeSlot(i)
  /\ state' = [state EXCEPT ![i] = "RUNNABLE"]
  /\ priority' = [priority EXCEPT ![i] = 0]
  /\ slice' = [slice EXCEPT ![i] = 1]
  /\ ahead' = Stamp({i})
  /\ parent' = [parent EXCEPT ![i] = p]
  /\ chan' = [chan EXCEPT ![i] = NULL]
  /\ exit_code' = [exit_code EXCEPT ![i] = 0]
  /\ pagetable' = [pagetable EXCEPT ![i] = pagetable[p]]
  /\ UNCHANGED cpuVars

(* SYS_fork from a user program. *)
SysFork(p) ==
  /\ At(p, "code")
  /\ pagetable[p]
  /\ \E i \in Slots : /\ Fork(p, i, "code")
                      /\ cont' = [cont EXCEPT ![i] = "code"]
                      /\ waitFor' = [waitFor EXCEPT ![i] = ANY]

(* The shell runs a command: it forks a kernel thread that will exec(), and *)
(* waits for that child.                                                    *)
ShellCommand ==
  /\ At(InitProc, "code")
  /\ \E i \in Slots : /\ Fork(InitProc, i, "exec")
                      /\ cont' = [cont EXCEPT ![i] = "exec", ![InitProc] = "wait"]
                      /\ waitFor' = [waitFor EXCEPT ![i] = ANY, ![InitProc] = i]

(* exec() by the shell's child succeeds: from now on it has a page table.  *)
(* (An exec() by a user program swaps one table for another and shows      *)
(* nowhere in this state.)                                                 *)
ExecOK(p) ==
  /\ At(p, "exec")
  /\ pagetable' = [pagetable EXCEPT ![p] = TRUE]
  /\ cont' = [cont EXCEPT ![p] = "code"]
  /\ UNCHANGED <<state, priority, slice, ahead, parent, chan, exit_code, cpuVars, waitFor>>

(* SYS_yield, and a read of the terminal that finds no character. *)
Yield(p) ==
  /\ At(p, "code")
  /\ YieldEnter(state, ahead)
  /\ UNCHANGED <<procVars, need_resched, sched_algorithm, cont, waitFor>>

(* The parent of each slot once p, about to be a zombie, has no children. *)
OrphanedNone(p) == parent

Orphaned(p) == [q \in Slots |-> IF parent[q] = p THEN NULL ELSE parent[q]]

(* Shared by exit() and do_kill(): p becomes a zombie, its parent is woken, *)
(* its children lose their parent.                                          *)
Bury(p, status) ==
  LET woken == Sleepers(parent[p]) \ {p}
  IN /\ exit_code' = [exit_code EXCEPT ![p] = status]
     /\ state' = [q \in Slots |-> IF q = p THEN "ZOMBIE"
                                  ELSE IF q \in woken THEN "RUNNABLE" ELSE state[q]]
     /\ chan' = [q \in Slots |-> IF q \in woken THEN NULL ELSE chan[q]]
     /\ ahead' = Stamp(woken)
     /\ parent' = Orphaned(p)
     /\ UNCHANGED <<priority, slice, pagetable>>

(* exit(): it does not return.  If nobody is RUNNABLE, yield() does return *)
(* and the zombie spins on the CPU for ever.                               *)
Exit(p, status) ==
  /\ Bury(p, status)
  /\ YieldEnter(state', ahead')
  /\ UNCHANGED <<need_resched, sched_algorithm, cont, waitFor>>

(* SYS_exit, or a page fault that kills the program. *)
SysExit(p) ==
  /\ At(p, "code")
  /\ pagetable[p]
  /\ \E status \in ExitCodes \cup {FaultStatus} : Exit(p, status)

ExecFail(p) ==
  /\ At(p, "exec")
  /\ Exit(p, NoExecStatus)

(* SYS_kill: any process but a kernel thread and the caller, a zombie      *)
(* included; everything else returns -1.                                   *)
KillableAnyone(t) == state[t] # "UNUSED"

Killable(t) == state[t] # "UNUSED" /\ pagetable[t]

SysKill(p) ==
  /\ At(p, "code")
  /\ pagetable[p]
  /\ \E t \in Slots \ {p} :
       /\ Killable(t)
       /\ Bury(t, KilledStatus)
  /\ UNCHANGED <<cpuVars, cont, waitFor>>

SysWait(p) ==
  /\ At(p, "code")
  /\ pagetable[p]
  /\ cont' = [cont EXCEPT ![p] = "wait"]
  /\ \E pid \in Slots \cup {ANY} : waitFor' = [waitFor EXCEPT ![p] = pid]
  /\ UNCHANGED <<procVars, cpuVars>>

(* The slots wait() counts as children: the state is not looked at, so a   *)
(* slot that was reaped and not reused is still one of them.               *)
Kids(p) == {i \in Slots : parent[i] = p /\ waitFor[p] \in {ANY, i}}
DeadKids(p) == {i \in Kids(p) : state[i] = "ZOMBIE"}

(* p is on the CPU inside wait().  It may be there in state BLOCKED: then  *)
(* blocked() found nobody to switch to and returned.                       *)
InWait(p) == /\ current = p
             /\ prev = NULL
             /\ state[p] \in {"RUNNING", "BLOCKED"}
             /\ cont[p] = "wait"

(* One turn of wait()'s loop that finds a zombie: the first is freed. *)
WaitReap(p) ==
  /\ InWait(p)
  /\ \E i \in DeadKids(p) :
       /\ \A j \in DeadKids(p) : i <= j
       /\ state' = [state EXCEPT ![i] = "UNUSED"]
  /\ cont' = [cont EXCEPT ![p] = "code"]
  /\ waitFor' = [waitFor EXCEPT ![p] = ANY]
  /\ UNCHANGED <<priority, slice, ahead, parent, chan, exit_code, pagetable, cpuVars>>

(* The same turn when `status' points into the null page: the store faults  *)
(* in the kernel and the handler makes the caller exit, the child not freed. *)
WaitFault(p) ==
  /\ InWait(p)
  /\ state[p] = "RUNNING"
  /\ pagetable[p]
  /\ DeadKids(p) # {}
  /\ Exit(p, FaultStatus)

(* One that finds no child: wait() returns -1. *)
WaitNoKids(p) ==
  /\ InWait(p)
  /\ Kids(p) = {}
  /\ cont' = [cont EXCEPT ![p] = "code"]
  /\ waitFor' = [waitFor EXCEPT ![p] = ANY]
  /\ UNCHANGED <<procVars, cpuVars>>

(* One that finds children but no zombie: blocked(current). *)
WaitBlock(p) ==
  /\ InWait(p)
  /\ Kids(p) # {}
  /\ DeadKids(p) = {}
  /\ state' = [state EXCEPT ![p] = "BLOCKED"]
  /\ chan' = [chan EXCEPT ![p] = p]
  /\ YieldEnter(state', ahead)
  /\ UNCHANGED <<priority, slice, ahead, parent, exit_code, pagetable, need_resched,
                 sched_algorithm, cont, waitFor>>

-----------------------------------------------------------------------------
(* proc_init(): the shell in the first slot, already RUNNING. *)
Init ==
  /\ state = [q \in Slots |-> IF q = InitProc THEN "RUNNING" ELSE "UNUSED"]
  /\ priority = [q \in Slots |-> 0]
  /\ sched_algorithm \in Algorithms
  /\ slice = [q \in Slots |-> IF q # InitProc THEN 0
                              ELSE IF sched_algorithm = MLFQ THEN 1 ELSE Quantum]
  /\ ahead = [q \in Slots |-> {}]
  /\ parent = [q \in Slots |-> NULL]
  /\ chan = [q \in Slots |-> NULL]
  /\ exit_code = [q \in Slots |-> 0]
  /\ pagetable = [q \in Slots |-> FALSE]
  /\ current = InitProc
  /\ prev = NULL
  /\ next_pid = IF sched_algorithm = RR THEN 1 % NPROC ELSE 0
  /\ need_resched = FALSE
  /\ cont = [q \in Slots |-> "code"]
  /\ waitFor = [q \in Slots |-> ANY]

WaitStep(p) == WaitReap(p) \/ WaitNoKids(p) \/ WaitBlock(p)

Next ==
  \/ Tick
  \/ YieldFinish
  \/ ShellCommand
  \/ \E p \in Slots :
       \/ Yield(p)
       \/ SysFork(p)
       \/ ExecOK(p)
       \/ ExecFail(p)
       \/ SysExit(p)
       \/ SysKill(p)
       \/ SysWait(p)
       \/ WaitReap(p)
       \/ WaitFault(p)
       \/ WaitNoKids(p)
       \/ WaitBlock(p)

Spec == Init /\ [][Next]_vars

(* What the kernel and well-behaved programs keep doing.  yield() finishes, *)
(* wait() takes its next turn and exec() returns whenever they have the     *)
(* CPU.  A program that keeps getting the CPU keeps giving it up: the       *)
(* programs of user/ that loop call yield(), and the shell does while it    *)
(* finds no character to read.  Nothing is assumed of the timer, of fork,   *)
(* exit or kill, nor of commands typed at the shell.                        *)
FairSpec ==
  /\ Spec
  /\ WF_vars(YieldFinish)
  /\ \A p \in Slots : /\ WF_vars(WaitStep(p))
                       /\ WF_vars(ExecOK(p) \/ ExecFail(p))
                       /\ SF_vars(Yield(p))

-----------------------------------------------------------------------------
(* Safety. *)

(* The CPU has one owner.  A RUNNING process is the one `current' names or, *)
(* in the middle of yield(), the one it named before; and a process that    *)
(* is not RUNNING keeps the CPU (blocked() or exit() came back from         *)
(* yield()) only when there is nobody to give it to.                        *)
OneOwner ==
  /\ \A p \in Slots : state[p] = "RUNNING" => p \in {current, prev}
  /\ prev # NULL => state[current] = "RUNNABLE" /\ prev # current
  /\ prev = NULL /\ state[current] # "RUNNING" => Runnable(state) = {}

(* No parent pointer dangles: whoever is named as a parent, by a freed slot *)
(* too, is alive, so that a reused slot never inherits children.            *)
ParentsAlive ==
  \A c \in Slots : parent[c] # NULL => state[parent[c]] \notin {"UNUSED", "ZOMBIE"}

(* No wakeup is lost: nobody sleeps in wait() while a child it waits for is *)
(* a zombie, whether the child called exit() or was killed, and whichever   *)
(* of the two came first.                                                   *)
NoLostWakeup ==
  \A p \in Slots : state[p] = "BLOCKED" => cont[p] = "wait" /\ DeadKids(p) = {}

(* kill() spares the shell: its kernel thread is never killed or reaped.    *)
ShellSurvives == state[InitProc] \notin {"UNUSED", "ZOMBIE"}

(* Under MLFQ the ticks left to a process fit the queue it is in and never  *)
(* run out: a process whose slice were 0 would never be demoted again.      *)
SliceFitsQueue ==
  sched_algorithm = MLFQ =>
    \A p \in Slots : state[p] # "UNUSED" => slice[p] \in 1 .. 2 ^ priority[p]

(* Nobody climbs the queues.  yield() has code to move a process up, but    *)
(* only while need_resched is 0; the tick that first moves anybody down     *)
(* sets need_resched, and nothing clears it.  So a process that has sunk    *)
(* stays where it is until its slot is given to another.                    *)
NeverClimbs ==
  [][\A p \in Slots : priority'[p] < priority[p] => state[p] = "UNUSED"]_vars

(* The dead stay dead: a zombie is not scheduled again by a late wakeup();  *)
(* it leaves that state only when its parent, inside a wait() that it       *)
(* matches, frees the slot.                                                 *)
DeadStayDead ==
  [][\A c \in Slots : state[c] = "ZOMBIE" /\ state'[c] # "ZOMBIE" =>
       state'[c] = "UNUSED" /\ InWait(current) /\ c \in Kids(current)]_vars

(* wait() sleeps only for a child that is there: a process asleep in it has *)
(* a child it waits for whose slot is in use.                               *)
WaitHasTarget ==
  \A p \in Slots : state[p] = "BLOCKED" => \E i \in Kids(p) : state[i] # "UNUSED"

(* Liveness, under FairSpec. *)

(* RR and FCFS are fair: every process ready to run gets the CPU (or is    *)
(* killed).                                                                *)
RunnableRuns ==
  \A p \in Slots : sched_algorithm # MLFQ /\ state[p] = "RUNNABLE" ~> state[p] # "RUNNABLE"

(* Under them a wait() that has a zombie to collect returns, unless its    *)
(* caller dies.                                                            *)
WaitReturns ==
  \A p \in Slots : sched_algorithm # MLFQ /\ cont[p] = "wait" /\ DeadKids(p) # {}
                     ~> cont[p] # "wait" \/ state[p] = "ZOMBIE"

(* Whatever the scheduler, every process that is ready is scheduled.       *)
AllScheduled == \A p \in Slots : state[p] = "RUNNABLE" ~> state[p] # "RUNNABLE"
=============================================================================
