----------------------------- MODULE ProcProofs -----------------------------
(***************************************************************************)
(* Proofs about Proc, for any number of slots and queues, any slice and    *)
(* any of the three schedulers.                                            *)
(*                                                                         *)
(* IInv is the inductive invariant: the safety properties of Proc need     *)
(* each other (that no wakeup is lost rests on a sleeper's channel being   *)
(* itself, that a kill spares the shell on its having no page table), and  *)
(* OneOwner is what makes "the current process" mean one process.          *)
(***************************************************************************)
EXTENDS Proc, FiniteSetTheorems, TLAPS

(* A sleeper sleeps in wait(), on itself. *)
SleepersInWait ==
  \A p \in Slots : state[p] = "BLOCKED" => cont[p] = "wait" /\ chan[p] = p

(* The shell never gets a page table and is never about to exec(). *)
ShellIsKernelThread == ~pagetable[InitProc] /\ cont[InitProc] # "exec"

(* A sleeper that kept the CPU, for want of a process to give it to, has a *)
(* child to look for: its wait() does not return while it is BLOCKED.      *)
SpinnerHasKids ==
  prev = NULL /\ state[current] = "BLOCKED" => Kids(current) # {}

IInv ==
  /\ TypeOK
  /\ OneOwner
  /\ ParentsAlive
  /\ SleepersInWait
  /\ NoLostWakeup
  /\ ShellSurvives
  /\ ShellIsKernelThread
  /\ SpinnerHasKids

-----------------------------------------------------------------------------
(* Facts about the operators. *)

(* The shell's slot is one, and NULL is none. *)
LEMMA SlotFacts == InitProc \in Slots /\ NULL \notin Slots
  BY NPROCAssumption DEF Slots, InitProc, NULL

(* A power of two is a positive number: the number of subsets of a set. *)
LEMMA PowerOfTwo == ASSUME NEW n \in Nat PROVE 2 ^ n \in Nat /\ 1 <= 2 ^ n
<1>1. IsFiniteSet(1 .. n) /\ Cardinality(1 .. n) = n
  BY FS_Interval
<1>2. IsFiniteSet(SUBSET (1 .. n)) /\ Cardinality(SUBSET (1 .. n)) = 2 ^ n
  BY <1>1, FS_SUBSET, Zenon
<1>3. 2 ^ n \in Nat
  BY <1>2, FS_CardinalityType, Zenon
<1>4. 2 ^ n # 0
  BY <1>2, FS_EmptySet, {} \in SUBSET (1 .. n), Zenon
<1> QED
  BY <1>3, <1>4

(* The scheduler answers with a RUNNABLE process, or with none when there  *)
(* is none.                                                                *)
LEMMA SchedulerChoice ==
  \A st \in [Slots -> States], ah \in [Slots -> SUBSET Slots], q \in Slots \cup {NULL} :
    Scheduler(st, ah, q) => \/ q \in Slots /\ st[q] = "RUNNABLE"
                            \/ q = NULL /\ Runnable(st) = {}
  BY SlotFacts DEF Scheduler, RR_select, FCFS_select, MLFQ_select, Runnable

(* What yield() does first, called by a process that is not RUNNABLE: it   *)
(* names a RUNNABLE successor, or nothing happens as there is none.        *)
LEMMA YieldEnterEffect ==
  ASSUME TypeOK
  PROVE  \A st \in [Slots -> States], ah \in [Slots -> SUBSET Slots] :
           YieldEnter(st, ah) /\ st[current] # "RUNNABLE" =>
             /\ next_pid' \in Slots
             /\ \/ current' = current /\ prev' = prev /\ Runnable(st) = {}
                \/ /\ current' \in Slots /\ st[current'] = "RUNNABLE"
                   /\ prev' = current /\ current' # current
<1> SUFFICES ASSUME NEW st \in [Slots -> States], NEW ah \in [Slots -> SUBSET Slots],
                    YieldEnter(st, ah), st[current] # "RUNNABLE"
             PROVE  /\ next_pid' \in Slots
                    /\ \/ current' = current /\ prev' = prev /\ Runnable(st) = {}
                       \/ /\ current' \in Slots /\ st[current'] = "RUNNABLE"
                          /\ prev' = current /\ current' # current
  OBVIOUS
<1>1. PICK q \in Slots \cup {NULL} :
        /\ Scheduler(st, ah, q)
        /\ next_pid' = IF sched_algorithm = RR /\ q \notin {NULL, current}
                       THEN (q + 1) % NPROC ELSE next_pid
        /\ IF q \in {NULL, current} THEN UNCHANGED <<current, prev>>
                                    ELSE current' = q /\ prev' = current
  BY DEF YieldEnter
<1>2. \/ q \in Slots /\ st[q] = "RUNNABLE"
      \/ q = NULL /\ Runnable(st) = {}
  BY <1>1, SchedulerChoice
<1>3. next_pid' \in Slots
  BY <1>1, NPROCAssumption DEF Slots, TypeOK, NULL
<1> QED
  BY <1>1, <1>2, <1>3, SlotFacts DEF TypeOK

(* Stamping keeps `ahead' a relation on slots. *)
LEMMA StampType ==
  ASSUME ahead \in [Slots -> SUBSET Slots], NEW W \in SUBSET Slots
  PROVE  Stamp(W) \in [Slots -> SUBSET Slots]
  BY DEF Stamp

-----------------------------------------------------------------------------
(* The initial state. *)
LEMMA InitIInv == Init => IInv
<1> SUFFICES ASSUME Init PROVE IInv
  OBVIOUS
<1> USE SlotFacts
<1>1. TypeOK
  <2>1. slice \in [Slots -> Nat]
    BY QuantumAssumption DEF Init
  <2>2. next_pid \in Slots /\ current \in Slots
    BY NPROCAssumption DEF Init, Slots, InitProc
  <2>3. 0 \in 0 .. NQUEUE - 1
    BY NQUEUEAssumption
  <2>8. need_resched \in BOOLEAN
    BY Zenon DEF Init
  <2>4. /\ sched_algorithm \in Algorithms
        /\ prev \in Slots \cup {NULL}
        /\ exit_code \in [Slots -> Int]
        /\ priority \in [Slots -> 0 .. NQUEUE - 1]
    BY <2>3 DEF Init
  <2>5. state \in [Slots -> States]
    BY DEF Init, States
  <2>6. ahead \in [Slots -> SUBSET Slots]
    BY DEF Init
  <2>7. /\ parent \in [Slots -> Slots \cup {NULL}]
        /\ chan \in [Slots -> Slots \cup {NULL}]
        /\ pagetable \in [Slots -> BOOLEAN]
        /\ cont \in [Slots -> Conts]
        /\ waitFor \in [Slots -> Slots \cup {ANY}]
    BY DEF Init, Conts
  <2> QED
    BY <2>1, <2>2, <2>4, <2>5, <2>6, <2>7, <2>8 DEF TypeOK
<1>2. OneOwner
  BY DEF Init, OneOwner
<1>3. ParentsAlive /\ SleepersInWait /\ NoLostWakeup
  BY DEF Init, ParentsAlive, SleepersInWait, NoLostWakeup
<1>4. ShellSurvives /\ ShellIsKernelThread
  BY DEF Init, ShellSurvives, ShellIsKernelThread
<1>5. SpinnerHasKids
  BY DEF Init, SpinnerHasKids
<1> QED
  BY <1>1, <1>2, <1>3, <1>4, <1>5 DEF IInv

-----------------------------------------------------------------------------
(* Each action preserves the invariant. *)

LEMMA TickStep == IInv /\ Tick => IInv'
<1> SUFFICES ASSUME IInv, Tick PROVE IInv'
  OBVIOUS
<1>1. TypeOK'
  <2> DEFINE lower == Lower(priority[current])
  <2>1. lower \in 0 .. NQUEUE - 1 /\ lower \in Nat
    BY NQUEUEAssumption DEF IInv, TypeOK, Lower
  <2>2. Refill(lower) \in Nat
    BY <2>1, PowerOfTwo DEF Refill
  <2>3. priority' \in [Slots -> 0 .. NQUEUE - 1]
    BY <2>1 DEF IInv, TypeOK, Tick
  <2>4. slice' \in [Slots -> Nat]
    <3> HIDE DEF lower
    <3> DEFINE left == CASE slice[current] = 1 /\ sched_algorithm = MLFQ -> Refill(lower)
                         [] slice[current] = 0 -> 0
                         [] OTHER -> slice[current] - 1
    <3>1. slice' = [slice EXCEPT ![current] = left]
      BY DEF Tick, lower
    <3>2. slice[current] \in Nat
      BY DEF IInv, TypeOK
    <3>3. left \in Nat
      BY <2>2, <3>2, Z3
    <3> QED
      BY <3>1, <3>3 DEF IInv, TypeOK
  <2> QED
    BY <2>3, <2>4 DEF IInv, TypeOK, Tick
<1>2. OneOwner'
  BY DEF IInv, OneOwner, Tick, Runnable
<1>3. ParentsAlive' /\ SleepersInWait'
  BY DEF IInv, ParentsAlive, SleepersInWait, Tick
<1>4. NoLostWakeup'
  BY DEF IInv, NoLostWakeup, DeadKids, Kids, Tick
<1>5. ShellSurvives' /\ ShellIsKernelThread'
  BY DEF IInv, ShellSurvives, ShellIsKernelThread, Tick
<1>6. SpinnerHasKids'
  BY DEF IInv, SpinnerHasKids, Kids, Tick
<1> QED
  BY <1>1, <1>2, <1>3, <1>4, <1>5, <1>6 DEF IInv

LEMMA YieldFinishStep == IInv /\ YieldFinish => IInv'
<1> SUFFICES ASSUME IInv, YieldFinish PROVE IInv'
  OBVIOUS
<1>0. /\ prev \in Slots /\ current \in Slots /\ prev # current
      /\ state[current] = "RUNNABLE"
      /\ state \in [Slots -> States]
  BY DEF IInv, TypeOK, OneOwner, YieldFinish
<1>1. state' = [q \in Slots |-> IF q = current THEN "RUNNING"
                                ELSE IF q = prev /\ state[q] = "RUNNING" THEN "RUNNABLE"
                                ELSE state[q]]
  BY <1>0 DEF YieldFinish
<1>2. TypeOK'
  <2>1. state' \in [Slots -> States]
    BY <1>0, <1>1 DEF States
  <2>2. ahead' \in [Slots -> SUBSET Slots]
    BY <1>0, StampType DEF YieldFinish, IInv, TypeOK
  <2>3. priority' \in [Slots -> 0 .. NQUEUE - 1]
    BY <1>0, NQUEUEAssumption DEF YieldFinish, IInv, TypeOK
  <2>4. slice' \in [Slots -> Nat]
    <3>1. YieldedSlice(prev) \in Nat
      BY <1>0 DEF YieldedSlice, IInv, TypeOK
    <3> QED
      BY <3>1, <1>0, QuantumAssumption DEF YieldFinish, IInv, TypeOK
  <2> QED
    BY <2>1, <2>2, <2>3, <2>4 DEF YieldFinish, IInv, TypeOK
<1>3. OneOwner'
  BY <1>0, <1>1, SlotFacts DEF YieldFinish, IInv, OneOwner
<1>4. ParentsAlive'
  BY <1>0, <1>1 DEF YieldFinish, IInv, ParentsAlive, TypeOK
<1>5. SleepersInWait'
  BY <1>0, <1>1 DEF YieldFinish, IInv, SleepersInWait
<1>6. NoLostWakeup'
  BY <1>0, <1>1 DEF YieldFinish, IInv, NoLostWakeup, DeadKids, Kids
<1>7. ShellSurvives' /\ ShellIsKernelThread'
  BY <1>0, <1>1, SlotFacts DEF YieldFinish, IInv, ShellSurvives, ShellIsKernelThread
<1>8. SpinnerHasKids'
  BY <1>0, <1>1 DEF YieldFinish, SpinnerHasKids
<1> QED
  BY <1>2, <1>3, <1>4, <1>5, <1>6, <1>7, <1>8 DEF IInv

(* A fork by the process on the CPU.  Its two callers differ in where the  *)
(* child starts and in whether the parent enters wait().                   *)
LEMMA ForkStep ==
  ASSUME IInv,
         NEW p \in Slots, NEW i \in Slots, NEW where \in {"code", "exec"},
         At(p, "code"), Fork(p, i, where),
         \/ /\ cont' = [cont EXCEPT ![i] = where]
            /\ waitFor' = [waitFor EXCEPT ![i] = ANY]
         \/ /\ cont' = [cont EXCEPT ![i] = where, ![p] = "wait"]
            /\ waitFor' = [waitFor EXCEPT ![i] = ANY, ![p] = i]
  PROVE  IInv'
<1>0. /\ state[i] = "UNUSED" /\ state[p] = "RUNNING" /\ p # i /\ current = p /\ prev = NULL
      /\ state \in [Slots -> States]
      /\ state' = [state EXCEPT ![i] = "RUNNABLE"]
      /\ parent' = [parent EXCEPT ![i] = p]
      /\ UNCHANGED cpuVars
  BY DEF At, Fork, FreeSlot, IInv, TypeOK
<1>1. TypeOK'
  <2>1. ahead' \in [Slots -> SUBSET Slots]
    BY StampType DEF Fork, IInv, TypeOK
  <2>2. /\ state' \in [Slots -> States]
        /\ priority' \in [Slots -> 0 .. NQUEUE - 1]
        /\ slice' \in [Slots -> Nat]
        /\ exit_code' \in [Slots -> Int]
    BY NQUEUEAssumption DEF Fork, IInv, TypeOK, States
  <2>3. /\ parent' \in [Slots -> Slots \cup {NULL}]
        /\ chan' \in [Slots -> Slots \cup {NULL}]
        /\ pagetable' \in [Slots -> BOOLEAN]
    BY DEF Fork, IInv, TypeOK
  <2>4. cont' \in [Slots -> Conts] /\ waitFor' \in [Slots -> Slots \cup {ANY}]
    BY DEF IInv, TypeOK, Conts
  <2> QED
    BY <2>1, <2>2, <2>3, <2>4 DEF Fork, cpuVars, IInv, TypeOK
<1>2. OneOwner'
  BY <1>0, SlotFacts DEF cpuVars, IInv, OneOwner
<1>3. ParentsAlive'
  BY <1>0 DEF IInv, ParentsAlive, TypeOK
<1>4. SleepersInWait'
  BY <1>0 DEF Fork, IInv, SleepersInWait, TypeOK
<1>5. NoLostWakeup'
  <2> SUFFICES ASSUME NEW q \in Slots, state'[q] = "BLOCKED"
               PROVE  cont'[q] = "wait" /\ DeadKids(q)' = {}
    BY DEF NoLostWakeup
  <2>1. state[q] = "BLOCKED" /\ q # p /\ q # i
    BY <1>0
  <2>2. cont'[q] = "wait" /\ waitFor'[q] = waitFor[q]
    BY <2>1 DEF IInv, NoLostWakeup, TypeOK
  <2>3. DeadKids(q)' \subseteq DeadKids(q)
    BY <1>0, <2>1, <2>2 DEF DeadKids, Kids, IInv, TypeOK
  <2> QED
    BY <2>1, <2>2, <2>3 DEF IInv, NoLostWakeup
<1>6. ShellSurvives'
  BY <1>0, SlotFacts DEF IInv, ShellSurvives
<1>7. ShellIsKernelThread'
  BY <1>0, SlotFacts DEF Fork, IInv, ShellIsKernelThread, ShellSurvives, TypeOK
<1>8. SpinnerHasKids'
  BY <1>0 DEF cpuVars, SpinnerHasKids
<1> QED
  BY <1>1, <1>2, <1>3, <1>4, <1>5, <1>6, <1>7, <1>8 DEF IInv

(* What exit() and do_kill() do to the table, to any process but the shell. *)
LEMMA BuryEffect ==
  ASSUME IInv,
         NEW p \in Slots, NEW status \in Int,
         p # InitProc, Bury(p, status), UNCHANGED <<cont, waitFor>>
  PROVE  /\ state' \in [Slots -> States] /\ state'[p] = "ZOMBIE"
         /\ \A q \in Slots \ {p} : \/ state'[q] = state[q]
                                   \/ state[q] = "BLOCKED" /\ state'[q] = "RUNNABLE"
         /\ ahead' \in [Slots -> SUBSET Slots]
         /\ parent' \in [Slots -> Slots \cup {NULL}]
         /\ chan' \in [Slots -> Slots \cup {NULL}]
         /\ exit_code' \in [Slots -> Int]
         /\ ParentsAlive' /\ SleepersInWait' /\ NoLostWakeup'
         /\ ShellSurvives' /\ ShellIsKernelThread'
<1> DEFINE woken == Sleepers(parent[p]) \ {p}
<1>1. woken \subseteq {q \in Slots \ {p} : state[q] = "BLOCKED" /\ chan[q] = parent[p]}
  BY DEF Sleepers
<1>2. /\ state' = [q \in Slots |-> IF q = p THEN "ZOMBIE"
                                   ELSE IF q \in woken THEN "RUNNABLE" ELSE state[q]]
      /\ chan' = [q \in Slots |-> IF q \in woken THEN NULL ELSE chan[q]]
      /\ ahead' = Stamp(woken)
      /\ parent' = [q \in Slots |-> IF parent[q] = p THEN NULL ELSE parent[q]]
      /\ exit_code' = [exit_code EXCEPT ![p] = status]
      /\ UNCHANGED pagetable
  BY DEF Bury, Orphaned
<1>3. \A q \in Slots \ {p} : chan[q] = parent[p] /\ state[q] = "BLOCKED" => q \in woken
  BY DEF Sleepers
<1> HIDE DEF woken
<1>4. /\ state' \in [Slots -> States] /\ state'[p] = "ZOMBIE"
      /\ \A q \in Slots \ {p} : \/ state'[q] = state[q]
                                \/ state[q] = "BLOCKED" /\ state'[q] = "RUNNABLE"
  BY <1>1, <1>2 DEF IInv, TypeOK, States
<1>5. ahead' \in [Slots -> SUBSET Slots]
  BY <1>1, <1>2, StampType DEF IInv, TypeOK
<1>6. /\ parent' \in [Slots -> Slots \cup {NULL}]
      /\ chan' \in [Slots -> Slots \cup {NULL}]
      /\ exit_code' \in [Slots -> Int]
  BY <1>2 DEF IInv, TypeOK
<1>7. ParentsAlive'
  <2> SUFFICES ASSUME NEW c \in Slots, parent'[c] # NULL
               PROVE  state'[parent'[c]] \notin {"UNUSED", "ZOMBIE"}
    BY DEF ParentsAlive
  <2>1. parent'[c] = parent[c] /\ parent[c] \in Slots \ {p}
    BY <1>2 DEF IInv, TypeOK
  <2> QED
    BY <1>4, <2>1 DEF IInv, ParentsAlive
<1>8. SleepersInWait'
  BY <1>2, <1>4 DEF IInv, SleepersInWait
<1>9. NoLostWakeup'
  <2> SUFFICES ASSUME NEW q \in Slots, state'[q] = "BLOCKED"
               PROVE  cont'[q] = "wait" /\ DeadKids(q)' = {}
    BY DEF NoLostWakeup
  <2>1. state[q] = "BLOCKED" /\ q # p /\ q \notin woken
    BY <1>2, <1>4
  <2>2. chan[q] = q /\ cont[q] = "wait" /\ DeadKids(q) = {}
    BY <2>1 DEF IInv, SleepersInWait, NoLostWakeup
  <2>3. parent[p] # q
    BY <1>3, <2>1, <2>2
  <2>4. DeadKids(q)' \subseteq DeadKids(q)
    <3> SUFFICES ASSUME NEW c \in Slots, parent'[c] = q, waitFor[q] \in {ANY, c},
                        state'[c] = "ZOMBIE"
                 PROVE  c \in DeadKids(q)
      BY DEF DeadKids, Kids
    <3>1. parent[c] = q
      BY <1>2, SlotFacts
    <3>2. state[c] = "ZOMBIE"
      BY <1>4, <2>3, <3>1
    <3> QED
      BY <3>1, <3>2 DEF DeadKids, Kids
  <2> QED
    BY <2>2, <2>4
<1>10. ShellSurvives'
  BY <1>4, SlotFacts DEF IInv, ShellSurvives
<1>11. ShellIsKernelThread'
  BY <1>2 DEF IInv, ShellIsKernelThread
<1> QED
  BY <1>4, <1>5, <1>6, <1>7, <1>8, <1>9, <1>10, <1>11

(* exit(), by a process that is not the shell. *)
LEMMA ExitStep ==
  ASSUME IInv,
         NEW p \in Slots, NEW status \in Int,
         p # InitProc, current = p, prev = NULL, state[p] = "RUNNING", Exit(p, status)
  PROVE  IInv'
<1>0. /\ current = p /\ prev = NULL /\ state[p] = "RUNNING"
      /\ Bury(p, status) /\ YieldEnter(state', ahead')
      /\ UNCHANGED <<need_resched, sched_algorithm, cont, waitFor>>
  BY DEF Exit
<1>1. /\ state' \in [Slots -> States] /\ state'[p] = "ZOMBIE"
      /\ \A q \in Slots \ {p} : \/ state'[q] = state[q]
                                \/ state[q] = "BLOCKED" /\ state'[q] = "RUNNABLE"
      /\ ahead' \in [Slots -> SUBSET Slots]
      /\ parent' \in [Slots -> Slots \cup {NULL}]
      /\ chan' \in [Slots -> Slots \cup {NULL}]
      /\ exit_code' \in [Slots -> Int]
      /\ ParentsAlive' /\ SleepersInWait' /\ NoLostWakeup'
      /\ ShellSurvives' /\ ShellIsKernelThread'
  BY <1>0, BuryEffect
<1>2. /\ next_pid' \in Slots
      /\ \/ current' = current /\ prev' = prev /\ Runnable(state') = {}
         \/ /\ current' \in Slots /\ state'[current'] = "RUNNABLE"
            /\ prev' = current /\ current' # current
  BY <1>0, <1>1, YieldEnterEffect DEF IInv
<1>3. TypeOK'
  BY <1>0, <1>1, <1>2 DEF Bury, Orphaned, IInv, TypeOK
<1>4. OneOwner'
  <2>1. \A q \in Slots : state'[q] # "RUNNING"
    BY <1>0, <1>1, SlotFacts DEF IInv, OneOwner
  <2> QED
    BY <1>0, <1>2, <2>1, SlotFacts DEF OneOwner, Runnable
<1>5. SpinnerHasKids'
  BY <1>0, <1>1, <1>2, SlotFacts DEF SpinnerHasKids
<1> QED
  BY <1>1, <1>3, <1>4, <1>5 DEF IInv

LEMMA KillStep == ASSUME IInv, NEW p \in Slots, SysKill(p) PROVE IInv'
<1>1. PICK t \in Slots \ {p} : Killable(t) /\ Bury(t, KilledStatus)
  BY DEF SysKill
<1>2. /\ current = p /\ prev = NULL /\ state[p] = "RUNNING"
      /\ UNCHANGED cpuVars /\ UNCHANGED <<cont, waitFor>>
  BY DEF SysKill, At
<1>3. t # InitProc
  BY <1>1 DEF Killable, IInv, ShellIsKernelThread
<1>4. KilledStatus \in Int
  BY DEF KilledStatus
<1>5. /\ state' \in [Slots -> States] /\ state'[t] = "ZOMBIE"
      /\ \A q \in Slots \ {t} : \/ state'[q] = state[q]
                                \/ state[q] = "BLOCKED" /\ state'[q] = "RUNNABLE"
      /\ ahead' \in [Slots -> SUBSET Slots]
      /\ parent' \in [Slots -> Slots \cup {NULL}]
      /\ chan' \in [Slots -> Slots \cup {NULL}]
      /\ exit_code' \in [Slots -> Int]
      /\ ParentsAlive' /\ SleepersInWait' /\ NoLostWakeup'
      /\ ShellSurvives' /\ ShellIsKernelThread'
  BY <1>1, <1>2, <1>3, <1>4, BuryEffect
<1>6. TypeOK'
  BY <1>1, <1>2, <1>5 DEF Bury, Orphaned, cpuVars, IInv, TypeOK
<1>7. OneOwner'
  BY <1>1, <1>2, <1>5 DEF cpuVars, IInv, OneOwner
<1>8. SpinnerHasKids'
  BY <1>1, <1>2, <1>5 DEF cpuVars, SpinnerHasKids
<1> QED
  BY <1>5, <1>6, <1>7, <1>8 DEF IInv

LEMMA ExecStep == ASSUME IInv, NEW p \in Slots, ExecOK(p) PROVE IInv'
<1>1. /\ state[p] = "RUNNING" /\ p # InitProc
      /\ UNCHANGED <<state, parent, chan, cpuVars, waitFor>>
  BY DEF ExecOK, At, IInv, ShellIsKernelThread
<1>2. TypeOK'
  BY DEF ExecOK, cpuVars, IInv, TypeOK, Conts
<1>3. OneOwner' /\ ParentsAlive' /\ ShellSurvives'
  BY <1>1 DEF cpuVars, IInv, OneOwner, ParentsAlive, ShellSurvives, Runnable
<1>4. SleepersInWait' /\ NoLostWakeup'
  BY <1>1 DEF ExecOK, IInv, TypeOK, SleepersInWait, NoLostWakeup, DeadKids, Kids
<1>5. ShellIsKernelThread'
  BY <1>1 DEF ExecOK, IInv, TypeOK, ShellIsKernelThread
<1>6. SpinnerHasKids'
  BY <1>1 DEF ExecOK, At, cpuVars, SpinnerHasKids
<1> QED
  BY <1>2, <1>3, <1>4, <1>5, <1>6 DEF IInv

LEMMA YieldStep == ASSUME IInv, NEW p \in Slots, Yield(p) PROVE IInv'
<1>0. /\ current = p /\ prev = NULL /\ state[p] = "RUNNING"
      /\ YieldEnter(state, ahead)
      /\ UNCHANGED <<procVars, need_resched, sched_algorithm, cont, waitFor>>
  BY DEF Yield, At
<1>1. /\ next_pid' \in Slots
      /\ \/ current' = current /\ prev' = prev /\ Runnable(state) = {}
         \/ /\ current' \in Slots /\ state[current'] = "RUNNABLE"
            /\ prev' = current /\ current' # current
  BY <1>0, YieldEnterEffect DEF IInv, TypeOK
<1>2. TypeOK'
  BY <1>0, <1>1 DEF procVars, IInv, TypeOK
<1>3. OneOwner'
  BY <1>0, <1>1, SlotFacts DEF procVars, IInv, OneOwner, Runnable
<1>4. ParentsAlive' /\ SleepersInWait' /\ NoLostWakeup'
  BY <1>0 DEF procVars, IInv, ParentsAlive, SleepersInWait, NoLostWakeup, DeadKids, Kids
<1>5. ShellSurvives' /\ ShellIsKernelThread'
  BY <1>0 DEF procVars, IInv, ShellSurvives, ShellIsKernelThread
<1>6. SpinnerHasKids'
  BY <1>0, <1>1 DEF procVars, SpinnerHasKids
<1> QED
  BY <1>2, <1>3, <1>4, <1>5, <1>6 DEF IInv

(* Entering wait(), and the two ways out of it. *)
LEMMA SysWaitStep == ASSUME IInv, NEW p \in Slots, SysWait(p) PROVE IInv'
<1>1. /\ state[p] = "RUNNING" /\ UNCHANGED <<procVars, cpuVars>>
      /\ cont' = [cont EXCEPT ![p] = "wait"]
      /\ \E pid \in Slots \cup {ANY} : waitFor' = [waitFor EXCEPT ![p] = pid]
  BY DEF SysWait, At
<1>2. TypeOK'
  <2>1. cont' \in [Slots -> Conts] /\ waitFor' \in [Slots -> Slots \cup {ANY}]
    BY <1>1 DEF IInv, TypeOK, Conts
  <2> QED
    BY <1>1, <2>1 DEF procVars, cpuVars, IInv, TypeOK
<1>3. OneOwner' /\ ParentsAlive' /\ ShellSurvives'
  BY <1>1 DEF procVars, cpuVars, IInv, OneOwner, ParentsAlive, ShellSurvives, Runnable
<1>4. SleepersInWait'
  BY <1>1 DEF procVars, IInv, TypeOK, SleepersInWait
<1>5. NoLostWakeup'
  <2> SUFFICES ASSUME NEW q \in Slots, state[q] = "BLOCKED"
               PROVE  cont'[q] = "wait" /\ DeadKids(q)' = {}
    BY <1>1 DEF NoLostWakeup, procVars
  <2>1. waitFor'[q] = waitFor[q] /\ cont'[q] = cont[q]
    BY <1>1 DEF IInv, TypeOK
  <2>2. DeadKids(q)' = DeadKids(q)
    BY <1>1, <2>1 DEF DeadKids, Kids, procVars
  <2> QED
    BY <2>1, <2>2 DEF IInv, NoLostWakeup
<1>6. ShellIsKernelThread'
  BY <1>1 DEF procVars, IInv, TypeOK, ShellIsKernelThread
<1>7. SpinnerHasKids'
  BY <1>1 DEF SysWait, At, procVars, cpuVars, SpinnerHasKids
<1> QED
  BY <1>2, <1>3, <1>4, <1>5, <1>6, <1>7 DEF IInv

LEMMA WaitReapStep == ASSUME IInv, NEW p \in Slots, WaitReap(p) PROVE IInv'
<1>1. PICK i \in DeadKids(p) : state' = [state EXCEPT ![i] = "UNUSED"]
  BY DEF WaitReap
<1>2. /\ i \in Slots /\ state[i] = "ZOMBIE" /\ parent[i] = p
      /\ current = p /\ prev = NULL /\ DeadKids(p) # {}
      /\ cont' = [cont EXCEPT ![p] = "code"]
      /\ waitFor' = [waitFor EXCEPT ![p] = ANY]
      /\ UNCHANGED <<priority, slice, ahead, parent, chan, exit_code, pagetable, cpuVars>>
  BY <1>1 DEF WaitReap, InWait, DeadKids, Kids
<1>3. state[p] = "RUNNING" /\ i # p
  BY <1>2 DEF WaitReap, InWait, IInv, NoLostWakeup
<1>4. TypeOK'
  BY <1>1, <1>2 DEF cpuVars, IInv, TypeOK, States, Conts
<1>5. OneOwner'
  BY <1>1, <1>2, <1>3 DEF cpuVars, IInv, TypeOK, OneOwner
<1>6. ParentsAlive'
  BY <1>1, <1>2 DEF IInv, TypeOK, ParentsAlive
<1>7. SleepersInWait'
  BY <1>1, <1>2, <1>3 DEF IInv, TypeOK, SleepersInWait
<1>8. NoLostWakeup'
  <2> SUFFICES ASSUME NEW q \in Slots, state'[q] = "BLOCKED"
               PROVE  cont'[q] = "wait" /\ DeadKids(q)' = {}
    BY DEF NoLostWakeup
  <2>1. state[q] = "BLOCKED" /\ q # p
    BY <1>1, <1>2, <1>3 DEF IInv, TypeOK
  <2>2. waitFor'[q] = waitFor[q] /\ cont'[q] = cont[q]
    BY <1>2, <2>1 DEF IInv, TypeOK
  <2>3. DeadKids(q)' \subseteq DeadKids(q)
    BY <1>1, <1>2, <2>2 DEF DeadKids, Kids, IInv, TypeOK
  <2> QED
    BY <2>1, <2>2, <2>3 DEF IInv, NoLostWakeup
<1>9. ShellSurvives' /\ ShellIsKernelThread'
  BY <1>1, <1>2, SlotFacts DEF IInv, TypeOK, ShellSurvives, ShellIsKernelThread
<1>10. SpinnerHasKids'
  BY <1>1, <1>2, <1>3 DEF cpuVars, IInv, TypeOK, SpinnerHasKids
<1> QED
  BY <1>4, <1>5, <1>6, <1>7, <1>8, <1>9, <1>10 DEF IInv

LEMMA WaitNoKidsStep == ASSUME IInv, NEW p \in Slots, WaitNoKids(p) PROVE IInv'
<1>1. /\ current = p /\ prev = NULL /\ Kids(p) = {}
      /\ state[p] \in {"RUNNING", "BLOCKED"}
      /\ cont' = [cont EXCEPT ![p] = "code"]
      /\ waitFor' = [waitFor EXCEPT ![p] = ANY]
      /\ UNCHANGED <<procVars, cpuVars>>
  BY DEF WaitNoKids, InWait
<1>2. state[p] = "RUNNING"
  BY <1>1 DEF IInv, SpinnerHasKids
<1>3. TypeOK'
  BY <1>1 DEF procVars, cpuVars, IInv, TypeOK, Conts
<1>4. OneOwner' /\ ParentsAlive' /\ ShellSurvives'
  BY <1>1 DEF procVars, cpuVars, IInv, OneOwner, ParentsAlive, ShellSurvives, Runnable
<1>5. SleepersInWait'
  BY <1>1, <1>2 DEF procVars, IInv, TypeOK, SleepersInWait
<1>6. NoLostWakeup'
  <2> SUFFICES ASSUME NEW q \in Slots, state[q] = "BLOCKED"
               PROVE  cont'[q] = "wait" /\ DeadKids(q)' = {}
    BY <1>1 DEF NoLostWakeup, procVars
  <2>1. waitFor'[q] = waitFor[q] /\ cont'[q] = cont[q]
    BY <1>1, <1>2 DEF IInv, TypeOK
  <2>2. DeadKids(q)' = DeadKids(q)
    BY <1>1, <2>1 DEF DeadKids, Kids, procVars
  <2> QED
    BY <2>1, <2>2 DEF IInv, NoLostWakeup
<1>7. ShellIsKernelThread'
  BY <1>1 DEF procVars, IInv, TypeOK, ShellIsKernelThread
<1>8. SpinnerHasKids'
  BY <1>1, <1>2 DEF procVars, cpuVars, SpinnerHasKids
<1> QED
  BY <1>3, <1>4, <1>5, <1>6, <1>7, <1>8 DEF IInv

LEMMA WaitBlockStep == ASSUME IInv, NEW p \in Slots, WaitBlock(p) PROVE IInv'
<1>1. /\ current = p /\ prev = NULL /\ Kids(p) # {} /\ DeadKids(p) = {}
      /\ state[p] \in {"RUNNING", "BLOCKED"} /\ cont[p] = "wait"
      /\ state' = [state EXCEPT ![p] = "BLOCKED"]
      /\ chan' = [chan EXCEPT ![p] = p]
      /\ YieldEnter(state', ahead)
      /\ UNCHANGED <<priority, slice, ahead, parent, exit_code, pagetable, need_resched,
                     sched_algorithm, cont, waitFor>>
  BY DEF WaitBlock, InWait
<1>2. state' \in [Slots -> States] /\ state'[p] = "BLOCKED"
  BY <1>1 DEF IInv, TypeOK, States
<1>3. /\ next_pid' \in Slots
      /\ \/ current' = current /\ prev' = prev /\ Runnable(state') = {}
         \/ /\ current' \in Slots /\ state'[current'] = "RUNNABLE"
            /\ prev' = current /\ current' # current
  BY <1>1, <1>2, YieldEnterEffect DEF IInv, TypeOK
<1>4. TypeOK'
  BY <1>1, <1>2, <1>3 DEF IInv, TypeOK
<1>5. OneOwner'
  <2>1. \A q \in Slots : state'[q] # "RUNNING"
    BY <1>1, SlotFacts DEF IInv, TypeOK, OneOwner
  <2> QED
    BY <1>1, <1>3, <2>1, SlotFacts DEF OneOwner, Runnable
<1>6. ParentsAlive' /\ SleepersInWait'
  BY <1>1 DEF IInv, TypeOK, ParentsAlive, SleepersInWait
<1>7. NoLostWakeup'
  <2> SUFFICES ASSUME NEW q \in Slots, state'[q] = "BLOCKED"
               PROVE  cont'[q] = "wait" /\ DeadKids(q)' = {}
    BY DEF NoLostWakeup
  <2>1. cont[q] = "wait" /\ DeadKids(q) = {}
    BY <1>1 DEF IInv, TypeOK, NoLostWakeup
  <2>2. DeadKids(q)' \subseteq DeadKids(q)
    BY <1>1 DEF DeadKids, Kids, IInv, TypeOK
  <2> QED
    BY <1>1, <2>1, <2>2
<1>8. ShellSurvives' /\ ShellIsKernelThread'
  BY <1>1 DEF IInv, TypeOK, ShellSurvives, ShellIsKernelThread
<1>9. SpinnerHasKids'
  BY <1>1, <1>3, SlotFacts DEF SpinnerHasKids, Kids
<1> QED
  BY <1>4, <1>5, <1>6, <1>7, <1>8, <1>9 DEF IInv

-----------------------------------------------------------------------------
LEMMA NextIInv == IInv /\ [Next]_vars => IInv'
<1> SUFFICES ASSUME IInv, [Next]_vars PROVE IInv'
  OBVIOUS
<1>1. CASE Tick
  BY <1>1, TickStep
<1>2. CASE YieldFinish
  BY <1>2, YieldFinishStep
<1>3. CASE ShellCommand
  <2>1. PICK i \in Slots :
          /\ Fork(InitProc, i, "exec")
          /\ cont' = [cont EXCEPT ![i] = "exec", ![InitProc] = "wait"]
          /\ waitFor' = [waitFor EXCEPT ![i] = ANY, ![InitProc] = i]
    BY <1>3 DEF ShellCommand
  <2> QED
    BY <1>3, <2>1, SlotFacts, ForkStep DEF ShellCommand
<1>4. ASSUME NEW p \in Slots, SysFork(p) PROVE IInv'
  BY <1>4, ForkStep DEF SysFork
<1>5. ASSUME NEW p \in Slots, SysExit(p) PROVE IInv'
  <2>1. PICK status \in ExitCodes \cup {FaultStatus} : Exit(p, status)
    BY <1>5 DEF SysExit
  <2>2. status \in Int /\ p # InitProc
    BY <1>5, ExitCodesAssumption DEF FaultStatus, SysExit, IInv, ShellIsKernelThread
  <2> QED
    BY <1>5, <2>1, <2>2, ExitStep DEF SysExit, At
<1>6. ASSUME NEW p \in Slots, ExecFail(p) PROVE IInv'
  <2>1. NoExecStatus \in Int /\ p # InitProc
    BY <1>6 DEF NoExecStatus, ExecFail, At, IInv, ShellIsKernelThread
  <2> QED
    BY <1>6, <2>1, ExitStep DEF ExecFail, At
<1>7. ASSUME NEW p \in Slots, WaitFault(p) PROVE IInv'
  <2>1. FaultStatus \in Int /\ p # InitProc
    BY <1>7 DEF FaultStatus, WaitFault, IInv, ShellIsKernelThread
  <2> QED
    BY <1>7, <2>1, ExitStep DEF WaitFault, InWait
<1>8. CASE UNCHANGED vars
  BY <1>8 DEF vars, IInv, TypeOK, OneOwner, ParentsAlive, SleepersInWait, NoLostWakeup,
              ShellSurvives, ShellIsKernelThread, SpinnerHasKids, DeadKids, Kids, Runnable
<1> QED
  BY <1>1, <1>2, <1>3, <1>4, <1>5, <1>6, <1>7, <1>8, YieldStep, ExecStep, KillStep, SysWaitStep,
     WaitReapStep, WaitNoKidsStep, WaitBlockStep DEF Next

(* The invariant holds throughout. *)
THEOREM Invariant == Spec => []IInv
  BY InitIInv, NextIInv, PTL DEF Spec

(* Type correctness. *)
THEOREM Typing == Spec => []TypeOK
<1>1. IInv => TypeOK
  BY DEF IInv
<1> QED
  BY <1>1, Invariant, PTL

(* yield(), blocked() and exit() never leave two processes RUNNING, and a  *)
(* process that cannot run holds the CPU only when no other can.           *)
THEOREM OneOwnerHolds == Spec => []OneOwner
<1>1. IInv => OneOwner
  BY DEF IInv
<1> QED
  BY <1>1, Invariant, PTL

(* exit() and do_kill() leave no parent pointer to a dead process behind,  *)
(* so a slot that is reused has no children.                               *)
THEOREM ParentsAliveHolds == Spec => []ParentsAlive
<1>1. IInv => ParentsAlive
  BY DEF IInv
<1> QED
  BY <1>1, Invariant, PTL

(* Nobody sleeps in wait() while a child it waits for is a zombie.         *)
THEOREM NoLostWakeupHolds == Spec => []NoLostWakeup
<1>1. IInv => NoLostWakeup
  BY DEF IInv
<1> QED
  BY <1>1, Invariant, PTL

(* kill() and exit() never take the shell.                                 *)
THEOREM ShellSurvivesHolds == Spec => []ShellSurvives
<1>1. IInv => ShellSurvives
  BY DEF IInv
<1> QED
  BY <1>1, Invariant, PTL

-----------------------------------------------------------------------------
(* A zombie is freed by its parent's wait() and by nothing else: no late   *)
(* wakeup() makes it RUNNABLE, no yield() runs it.                         *)
LEMMA ZombieStep ==
  ASSUME IInv, Next, NEW c \in Slots, state[c] = "ZOMBIE", state'[c] # "ZOMBIE"
  PROVE  state'[c] = "UNUSED" /\ InWait(current) /\ c \in Kids(current)
<1>0. state \in [Slots -> States] /\ current \in Slots /\ state[InitProc] # "ZOMBIE"
  BY DEF IInv, TypeOK, ShellSurvives
<1>1. ASSUME NEW p \in Slots, NEW i \in Slots, NEW where, Fork(p, i, where) PROVE FALSE
  BY <1>0, <1>1 DEF Fork, FreeSlot
<1>2. ASSUME NEW p \in Slots, NEW status, Bury(p, status) PROVE FALSE
  BY <1>2 DEF Bury, Orphaned, Sleepers
<1>3. ~YieldFinish
  BY <1>0 DEF YieldFinish, IInv, OneOwner
<1>4. ASSUME NEW p \in Slots, WaitReap(p) PROVE c \in DeadKids(p) /\ state'[c] = "UNUSED"
  BY <1>0, <1>4 DEF WaitReap, DeadKids, Kids
<1>5. ASSUME NEW p \in Slots, WaitBlock(p) PROVE FALSE
  BY <1>0, <1>5 DEF WaitBlock, InWait
<1>6. ~Tick
  BY DEF Tick
<1>7. ASSUME NEW p \in Slots, Yield(p) \/ ExecOK(p) \/ SysWait(p) \/ WaitNoKids(p)
      PROVE  FALSE
  BY <1>7 DEF Yield, ExecOK, SysWait, WaitNoKids, procVars
<1>8. ~ShellCommand
  BY <1>1, SlotFacts DEF ShellCommand
<1>9. ASSUME NEW p \in Slots, SysFork(p) \/ SysExit(p) \/ ExecFail(p) \/ SysKill(p) \/ WaitFault(p)
      PROVE  FALSE
  BY <1>1, <1>2, <1>9 DEF SysFork, SysExit, ExecFail, SysKill, WaitFault, Exit
<1>10. PICK p \in Slots : WaitReap(p)
  BY <1>3, <1>5, <1>6, <1>7, <1>8, <1>9 DEF Next
<1> QED
  BY <1>4, <1>10 DEF WaitReap, InWait, DeadKids

(* The dead stay dead until their parent collects them. *)
THEOREM DeadStayDeadHolds == Spec => DeadStayDead
<1>1. IInv /\ [Next]_vars =>
        [\A c \in Slots : state[c] = "ZOMBIE" /\ state'[c] # "ZOMBIE" =>
           state'[c] = "UNUSED" /\ InWait(current) /\ c \in Kids(current)]_vars
  BY ZombieStep
<1> QED
  BY <1>1, Invariant, PTL DEF Spec, DeadStayDead

-----------------------------------------------------------------------------
(* Under MLFQ the ticks a process has left are at least one and fit its    *)
(* queue: expiry in sched_tick(), promotion in yield() and allocproc() all *)
(* set the slice and the queue together.                                   *)
LEMMA SliceStep == IInv /\ SliceFitsQueue /\ [Next]_vars => SliceFitsQueue'
<1> SUFFICES ASSUME IInv, SliceFitsQueue, [Next]_vars,
                    sched_algorithm' = MLFQ, NEW q \in Slots, state'[q] # "UNUSED"
             PROVE  slice'[q] \in 1 .. 2 ^ priority'[q]
  BY DEF SliceFitsQueue
<1>0. /\ state \in [Slots -> States] /\ current \in Slots /\ prev \in Slots \cup {NULL}
      /\ slice \in [Slots -> Nat] /\ priority \in [Slots -> 0 .. NQUEUE - 1]
  BY DEF IInv, TypeOK
<1>1. \A n \in 0 .. NQUEUE - 1 : 2 ^ n \in Nat /\ 1 <= 2 ^ n
  BY NQUEUEAssumption, PowerOfTwo
<1>2. sched_algorithm' = sched_algorithm
  BY DEF Next, vars, Tick, YieldFinish, ShellCommand, Yield, SysFork, Fork, cpuVars, ExecOK,
         ExecFail, SysExit, Exit, SysKill, SysWait, WaitFault, WaitReap, WaitNoKids, WaitBlock
<1>3. sched_algorithm = MLFQ
  BY <1>2
<1>4. state[q] # "UNUSED" => slice[q] \in 1 .. 2 ^ priority[q]
  BY <1>3 DEF SliceFitsQueue
<1>5. CASE Tick
  <2>1. state[q] # "UNUSED"
    BY <1>5 DEF Tick
  <2>2. CASE q # current
    BY <1>0, <1>4, <1>5, <2>1, <2>2 DEF Tick
  <2>3. CASE q = current /\ slice[current] = 1
    <3> DEFINE lower == Lower(priority[current])
    <3>1. lower \in 0 .. NQUEUE - 1
      BY <1>0, NQUEUEAssumption DEF Lower
    <3>2. slice'[q] = 2 ^ lower /\ priority'[q] = lower
      BY <1>0, <1>3, <1>5, <2>3 DEF Tick, Refill
    <3> QED
      BY <1>1, <3>1, <3>2
  <2>4. CASE q = current /\ slice[current] # 1
    <3>1. slice'[q] = slice[q] - 1 /\ priority'[q] = priority[q] /\ slice[q] > 1
      BY <1>0, <1>1, <1>4, <1>5, <2>1, <2>4 DEF Tick
    <3> QED
      BY <1>0, <1>1, <1>4, <2>1, <3>1
  <2> QED
    BY <2>2, <2>3, <2>4
<1>6. CASE YieldFinish
  <2>1. state[q] # "UNUSED" /\ prev \in Slots /\ prev # current
    BY <1>0, <1>6 DEF YieldFinish, IInv, OneOwner
  <2>2. CASE q = prev /\ Promoted(prev)
    <3>1. slice'[q] = 1
      BY <1>0, <1>6, <2>1, <2>2 DEF YieldFinish, YieldedSlice
    <3>2. priority'[q] = IF priority[q] > 0 THEN priority[q] - 1 ELSE priority[q]
      BY <1>0, <1>6, <2>1, <2>2 DEF YieldFinish
    <3>3. priority'[q] \in 0 .. NQUEUE - 1
      BY <1>0, <2>1, <2>2, <3>2, NQUEUEAssumption
    <3> QED
      BY <1>1, <3>1, <3>3
  <2>3. CASE q # prev \/ ~Promoted(prev)
    <3>1. slice'[q] = slice[q] /\ priority'[q] = priority[q]
      BY <1>0, <1>3, <1>6, <2>1, <2>3 DEF YieldFinish, YieldedSlice
    <3> QED
      BY <1>4, <2>1, <3>1
  <2> QED
    BY <2>2, <2>3
<1>7. ASSUME NEW p \in Slots, NEW i \in Slots, NEW where, Fork(p, i, where)
      PROVE  slice'[q] \in 1 .. 2 ^ priority'[q]
  <2>1. CASE q = i
    <3>1. slice'[q] = 1 /\ priority'[q] = 0
      BY <1>0, <1>7, <2>1 DEF Fork
    <3> QED
      BY <1>1, <3>1, NQUEUEAssumption
  <2>2. CASE q # i
    <3>1. slice'[q] = slice[q] /\ priority'[q] = priority[q] /\ state'[q] = state[q]
      BY <1>0, <1>7, <2>2 DEF Fork
    <3> QED
      BY <1>4, <3>1
  <2> QED
    BY <2>1, <2>2
<1>8. ASSUME UNCHANGED <<priority, slice>>, state[q] # "UNUSED"
      PROVE  slice'[q] \in 1 .. 2 ^ priority'[q]
  BY <1>4, <1>8
<1>9. ASSUME NEW p \in Slots, NEW status, Bury(p, status), state[p] # "UNUSED"
      PROVE  UNCHANGED <<priority, slice>> /\ state[q] # "UNUSED"
  BY <1>0, <1>9 DEF Bury, Orphaned, Sleepers
<1>10. CASE ShellCommand
  BY <1>7, <1>10, SlotFacts DEF ShellCommand
<1>11. ASSUME NEW p \in Slots, SysFork(p) PROVE slice'[q] \in 1 .. 2 ^ priority'[q]
  BY <1>7, <1>11 DEF SysFork
<1>12. ASSUME NEW p \in Slots, SysExit(p) \/ ExecFail(p) \/ SysKill(p) \/ WaitFault(p)
       PROVE  slice'[q] \in 1 .. 2 ^ priority'[q]
  BY <1>8, <1>9, <1>12 DEF SysExit, ExecFail, WaitFault, Exit, SysKill, At, Killable
<1>13. ASSUME NEW p \in Slots,
              Yield(p) \/ ExecOK(p) \/ SysWait(p) \/ WaitNoKids(p) \/ WaitReap(p) \/ WaitBlock(p)
       PROVE  slice'[q] \in 1 .. 2 ^ priority'[q]
  <2>1. UNCHANGED <<priority, slice>>
    BY <1>13 DEF Yield, ExecOK, SysWait, WaitNoKids, WaitReap, WaitBlock, procVars
  <2>2. state[q] # "UNUSED"
    BY <1>0, <1>13 DEF Yield, ExecOK, SysWait, WaitNoKids, WaitReap, WaitBlock, procVars,
                       InWait, DeadKids
  <2> QED
    BY <1>8, <2>1, <2>2
<1>14. CASE UNCHANGED vars
  BY <1>4, <1>14 DEF vars
<1> QED
  BY <1>5, <1>6, <1>10, <1>11, <1>12, <1>13, <1>14 DEF Next

THEOREM SliceFitsQueueHolds == Spec => []SliceFitsQueue
<1>1. Init => SliceFitsQueue
  BY PowerOfTwo, SlotFacts DEF Init, SliceFitsQueue, MLFQ
<1> QED
  BY <1>1, SliceStep, Invariant, PTL DEF Spec

-----------------------------------------------------------------------------
(* A process below the best queue is the trace of a tick that expired, so  *)
(* need_resched is set: the fact about two variables that makes the code   *)
(* of yield() that moves a process up unreachable where it would matter.   *)
SunkMeansResched == need_resched \/ \A q \in Slots : priority[q] = 0

LEMMA SunkStep == IInv /\ SunkMeansResched /\ [Next]_vars => SunkMeansResched'
<1> SUFFICES ASSUME IInv, SunkMeansResched, [Next]_vars PROVE SunkMeansResched'
  OBVIOUS
<1>0. /\ need_resched \in BOOLEAN /\ priority \in [Slots -> 0 .. NQUEUE - 1]
      /\ current \in Slots /\ prev \in Slots \cup {NULL}
  BY DEF IInv, TypeOK
<1>1. ASSUME UNCHANGED <<priority, need_resched>> PROVE SunkMeansResched'
  BY <1>1 DEF SunkMeansResched
<1>2. CASE Tick
  <2>1. CASE slice[current] = 1
    BY <1>2, <2>1 DEF Tick, SunkMeansResched
  <2>2. CASE slice[current] # 1
    <3>1. need_resched' = need_resched /\ priority' = priority
      BY <1>0, <1>2, <2>2 DEF Tick
    <3> QED
      BY <1>1, <3>1
  <2> QED
    BY <2>1, <2>2
<1>3. CASE YieldFinish
  <2>1. need_resched' = need_resched
    BY <1>3 DEF YieldFinish
  <2>2. ASSUME NEW q \in Slots, priority[q] = 0 PROVE priority'[q] = 0
    BY <1>0, <1>3, <2>2 DEF YieldFinish
  <2> QED
    BY <2>1, <2>2 DEF SunkMeansResched
<1>4. ASSUME NEW p \in Slots, NEW i \in Slots, NEW where, Fork(p, i, where)
      PROVE  SunkMeansResched'
  <2>1. need_resched' = need_resched
    BY <1>4 DEF Fork, cpuVars
  <2>2. \A q \in Slots : priority'[q] = IF q = i THEN 0 ELSE priority[q]
    BY <1>0, <1>4 DEF Fork
  <2> QED
    BY <2>1, <2>2 DEF SunkMeansResched
<1>5. CASE ShellCommand
  BY <1>4, <1>5, SlotFacts DEF ShellCommand
<1>6. ASSUME NEW p \in Slots, SysFork(p) PROVE SunkMeansResched'
  BY <1>4, <1>6 DEF SysFork
<1>7. ASSUME NEW p \in Slots, SysExit(p) \/ ExecFail(p) \/ SysKill(p) \/ WaitFault(p)
      PROVE  SunkMeansResched'
  BY <1>1, <1>7 DEF SysExit, ExecFail, WaitFault, Exit, SysKill, Bury, cpuVars
<1>8. ASSUME NEW p \in Slots,
             Yield(p) \/ ExecOK(p) \/ SysWait(p) \/ WaitNoKids(p) \/ WaitReap(p) \/ WaitBlock(p)
      PROVE  SunkMeansResched'
  BY <1>1, <1>8 DEF Yield, ExecOK, SysWait, WaitNoKids, WaitReap, WaitBlock, procVars, cpuVars
<1>9. CASE UNCHANGED vars
  BY <1>1, <1>9 DEF vars
<1> QED
  BY <1>2, <1>3, <1>5, <1>6, <1>7, <1>8, <1>9 DEF Next

(* A process keeps its queue or sinks, unless its slot is given away.      *)
LEMMA ClimbStep ==
  ASSUME IInv, SunkMeansResched, [Next]_vars, NEW q \in Slots, state[q] # "UNUSED"
  PROVE  ~(priority'[q] < priority[q])
<1>0. /\ need_resched \in BOOLEAN /\ priority \in [Slots -> 0 .. NQUEUE - 1]
      /\ current \in Slots /\ prev \in Slots \cup {NULL}
  BY DEF IInv, TypeOK
<1>1. priority[q] \in Int
  BY <1>0
<1>2. ASSUME priority'[q] = priority[q] PROVE ~(priority'[q] < priority[q])
  BY <1>1, <1>2
<1>3. CASE Tick
  <2> DEFINE lower == Lower(priority[current])
  <2>1. lower \in Int /\ lower >= priority[current]
    BY <1>0 DEF Lower
  <2>2. priority'[q] \in {priority[q], IF q = current THEN lower ELSE priority[q]}
    <3> HIDE DEF lower
    <3> DEFINE next == IF slice[current] = 1 /\ sched_algorithm = MLFQ
                       THEN lower ELSE priority[current]
    <3>1. priority' = [priority EXCEPT ![current] = next]
      BY <1>3 DEF Tick, lower
    <3>2. next \in {lower, priority[current]}
      OBVIOUS
    <3> HIDE DEF next
    <3> QED
      BY <1>0, <3>1, <3>2
  <2> QED
    BY <1>1, <2>1, <2>2
<1>4. CASE YieldFinish
  <2>1. CASE need_resched
    <3>1. priority'[q] = priority[q]
      BY <1>0, <1>4, <2>1 DEF YieldFinish, Promoted
    <3> QED
      BY <1>2, <3>1
  <2>2. CASE \A r \in Slots : priority[r] = 0
    BY <1>0, <1>2, <1>4, <2>2 DEF YieldFinish
  <2> QED
    BY <2>1, <2>2 DEF SunkMeansResched
<1>5. ASSUME NEW p \in Slots, NEW i \in Slots, NEW where, Fork(p, i, where)
      PROVE  ~(priority'[q] < priority[q])
  <2>1. q # i
    BY <1>5 DEF Fork, FreeSlot
  <2>2. priority'[q] = priority[q]
    BY <1>0, <1>5, <2>1 DEF Fork
  <2> QED
    BY <1>2, <2>2
<1>6. CASE ShellCommand
  BY <1>5, <1>6, SlotFacts DEF ShellCommand
<1>7. ASSUME NEW p \in Slots, SysFork(p) PROVE ~(priority'[q] < priority[q])
  BY <1>5, <1>7 DEF SysFork
<1>8. ASSUME NEW p \in Slots, SysExit(p) \/ ExecFail(p) \/ SysKill(p) \/ WaitFault(p)
      PROVE  ~(priority'[q] < priority[q])
  BY <1>2, <1>8 DEF SysExit, ExecFail, WaitFault, Exit, SysKill, Bury
<1>9. ASSUME NEW p \in Slots,
             Yield(p) \/ ExecOK(p) \/ SysWait(p) \/ WaitNoKids(p) \/ WaitReap(p) \/ WaitBlock(p)
      PROVE  ~(priority'[q] < priority[q])
  BY <1>2, <1>9 DEF Yield, ExecOK, SysWait, WaitNoKids, WaitReap, WaitBlock, procVars
<1>10. CASE UNCHANGED vars
  BY <1>2, <1>10 DEF vars
<1> QED
  BY <1>3, <1>4, <1>6, <1>7, <1>8, <1>9, <1>10 DEF Next

(* Nobody climbs the queues: the branch of yield() that moves a process up *)
(* never finds one that is not already in the best queue.                  *)
THEOREM NeverClimbsHolds == Spec => NeverClimbs
<1>1. Init => SunkMeansResched
  BY DEF Init, SunkMeansResched
<1>2. IInv /\ SunkMeansResched /\ [Next]_vars =>
        [\A p \in Slots : priority'[p] < priority[p] => state[p] = "UNUSED"]_vars
  BY ClimbStep
<1> QED
  BY <1>1, <1>2, SunkStep, Invariant, PTL DEF Spec, NeverClimbs
=============================================================================
