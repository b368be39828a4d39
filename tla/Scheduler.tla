----------------------------- MODULE Scheduler -----------------------------
(***************************************************************************)
(* Scheduling on hart 0: round_robin of src/src/sched.c with the system    *)
(* calls that enter it (src/src/syscall.c: yield, sleep and exit), the     *)
(* timer trap (src/src/trap.c) and the firmware's forwarding of the timer  *)
(* interrupt (src/sbi/src/ctrap.c, svcall.c, clint.c).                     *)
(*                                                                         *)
(* A process or the idle process executes until a trap; the kernel runs    *)
(* with supervisor interrupts off, but the machine timer interrupts it all *)
(* the same.  Times are kept relative to now: the ticks that are left      *)
(* until sleep_until and until mtimecmp.                                   *)
(***************************************************************************)
EXTENDS Integers, FiniteSetsExt, SequencesExt

CONSTANTS
  Procs,     \* the processes main adds, in the order it adds them
  Idle,      \* idle_process
  ListHead,      \* the head element of g_processes, which holds no process
  Null,      \* NULL
  Quantum,   \* CONTEXT_SWITCH_TIMER * quantum, in ticks
  MaxSleep   \* the bound on the ticks a process asks to sleep

Infinite == Quantum + 1   \* CLINT_MTIMECMP_INFINITE: never reached

ProcSet == Range(Procs)
Elem == ProcSet \cup {ListHead}

ASSUME SchedAssumption ==
  /\ Quantum \in Nat \ {0} /\ MaxSleep \in Nat
  /\ Idle \notin ProcSet /\ ListHead \notin ProcSet \cup {Idle}
  /\ Null \notin Elem \cup {Idle}
  /\ Procs \in Seq(ProcSet) /\ Procs # <<>> /\ IsInjective(Procs)

VARIABLES
  g_processes,     \* the list, in the order of its next pointers
  freed_next,      \* the next pointer a removed element was freed with
  curr_list_elem,  \* the scheduler's cursor
  state,           \* Process.state: RUNNING or SLEEPING
  sleep_left,      \* Process.sleep_until - now
  on_hart,         \* is Process.hart this hart
  sepc,            \* whose program counter Process.frame.sepc holds
  cpu,             \* the process whose registers the hart has
  where,           \* user, or where the kernel is
  mtimecmp,        \* the ticks left until the machine timer fires
  stip,            \* is a supervisor timer interrupt pending
  exited           \* ghost: the processes that have called exit

procs == <<g_processes, freed_next, curr_list_elem, state, sleep_left, on_hart, sepc>>
vars == <<procs, cpu, where, mtimecmp, stip, exited>>

Listed == Range(g_processes)

(* sched_init, sched_add for each process (list_add puts it first), state  *)
(* set to PS_RUNNING, and the first sched_invoke.                          *)
Init ==
  /\ g_processes = Reverse(Procs)
  /\ freed_next = [p \in ProcSet |-> ListHead]
  /\ curr_list_elem = Null
  /\ state = [p \in ProcSet \cup {Idle} |-> IF p = Idle THEN "WAITING" ELSE "RUNNING"]
  /\ sleep_left = [p \in ProcSet |-> 0]
  /\ on_hart = [p \in ProcSet \cup {Idle} |-> FALSE]
  /\ sepc = [p \in ProcSet \cup {Idle} |-> p]
  /\ cpu = Null
  /\ where = "sched"
  /\ mtimecmp = Infinite
  /\ stip = FALSE
  /\ exited = {}

-----------------------------------------------------------------------------
(* src/util/src/list.c on g_processes *)

IndexOf(p) == CHOOSE k \in DOMAIN g_processes : g_processes[k] = p

StartDescending == IF g_processes = <<>> THEN ListHead ELSE g_processes[1]
StartAscending == IF g_processes = <<>> THEN ListHead ELSE Last(g_processes)

(* list_elem_next.  exit removes the element under the cursor; its memory  *)
(* is read again before anything is allocated, with its pointers intact.   *)
ListNext(e) ==
  IF e = ListHead THEN StartDescending
  ELSE IF e \notin Listed THEN freed_next[e]
  ELSE IF IndexOf(e) = Len(g_processes) THEN ListHead
  ELSE g_processes[IndexOf(e) + 1]

(* get_proc_on_hart: the list is searched from its tail. *)
GetProcOnHart ==
  LET k == SelectLastInSeq(g_processes, LAMBDA p : on_hart[p])
  IN  IF k = 0 THEN Null ELSE g_processes[k]

-----------------------------------------------------------------------------
(* round_robin *)

AwakenNever == state

(* awaken_sleeping_procs *)
Awaken == [p \in DOMAIN state |->
             IF p \in Listed /\ state[p] = "SLEEPING" /\ sleep_left[p] = 0
             THEN "RUNNING" ELSE state[p]]

(* The process whose registers are saved: the one on the hart, or idle. *)
SavedIdleByDefault == IF GetProcOnHart = Null THEN Idle ELSE GetProcOnHart

Saved == IF GetProcOnHart = Null /\ on_hart[Idle] THEN Idle ELSE GetProcOnHart

(* The elements the while loop looks at, from the one after the cursor.    *)
(* After as many steps as this it repeats itself.                          *)
Start == IF curr_list_elem = Null THEN StartDescending ELSE curr_list_elem
MaxVisits == 2 * Len(Procs) + 2
Visit[k \in 0 .. MaxVisits] ==
  IF k = 0 THEN ListNext(Start)
  ELSE IF Visit[k - 1] = ListHead THEN StartAscending
  ELSE ListNext(Visit[k - 1])

Runnable(e) == e # ListHead /\ Awaken[e] = "RUNNING"

(* The loop ends at the cursor or at a process that can run.  It reads the *)
(* process of every element it visits, of the head too, which has none.    *)
Ends == {k \in 0 .. MaxVisits : Visit[k] = Start \/ (k > 0 /\ Runnable(Visit[k]))}
Lost == /\ g_processes # <<>>
        /\ Ends = {} \/ \E k \in 1 .. Min(Ends) : Visit[k] = ListHead
Found == /\ g_processes # <<>>
         /\ Min(Ends) > 0
         /\ Runnable(Visit[Min(Ends)])

CursorKept == IF g_processes = <<>> THEN Start ELSE Visit[Min(Ends)]

Cursor == IF g_processes = <<>> THEN ListNext(Start) ELSE Visit[Min(Ends)]

(* Nothing found: the process that was on the hart goes on, asleep or not; *)
(* the idle process only runs when there was none.                         *)
Chosen == IF Found THEN Visit[Min(Ends)]
          ELSE IF Saved = Null THEN Idle ELSE Saved

ClearHart(p) == IF p = Null THEN on_hart ELSE [on_hart EXCEPT ![p] = FALSE]

(* sbi_add_timer for the chosen process. *)
ArmNot == mtimecmp

Arm == Quantum

RoundRobin ==
  /\ where = "sched"
  /\ state' = Awaken
  /\ sepc' = IF Saved = Null THEN sepc ELSE [sepc EXCEPT ![Saved] = cpu]
  /\ IF Lost
       THEN /\ where' = "lost"
            /\ UNCHANGED <<curr_list_elem, on_hart, cpu, mtimecmp>>
       ELSE /\ curr_list_elem' = Cursor
            /\ on_hart' = [ClearHart(Saved) EXCEPT ![Chosen] = TRUE]
            /\ cpu' = sepc'[Chosen]
            /\ mtimecmp' = Arm
            /\ where' = "user"
  /\ UNCHANGED <<g_processes, freed_next, sleep_left, stip, exited>>

-----------------------------------------------------------------------------
(* System calls.  The idle process makes none. *)

Yield ==
  /\ where = "user" /\ cpu # Idle
  /\ where' = "sched"
  /\ UNCHANGED <<procs, cpu, mtimecmp, stip, exited>>

Sleep(ticks) ==
  /\ where = "user" /\ cpu # Idle
  /\ IF GetProcOnHart = Null
       THEN UNCHANGED <<state, sleep_left>>
       ELSE /\ state' = [state EXCEPT ![GetProcOnHart] = "SLEEPING"]
            /\ sleep_left' = [sleep_left EXCEPT ![GetProcOnHart] = ticks]
  /\ where' = "sched"
  /\ UNCHANGED <<g_processes, freed_next, curr_list_elem, on_hart, sepc, cpu, mtimecmp, stip, exited>>

(* process_free refuses a process that is on a hart, and this one is;      *)
(* sched_remove takes it off the list and frees its element.               *)
ExitNotRemoved ==
  /\ where = "user" /\ cpu # Idle
  /\ where' = "sched"
  /\ exited' = exited \cup {cpu}
  /\ UNCHANGED <<procs, cpu, mtimecmp, stip>>

Exit ==
  LET p == GetProcOnHart
  IN  /\ where = "user" /\ cpu # Idle
      /\ g_processes' = IF p = Null THEN g_processes ELSE RemoveAt(g_processes, IndexOf(p))
      /\ freed_next' = IF p = Null THEN freed_next ELSE [freed_next EXCEPT ![p] = ListNext(p)]
      /\ where' = "sched"
      /\ exited' = exited \cup {cpu}
      /\ UNCHANGED <<curr_list_elem, state, sleep_left, on_hart, sepc, cpu, mtimecmp, stip>>

-----------------------------------------------------------------------------
(* Time *)

(* The machine timer fires, in user mode or in the kernel: the firmware    *)
(* pends the supervisor's timer interrupt and disarms the machine timer.   *)
MachineTimer ==
  /\ mtimecmp = 0
  /\ stip' = TRUE
  /\ mtimecmp' = Infinite
  /\ UNCHANGED <<procs, cpu, where, exited>>

TimerTrap ==
  /\ where = "user"
  /\ stip
  /\ where' = "ack"
  /\ UNCHANGED <<procs, cpu, mtimecmp, stip, exited>>

(* sbi_ack_timer, then sched_invoke. *)
AckTimer ==
  /\ where = "ack"
  /\ stip' = FALSE
  /\ where' = "sched"
  /\ UNCHANGED <<procs, cpu, mtimecmp, exited>>

Tick ==
  /\ mtimecmp' = IF mtimecmp \in {0, Infinite} THEN mtimecmp ELSE mtimecmp - 1
  /\ sleep_left' = [p \in ProcSet |-> Max({0, sleep_left[p] - 1})]
  /\ UNCHANGED <<g_processes, freed_next, curr_list_elem, state, on_hart, sepc, cpu, where, stip, exited>>

Kernel == RoundRobin \/ AckTimer
Syscall == Yield \/ Exit \/ \E ticks \in 0 .. MaxSleep : Sleep(ticks)

Next == Kernel \/ Syscall \/ MachineTimer \/ TimerTrap \/ Tick

Spec == Init /\ [][Next]_vars

(* The kernel finishes what it does, time passes, and pending interrupts   *)
(* are taken.  A process need not make any system call.                    *)
FairSpec ==
  /\ Spec
  /\ WF_vars(Kernel) /\ WF_vars(Tick) /\ WF_vars(MachineTimer) /\ WF_vars(TimerTrap)

-----------------------------------------------------------------------------
(* Properties *)

(* The scheduler's books are true: what executes is the one process, idle  *)
(* included, that is marked as being on the hart, so a system call acts on *)
(* its caller; and a process that called exit never executes again.        *)
HartIsTrue ==
  where = "user" =>
    /\ cpu \in (Listed \cup {Idle}) \ exited
    /\ \A p \in Listed \cup {Idle} : on_hart[p] <=> p = cpu

(* "it updates sepc correctly for whatever process was on the HART"        *)
(* (README.md:31): no process resumes at another one's program counter.    *)
ResumesItself == \A p \in Listed \cup {Idle} : sepc[p] = p

(* The round-robin walk never takes the list's head, or an element exit    *)
(* freed, for a process, and it ends.                                      *)
NeverLost ==
  /\ where # "lost"
  /\ where = "user" => curr_list_elem \in Listed \cup {ListHead}

(* Whatever executes, the scheduler gets the hart back: a timer is armed   *)
(* or its interrupt is pending, also when the timer fires in the kernel.   *)
TimerArmed == where = "user" => mtimecmp # Infinite \/ stip

(* A process that sleeps is woken, unless it exits or, since it may well   *)
(* be executing, keeps asking for more sleep.                              *)
SleeperWakes ==
  \A p \in ProcSet :
    \/ []<>(state[p] # "SLEEPING" \/ p \notin Listed)
    \/ []<><<sleep_left'[p] > sleep_left[p]>>_vars

(* "a round robin scheduler that will run idle process when the ELF        *)
(* console is sleeping" (README.md:31): no sleeping process executes.      *)
SleepersDoNotRun == where = "user" /\ cpu # Idle => state[cpu] # "SLEEPING"
=============================================================================
