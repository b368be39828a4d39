------------------------------ MODULE SbiHart ------------------------------
(***************************************************************************)
(* Booting, starting and stopping harts in the machine-mode firmware:      *)
(* src/sbi/src/main.c and src/sbi/src/hart.c, with the lock of             *)
(* src/sbi/src/lock.c and the software-interrupt word of clint.c.          *)
(*                                                                         *)
(* Hart Boot clears the .bss section while the other harts spin on         *)
(* hart0lock, then lets them go and enters the operating system.  Each of  *)
(* the others publishes that it is stopped and parks in a WFI loop.  From  *)
(* then on a running hart may ask the firmware to start a stopped hart     *)
(* (write its HartData, send an MSIP) or to stop itself.  A trap into the  *)
(* firmware runs with interrupts off.                                      *)
(***************************************************************************)
EXTENDS Integers

CONSTANTS
  Harts,     \* the harts the firmware has HartData for
  Boot,      \* hart #0
  Requests,  \* what a caller of hart_start passes: target, scratch and satp
  Zero,      \* the null address
  MaxCalls   \* the bound on the calls the operating system makes

ASSUME HartAssumption == Boot \in Harts /\ Zero \notin Requests
ASSUME CallsAssumption == MaxCalls \in Nat

VARIABLES
  hart0lock,  \* the word the other harts spin on
  lock,       \* sbi_hart_lock
  status,     \* HartData.status
  target,     \* HartData.target_address
  frame,      \* HartData.scratch and HartData.satp
  msip,       \* the CLINT's software interrupt word of each hart
  msie,       \* does the hart listen to it: MSIE in mie
  mepc,       \* where MRET goes: "parked" or "os"
  pc,         \* where each hart is
  arg,        \* the hart and the request of a running hart_start
  running,    \* what the hart was given when it entered the system
  asked,      \* ghost: the request of the last hart_start that was accepted
  calls       \* ghost: how many calls were made

shared == <<hart0lock, lock, status, target, frame, msip>>
vars == <<shared, msie, mepc, pc, arg, running, asked, calls>>

Status == {"INVALID", "STOPPED", "STARTING", "STARTED"}
NoArg == [hart |-> Boot, request |-> Zero]

BootLabels == {"bss", "unlock0", "started", "enter",
               "wait", "release", "stopped", "no_target", "park"}
StartLabels == {"start_check", "start_accept", "start_params", "start_msip", "start_unlock"}
StopLabels == {"stop_check", "stop_regs"}
MsipLabels == {"msip_clear", "msip_check", "msip_unlock"}
Labels == BootLabels \cup StartLabels \cup StopLabels \cup MsipLabels
            \cup {"os", "start_try", "stop_try", "stop_mret",
                  "parked", "msip_lock", "msip_mret"}

Init ==
  /\ hart0lock = 1
  /\ lock = [h \in Harts |-> 0]
  /\ status = [h \in Harts |-> "INVALID"]
  /\ target = [h \in Harts |-> Zero]
  /\ frame = [h \in Harts |-> Zero]
  /\ msip = [h \in Harts |-> 0]
  /\ msie = [h \in Harts |-> FALSE]
  /\ mepc = [h \in Harts |-> "parked"]
  /\ pc = [h \in Harts |-> IF h = Boot THEN "bss" ELSE "wait"]
  /\ arg = [h \in Harts |-> NoArg]
  /\ running = [h \in Harts |-> [target |-> Zero, frame |-> Zero]]
  /\ asked = [h \in Harts |-> Zero]
  /\ calls = 0

Goto(h, from, to) == /\ pc[h] = from
                     /\ pc' = [pc EXCEPT ![h] = to]

-----------------------------------------------------------------------------
(* main of hart #0.  clear_bss zeroes sbi_hart_data and sbi_hart_lock;     *)
(* hart0lock has an initial value and is not in that section.              *)

ClearBss(h) ==
  /\ Goto(h, "bss", "unlock0")
  /\ lock' = [g \in Harts |-> 0]
  /\ status' = [g \in Harts |-> "INVALID"]
  /\ target' = [g \in Harts |-> Zero]
  /\ frame' = [g \in Harts |-> Zero]
  /\ UNCHANGED <<hart0lock, msip, msie, mepc, arg, running, asked, calls>>

UnlockHart0(h) ==
  /\ Goto(h, "unlock0", "started")
  /\ hart0lock' = 0
  /\ UNCHANGED <<lock, status, target, frame, msip, msie, mepc, arg, running, asked, calls>>

BootStarted(h) ==
  /\ Goto(h, "started", "enter")
  /\ status' = [status EXCEPT ![h] = "STARTED"]
  /\ UNCHANGED <<hart0lock, lock, target, frame, msip, msie, mepc, arg, running, asked, calls>>

EnterOS(h) ==
  /\ Goto(h, "enter", "os")
  /\ target' = [target EXCEPT ![h] = Zero]
  /\ msie' = [msie EXCEPT ![h] = TRUE]
  /\ mepc' = [mepc EXCEPT ![h] = "os"]
  /\ UNCHANGED <<hart0lock, lock, status, frame, msip, arg, running, asked, calls>>

-----------------------------------------------------------------------------
(* main of the other harts: wait for hart #0, publish STOPPED, zero the    *)
(* target address, listen to software interrupts and park.                 *)

WaitHart0(h) ==
  /\ Goto(h, "wait", "release")
  /\ hart0lock # 1
  /\ hart0lock' = 1
  /\ UNCHANGED <<lock, status, target, frame, msip, msie, mepc, arg, running, asked, calls>>

ReleaseHart0Not(h) ==
  /\ Goto(h, "release", "stopped")
  /\ UNCHANGED <<shared, msie, mepc, arg, running, asked, calls>>

ReleaseHart0(h) ==
  /\ Goto(h, "release", "stopped")
  /\ hart0lock' = 0
  /\ UNCHANGED <<lock, status, target, frame, msip, msie, mepc, arg, running, asked, calls>>

PublishStopped(h) ==
  /\ Goto(h, "stopped", "no_target")
  /\ status' = [status EXCEPT ![h] = "STOPPED"]
  /\ UNCHANGED <<hart0lock, lock, target, frame, msip, msie, mepc, arg, running, asked, calls>>

ZeroTarget(h) ==
  /\ Goto(h, "no_target", "park")
  /\ target' = [target EXCEPT ![h] = Zero]
  /\ UNCHANGED <<hart0lock, lock, status, frame, msip, msie, mepc, arg, running, asked, calls>>

Park(h) ==
  /\ Goto(h, "park", "parked")
  /\ msie' = [msie EXCEPT ![h] = TRUE]
  /\ mepc' = [mepc EXCEPT ![h] = "parked"]
  /\ UNCHANGED <<shared, arg, running, asked, calls>>

-----------------------------------------------------------------------------
(* hart_start, run by hart h for hart arg[h].hart *)

StartCall(h, t, r) ==
  /\ Goto(h, "os", "start_try")
  /\ calls < MaxCalls
  /\ calls' = calls + 1
  /\ arg' = [arg EXCEPT ![h] = [hart |-> t, request |-> r]]
  /\ UNCHANGED <<shared, msie, mepc, running, asked>>

(* mutex_trylock: somebody else has it, so the call answers false. *)
StartBusy(h) ==
  /\ Goto(h, "start_try", "os")
  /\ lock[arg[h].hart] = 1
  /\ arg' = [arg EXCEPT ![h] = NoArg]
  /\ UNCHANGED <<shared, msie, mepc, running, asked, calls>>

StartTrylockIgnored(h) ==
  /\ Goto(h, "start_try", "start_check")
  /\ lock' = [lock EXCEPT ![arg[h].hart] = 1]
  /\ UNCHANGED <<hart0lock, status, target, frame, msip, msie, mepc, arg, running, asked, calls>>

StartTrylock(h) ==
  /\ Goto(h, "start_try", "start_check")
  /\ lock[arg[h].hart] # 1
  /\ lock' = [lock EXCEPT ![arg[h].hart] = 1]
  /\ UNCHANGED <<hart0lock, status, target, frame, msip, msie, mepc, arg, running, asked, calls>>

StartRefuse(h) ==
  /\ Goto(h, "start_check", "start_unlock")
  /\ status[arg[h].hart] # "STOPPED"
  /\ UNCHANGED <<shared, msie, mepc, arg, running, asked, calls>>

StartCheck(h) ==
  /\ Goto(h, "start_check", "start_accept")
  /\ status[arg[h].hart] = "STOPPED"
  /\ UNCHANGED <<shared, msie, mepc, arg, running, asked, calls>>

StartAccept(h) ==
  /\ Goto(h, "start_accept", "start_params")
  /\ status' = [status EXCEPT ![arg[h].hart] = "STARTING"]
  /\ asked' = [asked EXCEPT ![arg[h].hart] = arg[h].request]
  /\ UNCHANGED <<hart0lock, lock, target, frame, msip, msie, mepc, arg, running, calls>>

StartParams(h) ==
  /\ Goto(h, "start_params", "start_msip")
  /\ target' = [target EXCEPT ![arg[h].hart] = arg[h].request]
  /\ frame' = [frame EXCEPT ![arg[h].hart] = arg[h].request]
  /\ UNCHANGED <<hart0lock, lock, status, msip, msie, mepc, arg, running, asked, calls>>

StartMsipNotSent(h) ==
  /\ Goto(h, "start_msip", "start_unlock")
  /\ UNCHANGED <<shared, msie, mepc, arg, running, asked, calls>>

StartMsip(h) ==
  /\ Goto(h, "start_msip", "start_unlock")
  /\ msip' = [msip EXCEPT ![arg[h].hart] = 1]
  /\ UNCHANGED <<hart0lock, lock, status, target, frame, msie, mepc, arg, running, asked, calls>>

StartReturn(h) ==
  /\ Goto(h, "start_unlock", "os")
  /\ lock' = [lock EXCEPT ![arg[h].hart] = 0]
  /\ arg' = [arg EXCEPT ![h] = NoArg]
  /\ UNCHANGED <<hart0lock, status, target, frame, msip, msie, mepc, running, asked, calls>>

-----------------------------------------------------------------------------
(* hart_stop: a hart stops itself *)

StopCall(h) ==
  /\ Goto(h, "os", "stop_try")
  /\ calls < MaxCalls
  /\ calls' = calls + 1
  /\ UNCHANGED <<shared, msie, mepc, arg, running, asked>>

StopBusy(h) ==
  /\ Goto(h, "stop_try", "os")
  /\ lock[h] = 1
  /\ UNCHANGED <<shared, msie, mepc, arg, running, asked, calls>>

StopTrylock(h) ==
  /\ Goto(h, "stop_try", "stop_check")
  /\ lock[h] # 1
  /\ lock' = [lock EXCEPT ![h] = 1]
  /\ UNCHANGED <<hart0lock, status, target, frame, msip, msie, mepc, arg, running, asked, calls>>

(* The CSRs are the hart's own: mepc becomes park, mie hears MSIP again.   *)
(* The refusal of a hart that is not STARTED is never taken: StatusIsTrue. *)
StopCheckKeepMie(h) ==
  /\ pc[h] = "stop_check"
  /\ IF status[h] = "STARTED"
       THEN /\ pc' = [pc EXCEPT ![h] = "stop_regs"]
            /\ status' = [status EXCEPT ![h] = "STOPPED"]
            /\ mepc' = [mepc EXCEPT ![h] = "parked"]
            /\ UNCHANGED <<lock, msie>>
       ELSE /\ pc' = [pc EXCEPT ![h] = "os"]
            /\ lock' = [lock EXCEPT ![h] = 0]
            /\ UNCHANGED <<status, mepc, msie>>
  /\ UNCHANGED <<hart0lock, target, frame, msip, arg, running, asked, calls>>

StopCheck(h) ==
  /\ pc[h] = "stop_check"
  /\ IF status[h] = "STARTED"
       THEN /\ pc' = [pc EXCEPT ![h] = "stop_regs"]
            /\ status' = [status EXCEPT ![h] = "STOPPED"]
            /\ mepc' = [mepc EXCEPT ![h] = "parked"]
            /\ msie' = [msie EXCEPT ![h] = TRUE]
            /\ UNCHANGED lock
       ELSE /\ pc' = [pc EXCEPT ![h] = "os"]
            /\ lock' = [lock EXCEPT ![h] = 0]
            /\ UNCHANGED <<status, mepc, msie>>
  /\ UNCHANGED <<hart0lock, target, frame, msip, arg, running, asked, calls>>

StopUnlock(h) ==
  /\ Goto(h, "stop_regs", "stop_mret")
  /\ lock' = [lock EXCEPT ![h] = 0]
  /\ UNCHANGED <<hart0lock, status, target, frame, msip, msie, mepc, arg, running, asked, calls>>

StopMret(h) ==
  /\ Goto(h, "stop_mret", mepc[h])
  /\ UNCHANGED <<shared, msie, mepc, arg, running, asked, calls>>

-----------------------------------------------------------------------------
(* hart_handle_msip: the trap a pending software interrupt causes *)

MsipTrap(h) ==
  /\ pc[h] \in {"parked", "os"}
  /\ msip[h] = 1
  /\ msie[h]
  /\ pc' = [pc EXCEPT ![h] = "msip_lock"]
  /\ mepc' = [mepc EXCEPT ![h] = pc[h]]
  /\ UNCHANGED <<shared, msie, arg, running, asked, calls>>

MsipLock(h) ==
  /\ Goto(h, "msip_lock", "msip_clear")
  /\ lock[h] # 1
  /\ lock' = [lock EXCEPT ![h] = 1]
  /\ UNCHANGED <<hart0lock, status, target, frame, msip, msie, mepc, arg, running, asked, calls>>

MsipClear(h) ==
  /\ Goto(h, "msip_clear", "msip_check")
  /\ msip' = [msip EXCEPT ![h] = 0]
  /\ UNCHANGED <<hart0lock, lock, status, target, frame, msie, mepc, arg, running, asked, calls>>

(* A hart that is being started loads its registers from sbi_hart_data and *)
(* leaves for the system; any other goes back to where it was interrupted, *)
(* which StatusIsTrue says never happens.                                  *)
MsipCheck(h) ==
  /\ Goto(h, "msip_check", "msip_unlock")
  /\ IF status[h] = "STARTING"
       THEN /\ status' = [status EXCEPT ![h] = "STARTED"]
            /\ running' = [running EXCEPT ![h] = [target |-> target[h], frame |-> frame[h]]]
            /\ mepc' = [mepc EXCEPT ![h] = "os"]
            /\ msie' = [msie EXCEPT ![h] = FALSE]
       ELSE UNCHANGED <<status, running, mepc, msie>>
  /\ UNCHANGED <<hart0lock, lock, target, frame, msip, arg, asked, calls>>

MsipUnlock(h) ==
  /\ Goto(h, "msip_unlock", "msip_mret")
  /\ lock' = [lock EXCEPT ![h] = 0]
  /\ UNCHANGED <<hart0lock, status, target, frame, msip, msie, mepc, arg, running, asked, calls>>

MsipMret(h) ==
  /\ Goto(h, "msip_mret", mepc[h])
  /\ UNCHANGED <<shared, msie, mepc, arg, running, asked, calls>>

-----------------------------------------------------------------------------
Step(h) ==
  \/ ClearBss(h) \/ UnlockHart0(h) \/ BootStarted(h) \/ EnterOS(h)
  \/ WaitHart0(h) \/ ReleaseHart0(h) \/ PublishStopped(h) \/ ZeroTarget(h) \/ Park(h)
  \/ StartBusy(h) \/ StartTrylock(h) \/ StartRefuse(h) \/ StartCheck(h)
  \/ StartAccept(h) \/ StartParams(h) \/ StartMsip(h) \/ StartReturn(h)
  \/ StopBusy(h) \/ StopTrylock(h) \/ StopCheck(h) \/ StopUnlock(h) \/ StopMret(h)
  \/ MsipTrap(h) \/ MsipLock(h) \/ MsipClear(h) \/ MsipCheck(h)
  \/ MsipUnlock(h) \/ MsipMret(h)

Call(h) ==
  \/ \E t \in Harts, r \in Requests : StartCall(h, t, r)
  \/ StopCall(h)

Next == \E h \in Harts : Call(h) \/ Step(h)

Spec == Init /\ [][Next]_vars

(* A hart keeps executing, and takes an enabled pending interrupt.  The    *)
(* system decides when to call, so Call is not fair.                       *)
FairSpec == Spec /\ \A h \in Harts : WF_vars(Step(h))

-----------------------------------------------------------------------------
(* Properties *)

(* A hart that executes the system, or a call it made, is STARTED, so no   *)
(* hart_start can take it over; a parked hart is STOPPED or STARTING and   *)
(* hears its software interrupt, so a hart_start reaches it; and a hart    *)
(* takes a software interrupt only because it is being started.            *)
StatusIsTrue ==
  \A h \in Harts :
    /\ pc[h] \in StartLabels \cup {"os", "start_try", "stop_try", "stop_check"}
         => status[h] = "STARTED"
    /\ pc[h] = "parked" => status[h] \in {"STOPPED", "STARTING"} /\ msie[h]
    /\ pc[h] \in {"msip_lock", "msip_clear", "msip_check"} => status[h] = "STARTING"

(* A start that was accepted is never lost: while a hart is STARTING its   *)
(* software interrupt is pending, or hart_start is about to send it, or    *)
(* the hart is in the handler between clearing it and reading the status.  *)
NoLostStart ==
  \A t \in Harts : status[t] = "STARTING" =>
    \/ msip[t] = 1
    \/ pc[t] = "msip_check"
    \/ \E h \in Harts : arg[h].hart = t /\ pc[h] \in {"start_params", "start_msip"}

(* A started hart runs with the trap frame and the page table (scratch and *)
(* satp) of the one hart_start that was accepted for it.                   *)
StartsWithItsFrame ==
  \A h \in Harts : status[h] = "STARTED" => running[h].frame = asked[h]

(* Every hart gets through its boot code and every accepted start leads to *)
(* a running hart.                                                         *)
StartTakesEffect ==
  /\ \A h \in Harts : <>(pc[h] \notin BootLabels)
  /\ \A h \in Harts : status[h] = "STARTING" ~> status[h] = "STARTED"

(* "The parameters from sbi_hart_data[] came from the hart_start SVCALL"   *)
(* (hart.c:83): a started hart begins at the address hart_start was given. *)
StartsWhereAsked ==
  \A h \in Harts : status[h] = "STARTED" => running[h].target = asked[h]
=============================================================================
