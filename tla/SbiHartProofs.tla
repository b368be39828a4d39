---------------------------- MODULE SbiHartProofs ----------------------------
(***************************************************************************)
(* Proofs about SbiHart for every set of harts, every set of requests and  *)
(* every bound on the calls.                                               *)
(*                                                                         *)
(* The properties of SbiHart are not inductive: that a status is true needs*)
(* the per-hart lock (two callers of hart_start must not both pass the     *)
(* check), that the lock excludes needs hart #0's head start (clear_bss    *)
(* zeroes the lock words), and that no start is lost needs to know that a  *)
(* software interrupt is pending only while its hart is being started.     *)
(* IInv adds these.                                                        *)
(***************************************************************************)
EXTENDS SbiHart, TLAPS

Addresses == Requests \cup {Zero}

(* Type correctness of the firmware's data, the CSRs and the harts' own    *)
(* locals.                                                                 *)
TypeOK ==
  /\ hart0lock \in {0, 1}
  /\ lock \in [Harts -> {0, 1}]
  /\ status \in [Harts -> Status]
  /\ target \in [Harts -> Addresses]
  /\ frame \in [Harts -> Addresses]
  /\ msip \in [Harts -> {0, 1}]
  /\ msie \in [Harts -> BOOLEAN]
  /\ mepc \in [Harts -> {"parked", "os"}]
  /\ pc \in [Harts -> Labels]
  /\ arg \in [Harts -> [hart : Harts, request : Addresses]]
  /\ running \in [Harts -> [target : Addresses, frame : Addresses]]
  /\ asked \in [Harts -> Addresses]
  /\ calls \in Nat

(* Hart h is between taking and releasing the lock of hart t: hart_start   *)
(* takes that of its argument, hart_stop and hart_handle_msip their own.   *)
Holds(h, t) ==
  \/ pc[h] \in StartLabels /\ arg[h].hart = t
  \/ pc[h] \in StopLabels \cup MsipLabels /\ h = t

(* The lock word is 1 while somebody holds the lock, and one hart does. *)
LockInv ==
  /\ \A h, t \in Harts : Holds(h, t) => lock[t] = 1
  /\ \A g, h, t \in Harts : Holds(g, t) /\ Holds(h, t) => g = h

(* Until hart #0 stores 0 into hart0lock every other hart spins on it. *)
BootInv ==
  \A h \in Harts : pc[h] \in {"bss", "unlock0"} =>
    hart0lock = 1 /\ \A g \in Harts : g # h => pc[g] = "wait"

Booting == {"bss", "unlock0", "started", "wait", "release", "stopped"}
InSystem == StartLabels \cup {"enter", "os", "start_try", "stop_try", "stop_check",
                              "msip_unlock", "msip_mret"}
Parking == {"no_target", "park", "stop_regs", "stop_mret", "parked"}
BeingStarted == {"msip_lock", "msip_clear", "msip_check"}

(* What where a hart is says of its status and of its registers. *)
PlaceInv ==
  \A h \in Harts :
    /\ pc[h] \in Booting => status[h] = "INVALID"
    /\ pc[h] \in InSystem => status[h] = "STARTED"
    /\ pc[h] \in Parking => status[h] \in {"STOPPED", "STARTING"}
    /\ pc[h] \in BeingStarted => status[h] = "STARTING"
    /\ pc[h] \in {"stop_regs", "stop_mret", "parked"} => msie[h]
    /\ pc[h] \in {"stop_regs", "stop_mret"} => mepc[h] = "parked"
    /\ pc[h] \in {"msip_unlock", "msip_mret"} => mepc[h] = "os"

(* A software interrupt is pending only while its hart is being started,   *)
(* and what hart_start read under the lock stays true until it unlocks.    *)
StartInv ==
  /\ \A t \in Harts : msip[t] = 1 => status[t] = "STARTING"
  /\ \A t \in Harts : pc[t] = "msip_check" => msip[t] = 0
  /\ \A h \in Harts : pc[h] = "start_accept" => status[arg[h].hart] = "STOPPED"
  /\ \A h \in Harts : pc[h] \in {"start_params", "start_msip"} =>
                        status[arg[h].hart] = "STARTING"

(* The frame of a hart that is being started is the one asked for as soon  *)
(* as hart_start has written it; a hart that never was started has none.   *)
FrameInv ==
  /\ \A h \in Harts : pc[h] = "start_params" => asked[arg[h].hart] = arg[h].request
  /\ \A t \in Harts :
       status[t] = "STARTING" =>
         \/ frame[t] = asked[t]
         \/ \E h \in Harts : arg[h].hart = t /\ pc[h] = "start_params"
  /\ \A t \in Harts : status[t] = "INVALID" => asked[t] = Zero /\ running[t].frame = Zero
  /\ StartsWithItsFrame

IInv == /\ TypeOK /\ LockInv /\ BootInv /\ PlaceInv
        /\ StartInv /\ NoLostStart /\ FrameInv

-----------------------------------------------------------------------------
(* clear_bss zeroes the locks and the hart data: every other hart spins.   *)
LEMMA ClearBssIInv ==
  ASSUME IInv, NEW h \in Harts, ClearBss(h)
  PROVE  IInv'
<1> USE HartAssumption DEF IInv, TypeOK, ClearBss, Goto, Labels, BootLabels,
     StartLabels, StopLabels, MsipLabels
<1>1. TypeOK'
  BY DEF Addresses, Status
<1>2. LockInv'
  BY DEF LockInv, Holds, BootInv
<1>3. BootInv'
  BY DEF BootInv
<1>4. PlaceInv'
  BY DEF PlaceInv, Booting, InSystem, Parking, BeingStarted, BootInv
<1>5. StartInv'
  BY DEF StartInv, PlaceInv, Booting, InSystem, Parking, BeingStarted, BootInv
<1>6. NoLostStart'
  BY DEF NoLostStart
<1>7. FrameInv'
  BY DEF FrameInv, StartsWithItsFrame, PlaceInv, Booting, InSystem, Parking,
       BeingStarted, BootInv
<1>8. QED
  BY <1>1, <1>2, <1>3, <1>4, <1>5, <1>6, <1>7

(* Hart #0 lets the others go.                                             *)
LEMMA UnlockHart0IInv ==
  ASSUME IInv, NEW h \in Harts, UnlockHart0(h)
  PROVE  IInv'
<1> USE HartAssumption DEF IInv, TypeOK, UnlockHart0, Goto, Labels,
     BootLabels, StartLabels, StopLabels, MsipLabels
<1>1. TypeOK'
  BY DEF Addresses
<1>2. LockInv'
  BY DEF LockInv, Holds
<1>3. BootInv'
  BY DEF BootInv
<1>4. PlaceInv'
  BY DEF PlaceInv, Booting, InSystem, Parking, BeingStarted
<1>5. StartInv'
  BY DEF StartInv
<1>6. NoLostStart'
  BY DEF NoLostStart
<1>7. FrameInv'
  BY DEF FrameInv, StartsWithItsFrame
<1>8. QED
  BY <1>1, <1>2, <1>3, <1>4, <1>5, <1>6, <1>7

(* Hart #0 publishes STARTED.                                              *)
LEMMA BootStartedIInv ==
  ASSUME IInv, NEW h \in Harts, BootStarted(h)
  PROVE  IInv'
<1> USE HartAssumption DEF IInv, TypeOK, BootStarted, Goto, Labels,
     BootLabels, StartLabels, StopLabels, MsipLabels
<1>1. TypeOK'
  BY DEF Status
<1>2. LockInv'
  BY DEF LockInv, Holds
<1>3. BootInv'
  BY DEF BootInv
<1>4. PlaceInv'
  BY DEF PlaceInv, Booting, InSystem, Parking, BeingStarted
<1>5. StartInv'
  BY DEF StartInv, PlaceInv, Booting, InSystem, Parking, BeingStarted
<1>6. NoLostStart'
  BY DEF NoLostStart
<1>7. FrameInv'
  BY DEF FrameInv, StartsWithItsFrame, PlaceInv, Booting, InSystem, Parking,
       BeingStarted
<1>8. QED
  BY <1>1, <1>2, <1>3, <1>4, <1>5, <1>6, <1>7

(* Hart #0 leaves for the operating system.                                *)
LEMMA EnterOSIInv ==
  ASSUME IInv, NEW h \in Harts, EnterOS(h)
  PROVE  IInv'
<1> USE HartAssumption DEF IInv, TypeOK, EnterOS, Goto, Labels, BootLabels,
     StartLabels, StopLabels, MsipLabels
<1>1. TypeOK'
  BY DEF Addresses
<1>2. LockInv'
  BY DEF LockInv, Holds
<1>3. BootInv'
  BY DEF BootInv
<1>4. PlaceInv'
  BY DEF PlaceInv, Booting, InSystem, Parking, BeingStarted
<1>5. StartInv'
  BY DEF StartInv
<1>6. NoLostStart'
  BY DEF NoLostStart, StartInv
<1>7. FrameInv'
  BY DEF FrameInv, StartsWithItsFrame
<1>8. QED
  BY <1>1, <1>2, <1>3, <1>4, <1>5, <1>6, <1>7

(* Another hart gets past hart0lock: hart #0 has cleared .bss by then.     *)
LEMMA WaitHart0IInv ==
  ASSUME IInv, NEW h \in Harts, WaitHart0(h)
  PROVE  IInv'
<1> USE HartAssumption DEF IInv, TypeOK, WaitHart0, Goto, Labels, BootLabels,
     StartLabels, StopLabels, MsipLabels
<1>1. TypeOK'
  BY DEF Addresses
<1>2. LockInv'
  BY DEF LockInv, Holds
<1>3. BootInv'
  BY DEF BootInv
<1>4. PlaceInv'
  BY DEF PlaceInv, Booting, InSystem, Parking, BeingStarted
<1>5. StartInv'
  BY DEF StartInv
<1>6. NoLostStart'
  BY DEF NoLostStart
<1>7. FrameInv'
  BY DEF FrameInv, StartsWithItsFrame
<1>8. QED
  BY <1>1, <1>2, <1>3, <1>4, <1>5, <1>6, <1>7

(* It lets the next one through.                                           *)
LEMMA ReleaseHart0IInv ==
  ASSUME IInv, NEW h \in Harts, ReleaseHart0(h)
  PROVE  IInv'
<1> USE HartAssumption DEF IInv, TypeOK, ReleaseHart0, Goto, Labels,
     BootLabels, StartLabels, StopLabels, MsipLabels
<1>1. TypeOK'
  BY DEF Addresses
<1>2. LockInv'
  BY DEF LockInv, Holds
<1>3. BootInv'
  BY DEF BootInv
<1>4. PlaceInv'
  BY DEF PlaceInv, Booting, InSystem, Parking, BeingStarted
<1>5. StartInv'
  BY DEF StartInv
<1>6. NoLostStart'
  BY DEF NoLostStart
<1>7. FrameInv'
  BY DEF FrameInv, StartsWithItsFrame
<1>8. QED
  BY <1>1, <1>2, <1>3, <1>4, <1>5, <1>6, <1>7

(* It publishes STOPPED; it was INVALID, so nobody is starting it.         *)
LEMMA PublishStoppedIInv ==
  ASSUME IInv, NEW h \in Harts, PublishStopped(h)
  PROVE  IInv'
<1> USE HartAssumption DEF IInv, TypeOK, PublishStopped, Goto, Labels,
     BootLabels, StartLabels, StopLabels, MsipLabels
<1>1. TypeOK'
  BY DEF Status
<1>2. LockInv'
  BY DEF LockInv, Holds
<1>3. BootInv'
  BY DEF BootInv
<1>4. PlaceInv'
  BY DEF PlaceInv, Booting, InSystem, Parking, BeingStarted
<1>5. StartInv'
  BY DEF StartInv, PlaceInv, Booting, InSystem, Parking, BeingStarted
<1>6. NoLostStart'
  BY DEF NoLostStart
<1>7. FrameInv'
  BY DEF FrameInv, StartsWithItsFrame
<1>8. QED
  BY <1>1, <1>2, <1>3, <1>4, <1>5, <1>6, <1>7

(* It zeroes its target address.                                           *)
LEMMA ZeroTargetIInv ==
  ASSUME IInv, NEW h \in Harts, ZeroTarget(h)
  PROVE  IInv'
<1> USE HartAssumption DEF IInv, TypeOK, ZeroTarget, Goto, Labels, BootLabels,
     StartLabels, StopLabels, MsipLabels
<1>1. TypeOK'
  BY DEF Addresses
<1>2. LockInv'
  BY DEF LockInv, Holds
<1>3. BootInv'
  BY DEF BootInv
<1>4. PlaceInv'
  BY DEF PlaceInv, Booting, InSystem, Parking, BeingStarted
<1>5. StartInv'
  BY DEF StartInv
<1>6. NoLostStart'
  BY DEF NoLostStart, StartInv
<1>7. FrameInv'
  BY DEF FrameInv, StartsWithItsFrame
<1>8. QED
  BY <1>1, <1>2, <1>3, <1>4, <1>5, <1>6, <1>7

(* It listens to software interrupts and parks.                            *)
LEMMA ParkIInv ==
  ASSUME IInv, NEW h \in Harts, Park(h)
  PROVE  IInv'
<1> USE HartAssumption DEF IInv, TypeOK, Park, Goto, shared, Labels,
     BootLabels, StartLabels, StopLabels, MsipLabels
<1>1. TypeOK'
  BY DEF Addresses
<1>2. LockInv'
  BY DEF LockInv, Holds
<1>3. BootInv'
  BY DEF BootInv
<1>4. PlaceInv'
  BY DEF PlaceInv, Booting, InSystem, Parking, BeingStarted
<1>5. StartInv'
  BY DEF StartInv
<1>6. NoLostStart'
  BY DEF NoLostStart
<1>7. FrameInv'
  BY DEF FrameInv, StartsWithItsFrame
<1>8. QED
  BY <1>1, <1>2, <1>3, <1>4, <1>5, <1>6, <1>7

(* The system calls hart_start.                                            *)
LEMMA StartCallIInv ==
  ASSUME IInv, NEW h \in Harts, NEW t \in Harts, NEW r \in Requests,
         StartCall(h, t, r)
  PROVE  IInv'
<1> USE HartAssumption DEF IInv, TypeOK, StartCall, Goto, shared, Labels,
     BootLabels, StartLabels, StopLabels, MsipLabels
<1>1. TypeOK'
  BY DEF Addresses
<1>2. LockInv'
  BY DEF LockInv, Holds
<1>3. BootInv'
  BY DEF BootInv
<1>4. PlaceInv'
  BY DEF PlaceInv, Booting, InSystem, Parking, BeingStarted
<1>5. StartInv'
  BY DEF StartInv
<1>6. NoLostStart'
  BY DEF NoLostStart, PlaceInv, Booting, InSystem, Parking, BeingStarted
<1>7. FrameInv'
  BY DEF FrameInv, StartsWithItsFrame
<1>8. QED
  BY <1>1, <1>2, <1>3, <1>4, <1>5, <1>6, <1>7

(* hart_start finds the lock taken.                                        *)
LEMMA StartBusyIInv ==
  ASSUME IInv, NEW h \in Harts, StartBusy(h)
  PROVE  IInv'
<1> USE HartAssumption DEF IInv, TypeOK, StartBusy, Goto, shared, Labels,
     BootLabels, StartLabels, StopLabels, MsipLabels
<1>1. TypeOK'
  BY DEF NoArg, Addresses
<1>2. LockInv'
  BY DEF LockInv, Holds
<1>3. BootInv'
  BY DEF BootInv
<1>4. PlaceInv'
  BY DEF PlaceInv, Booting, InSystem, Parking, BeingStarted
<1>5. StartInv'
  BY DEF StartInv
<1>6. NoLostStart'
  BY DEF NoLostStart, StartInv
<1>7. FrameInv'
  BY DEF FrameInv, StartsWithItsFrame
<1>8. QED
  BY <1>1, <1>2, <1>3, <1>4, <1>5, <1>6, <1>7

(* hart_start takes the lock of its argument.                              *)
LEMMA StartTrylockIInv ==
  ASSUME IInv, NEW h \in Harts, StartTrylock(h)
  PROVE  IInv'
<1> USE HartAssumption DEF IInv, TypeOK, StartTrylock, Goto, Labels,
     BootLabels, StartLabels, StopLabels, MsipLabels
<1>1. TypeOK'
  BY DEF Addresses
<1>2. LockInv'
  BY DEF LockInv, Holds
<1>3. BootInv'
  BY DEF BootInv
<1>4. PlaceInv'
  BY DEF PlaceInv, Booting, InSystem, Parking, BeingStarted
<1>5. StartInv'
  BY DEF StartInv
<1>6. NoLostStart'
  BY DEF NoLostStart
<1>7. FrameInv'
  BY DEF FrameInv, StartsWithItsFrame
<1>8. QED
  BY <1>1, <1>2, <1>3, <1>4, <1>5, <1>6, <1>7

(* hart_start finds a hart that is not stopped.                            *)
LEMMA StartRefuseIInv ==
  ASSUME IInv, NEW h \in Harts, StartRefuse(h)
  PROVE  IInv'
<1> USE HartAssumption DEF IInv, TypeOK, StartRefuse, Goto, shared, Labels,
     BootLabels, StartLabels, StopLabels, MsipLabels
<1>1. TypeOK'
  BY DEF Addresses
<1>2. LockInv'
  BY DEF LockInv, Holds
<1>3. BootInv'
  BY DEF BootInv
<1>4. PlaceInv'
  BY DEF PlaceInv, Booting, InSystem, Parking, BeingStarted
<1>5. StartInv'
  BY DEF StartInv
<1>6. NoLostStart'
  BY DEF NoLostStart, LockInv, Holds
<1>7. FrameInv'
  BY DEF FrameInv, StartsWithItsFrame
<1>8. QED
  BY <1>1, <1>2, <1>3, <1>4, <1>5, <1>6, <1>7

(* hart_start finds a stopped hart.                                        *)
LEMMA StartCheckIInv ==
  ASSUME IInv, NEW h \in Harts, StartCheck(h)
  PROVE  IInv'
<1> USE HartAssumption DEF IInv, TypeOK, StartCheck, Goto, shared, Labels,
     BootLabels, StartLabels, StopLabels, MsipLabels
<1>1. TypeOK'
  BY DEF Addresses
<1>2. LockInv'
  BY DEF LockInv, Holds
<1>3. BootInv'
  BY DEF BootInv
<1>4. PlaceInv'
  BY DEF PlaceInv, Booting, InSystem, Parking, BeingStarted
<1>5. StartInv'
  BY DEF StartInv
<1>6. NoLostStart'
  BY DEF NoLostStart
<1>7. FrameInv'
  BY DEF FrameInv, StartsWithItsFrame
<1>8. QED
  BY <1>1, <1>2, <1>3, <1>4, <1>5, <1>6, <1>7

(* hart_start publishes STARTING: it has the lock, so it is the only one.  *)
LEMMA StartAcceptIInv ==
  ASSUME IInv, NEW h \in Harts, StartAccept(h)
  PROVE  IInv'
<1> USE HartAssumption DEF IInv, TypeOK, StartAccept, Goto, Labels,
     BootLabels, StartLabels, StopLabels, MsipLabels
<1>1. TypeOK'
  BY DEF Status
<1>2. LockInv'
  BY DEF LockInv, Holds
<1>3. BootInv'
  BY DEF BootInv
<1>4. PlaceInv'
  BY DEF PlaceInv, Booting, InSystem, Parking, BeingStarted, StartInv
<1>5. StartInv'
  BY DEF StartInv, LockInv, Holds
<1>6. NoLostStart'
  BY DEF NoLostStart
<1>7. FrameInv'
  BY DEF FrameInv, StartsWithItsFrame, StartInv
<1>8. QED
  BY <1>1, <1>2, <1>3, <1>4, <1>5, <1>6, <1>7

(* hart_start writes the parameters.                                       *)
LEMMA StartParamsIInv ==
  ASSUME IInv, NEW h \in Harts, StartParams(h)
  PROVE  IInv'
<1> USE HartAssumption DEF IInv, TypeOK, StartParams, Goto, Labels,
     BootLabels, StartLabels, StopLabels, MsipLabels
<1>1. TypeOK'
  BY DEF Addresses
<1>2. LockInv'
  BY DEF LockInv, Holds
<1>3. BootInv'
  BY DEF BootInv
<1>4. PlaceInv'
  BY DEF PlaceInv, Booting, InSystem, Parking, BeingStarted
<1>5. StartInv'
  BY DEF StartInv
<1>6. NoLostStart'
  BY DEF NoLostStart
<1>7. FrameInv'
  BY DEF FrameInv, StartsWithItsFrame
<1>8. QED
  BY <1>1, <1>2, <1>3, <1>4, <1>5, <1>6, <1>7

(* hart_start sends the software interrupt.                                *)
LEMMA StartMsipIInv ==
  ASSUME IInv, NEW h \in Harts, StartMsip(h)
  PROVE  IInv'
<1> USE HartAssumption DEF IInv, TypeOK, StartMsip, Goto, Labels, BootLabels,
     StartLabels, StopLabels, MsipLabels
<1>1. TypeOK'
  BY DEF Addresses
<1>2. LockInv'
  BY DEF LockInv, Holds
<1>3. BootInv'
  BY DEF BootInv
<1>4. PlaceInv'
  BY DEF PlaceInv, Booting, InSystem, Parking, BeingStarted
<1>5. StartInv'
  BY DEF StartInv, LockInv, Holds
<1>6. NoLostStart'
  BY DEF NoLostStart
<1>7. FrameInv'
  BY DEF FrameInv, StartsWithItsFrame
<1>8. QED
  BY <1>1, <1>2, <1>3, <1>4, <1>5, <1>6, <1>7

(* hart_start unlocks and returns.                                         *)
LEMMA StartReturnIInv ==
  ASSUME IInv, NEW h \in Harts, StartReturn(h)
  PROVE  IInv'
<1> USE HartAssumption DEF IInv, TypeOK, StartReturn, Goto, Labels,
     BootLabels, StartLabels, StopLabels, MsipLabels
<1>1. TypeOK'
  BY DEF NoArg, Addresses
<1>2. LockInv'
  BY DEF LockInv, Holds
<1>3. BootInv'
  BY DEF BootInv
<1>4. PlaceInv'
  BY DEF PlaceInv, Booting, InSystem, Parking, BeingStarted
<1>5. StartInv'
  BY DEF StartInv
<1>6. NoLostStart'
  BY DEF NoLostStart, PlaceInv, Booting, InSystem, Parking, BeingStarted
<1>7. FrameInv'
  BY DEF FrameInv, StartsWithItsFrame
<1>8. QED
  BY <1>1, <1>2, <1>3, <1>4, <1>5, <1>6, <1>7

(* The system calls hart_stop.                                             *)
LEMMA StopCallIInv ==
  ASSUME IInv, NEW h \in Harts, StopCall(h)
  PROVE  IInv'
<1> USE HartAssumption DEF IInv, TypeOK, StopCall, Goto, shared, Labels,
     BootLabels, StartLabels, StopLabels, MsipLabels
<1>1. TypeOK'
  BY DEF Addresses
<1>2. LockInv'
  BY DEF LockInv, Holds
<1>3. BootInv'
  BY DEF BootInv
<1>4. PlaceInv'
  BY DEF PlaceInv, Booting, InSystem, Parking, BeingStarted
<1>5. StartInv'
  BY DEF StartInv
<1>6. NoLostStart'
  BY DEF NoLostStart
<1>7. FrameInv'
  BY DEF FrameInv, StartsWithItsFrame
<1>8. QED
  BY <1>1, <1>2, <1>3, <1>4, <1>5, <1>6, <1>7

(* hart_stop finds its own lock taken.                                     *)
LEMMA StopBusyIInv ==
  ASSUME IInv, NEW h \in Harts, StopBusy(h)
  PROVE  IInv'
<1> USE HartAssumption DEF IInv, TypeOK, StopBusy, Goto, shared, Labels,
     BootLabels, StartLabels, StopLabels, MsipLabels
<1>1. TypeOK'
  BY DEF Addresses
<1>2. LockInv'
  BY DEF LockInv, Holds
<1>3. BootInv'
  BY DEF BootInv
<1>4. PlaceInv'
  BY DEF PlaceInv, Booting, InSystem, Parking, BeingStarted
<1>5. StartInv'
  BY DEF StartInv
<1>6. NoLostStart'
  BY DEF NoLostStart
<1>7. FrameInv'
  BY DEF FrameInv, StartsWithItsFrame
<1>8. QED
  BY <1>1, <1>2, <1>3, <1>4, <1>5, <1>6, <1>7

(* hart_stop takes its own lock.                                           *)
LEMMA StopTrylockIInv ==
  ASSUME IInv, NEW h \in Harts, StopTrylock(h)
  PROVE  IInv'
<1> USE HartAssumption DEF IInv, TypeOK, StopTrylock, Goto, Labels,
     BootLabels, StartLabels, StopLabels, MsipLabels
<1>1. TypeOK'
  BY DEF Addresses
<1>2. LockInv'
  BY DEF LockInv, Holds
<1>3. BootInv'
  BY DEF BootInv
<1>4. PlaceInv'
  BY DEF PlaceInv, Booting, InSystem, Parking, BeingStarted
<1>5. StartInv'
  BY DEF StartInv
<1>6. NoLostStart'
  BY DEF NoLostStart, StartInv
<1>7. FrameInv'
  BY DEF FrameInv, StartsWithItsFrame
<1>8. QED
  BY <1>1, <1>2, <1>3, <1>4, <1>5, <1>6, <1>7

(* hart_stop publishes STOPPED.                                            *)
LEMMA StopCheckIInv ==
  ASSUME IInv, NEW h \in Harts, StopCheck(h)
  PROVE  IInv'
<1> USE HartAssumption DEF IInv, TypeOK, Labels, BootLabels, StartLabels,
     StopLabels, MsipLabels
<1>1. /\ status[h] = "STARTED" /\ pc[h] = "stop_check"
      /\ pc' = [pc EXCEPT ![h] = "stop_regs"]
      /\ status' = [status EXCEPT ![h] = "STOPPED"]
      /\ mepc' = [mepc EXCEPT ![h] = "parked"]
      /\ msie' = [msie EXCEPT ![h] = TRUE]
      /\ UNCHANGED <<hart0lock, lock, target, frame, msip, arg, running, asked, calls>>
  BY DEF StopCheck, PlaceInv, InSystem
<1>2. TypeOK'
  BY <1>1 DEF Status
<1>3. LockInv'
  BY <1>1 DEF LockInv, Holds
<1>4. BootInv'
  BY <1>1 DEF BootInv
<1>5. PlaceInv'
  BY <1>1 DEF PlaceInv, Booting, InSystem, Parking, BeingStarted
<1>6. StartInv'
  BY <1>1 DEF StartInv
<1>7. NoLostStart'
  BY <1>1 DEF NoLostStart
<1>8. FrameInv'
  BY <1>1 DEF FrameInv, StartsWithItsFrame
<1>9. QED
  BY <1>2, <1>3, <1>4, <1>5, <1>6, <1>7, <1>8

(* hart_stop unlocks.                                                      *)
LEMMA StopUnlockIInv ==
  ASSUME IInv, NEW h \in Harts, StopUnlock(h)
  PROVE  IInv'
<1> USE HartAssumption DEF IInv, TypeOK, StopUnlock, Goto, Labels, BootLabels,
     StartLabels, StopLabels, MsipLabels
<1>1. TypeOK'
  BY DEF Addresses
<1>2. LockInv'
  BY DEF LockInv, Holds
<1>3. BootInv'
  BY DEF BootInv
<1>4. PlaceInv'
  BY DEF PlaceInv, Booting, InSystem, Parking, BeingStarted
<1>5. StartInv'
  BY DEF StartInv
<1>6. NoLostStart'
  BY DEF NoLostStart
<1>7. FrameInv'
  BY DEF FrameInv, StartsWithItsFrame
<1>8. QED
  BY <1>1, <1>2, <1>3, <1>4, <1>5, <1>6, <1>7

(* hart_stop leaves for the parking loop.                                  *)
LEMMA StopMretIInv ==
  ASSUME IInv, NEW h \in Harts, StopMret(h)
  PROVE  IInv'
<1> USE HartAssumption DEF IInv, TypeOK, StopMret, Goto, shared, Labels,
     BootLabels, StartLabels, StopLabels, MsipLabels
<1>1. mepc[h] = "parked"
  BY DEF PlaceInv
<1>2. TypeOK'
  BY <1>1 DEF Addresses
<1>3. LockInv'
  BY <1>1 DEF LockInv, Holds
<1>4. BootInv'
  BY <1>1 DEF BootInv
<1>5. PlaceInv'
  BY <1>1 DEF PlaceInv, Booting, InSystem, Parking, BeingStarted
<1>6. StartInv'
  BY <1>1 DEF StartInv
<1>7. NoLostStart'
  BY <1>1 DEF NoLostStart
<1>8. FrameInv'
  BY <1>1 DEF FrameInv, StartsWithItsFrame
<1>9. QED
  BY <1>2, <1>3, <1>4, <1>5, <1>6, <1>7, <1>8

(* A pending software interrupt is taken, by a parked hart only.           *)
LEMMA MsipTrapIInv ==
  ASSUME IInv, NEW h \in Harts, MsipTrap(h)
  PROVE  IInv'
<1> USE HartAssumption DEF IInv, TypeOK, MsipTrap, shared, Labels, BootLabels,
     StartLabels, StopLabels, MsipLabels
<1>1. TypeOK'
  BY DEF Addresses
<1>2. LockInv'
  BY DEF LockInv, Holds
<1>3. BootInv'
  BY DEF BootInv
<1>4. PlaceInv'
  BY DEF PlaceInv, Booting, InSystem, Parking, BeingStarted, StartInv
<1>5. StartInv'
  BY DEF StartInv
<1>6. NoLostStart'
  BY DEF NoLostStart
<1>7. FrameInv'
  BY DEF FrameInv, StartsWithItsFrame
<1>8. QED
  BY <1>1, <1>2, <1>3, <1>4, <1>5, <1>6, <1>7

(* The handler takes the hart's lock.                                      *)
LEMMA MsipLockIInv ==
  ASSUME IInv, NEW h \in Harts, MsipLock(h)
  PROVE  IInv'
<1> USE HartAssumption DEF IInv, TypeOK, MsipLock, Goto, Labels, BootLabels,
     StartLabels, StopLabels, MsipLabels
<1>1. TypeOK'
  BY DEF Addresses
<1>2. LockInv'
  BY DEF LockInv, Holds
<1>3. BootInv'
  BY DEF BootInv
<1>4. PlaceInv'
  BY DEF PlaceInv, Booting, InSystem, Parking, BeingStarted
<1>5. StartInv'
  BY DEF StartInv
<1>6. NoLostStart'
  BY DEF NoLostStart, StartInv
<1>7. FrameInv'
  BY DEF FrameInv, StartsWithItsFrame
<1>8. QED
  BY <1>1, <1>2, <1>3, <1>4, <1>5, <1>6, <1>7

(* The handler clears the interrupt.                                       *)
LEMMA MsipClearIInv ==
  ASSUME IInv, NEW h \in Harts, MsipClear(h)
  PROVE  IInv'
<1> USE HartAssumption DEF IInv, TypeOK, MsipClear, Goto, Labels, BootLabels,
     StartLabels, StopLabels, MsipLabels
<1>1. TypeOK'
  BY DEF Addresses
<1>2. LockInv'
  BY DEF LockInv, Holds
<1>3. BootInv'
  BY DEF BootInv
<1>4. PlaceInv'
  BY DEF PlaceInv, Booting, InSystem, Parking, BeingStarted
<1>5. StartInv'
  BY DEF StartInv
<1>6. NoLostStart'
  BY DEF NoLostStart
<1>7. FrameInv'
  BY DEF FrameInv, StartsWithItsFrame
<1>8. QED
  BY <1>1, <1>2, <1>3, <1>4, <1>5, <1>6, <1>7

(* The handler publishes STARTED and loads the registers.                  *)
LEMMA MsipCheckIInv ==
  ASSUME IInv, NEW h \in Harts, MsipCheck(h)
  PROVE  IInv'
<1> USE HartAssumption DEF IInv, TypeOK, Labels, BootLabels, StartLabels,
     StopLabels, MsipLabels
<1>1. /\ status[h] = "STARTING" /\ pc[h] = "msip_check"
      /\ pc' = [pc EXCEPT ![h] = "msip_unlock"]
      /\ status' = [status EXCEPT ![h] = "STARTED"]
      /\ running' = [running EXCEPT ![h] = [target |-> target[h], frame |-> frame[h]]]
      /\ mepc' = [mepc EXCEPT ![h] = "os"]
      /\ msie' = [msie EXCEPT ![h] = FALSE]
      /\ UNCHANGED <<hart0lock, lock, target, frame, msip, arg, asked, calls>>
  BY DEF MsipCheck, Goto, PlaceInv, BeingStarted
<1>2. TypeOK'
  BY <1>1 DEF Status
<1>3. LockInv'
  BY <1>1 DEF LockInv, Holds
<1>4. BootInv'
  BY <1>1 DEF BootInv
<1>5. PlaceInv'
  BY <1>1 DEF PlaceInv, Booting, InSystem, Parking, BeingStarted
<1>6. StartInv'
  BY <1>1 DEF StartInv, LockInv, Holds
<1>7. NoLostStart'
  BY <1>1 DEF NoLostStart, StartInv
<1>8. FrameInv'
  BY <1>1 DEF FrameInv, StartsWithItsFrame, LockInv, Holds
<1>9. QED
  BY <1>2, <1>3, <1>4, <1>5, <1>6, <1>7, <1>8

(* The handler unlocks.                                                    *)
LEMMA MsipUnlockIInv ==
  ASSUME IInv, NEW h \in Harts, MsipUnlock(h)
  PROVE  IInv'
<1> USE HartAssumption DEF IInv, TypeOK, MsipUnlock, Goto, Labels, BootLabels,
     StartLabels, StopLabels, MsipLabels
<1>1. TypeOK'
  BY DEF Addresses
<1>2. LockInv'
  BY DEF LockInv, Holds
<1>3. BootInv'
  BY DEF BootInv
<1>4. PlaceInv'
  BY DEF PlaceInv, Booting, InSystem, Parking, BeingStarted
<1>5. StartInv'
  BY DEF StartInv
<1>6. NoLostStart'
  BY DEF NoLostStart
<1>7. FrameInv'
  BY DEF FrameInv, StartsWithItsFrame
<1>8. QED
  BY <1>1, <1>2, <1>3, <1>4, <1>5, <1>6, <1>7

(* The handler leaves for the system.                                      *)
LEMMA MsipMretIInv ==
  ASSUME IInv, NEW h \in Harts, MsipMret(h)
  PROVE  IInv'
<1> USE HartAssumption DEF IInv, TypeOK, MsipMret, Goto, shared, Labels,
     BootLabels, StartLabels, StopLabels, MsipLabels
<1>1. mepc[h] = "os"
  BY DEF PlaceInv
<1>2. TypeOK'
  BY <1>1 DEF Addresses
<1>3. LockInv'
  BY <1>1 DEF LockInv, Holds
<1>4. BootInv'
  BY <1>1 DEF BootInv
<1>5. PlaceInv'
  BY <1>1 DEF PlaceInv, Booting, InSystem, Parking, BeingStarted
<1>6. StartInv'
  BY <1>1 DEF StartInv
<1>7. NoLostStart'
  BY <1>1 DEF NoLostStart
<1>8. FrameInv'
  BY <1>1 DEF FrameInv, StartsWithItsFrame
<1>9. QED
  BY <1>2, <1>3, <1>4, <1>5, <1>6, <1>7, <1>8

-----------------------------------------------------------------------------
(* The state the firmware starts in satisfies the inductive invariant. *)
LEMMA InitIInv == Init => IInv
<1> SUFFICES ASSUME Init PROVE IInv
  OBVIOUS
<1> USE HartAssumption DEF Init, Labels, BootLabels, StartLabels, StopLabels, MsipLabels
<1>1. TypeOK
  BY DEF TypeOK, Status, Addresses, NoArg
<1>2. LockInv /\ BootInv
  BY DEF LockInv, Holds, BootInv
<1>3. PlaceInv /\ StartInv
  BY DEF PlaceInv, Booting, InSystem, Parking, BeingStarted, StartInv
<1>4. NoLostStart /\ FrameInv
  BY DEF NoLostStart, FrameInv, StartsWithItsFrame
<1>5. QED
  BY <1>1, <1>2, <1>3, <1>4 DEF IInv

(* Every step of every hart keeps the invariant. *)
LEMMA StepIInv ==
  ASSUME IInv, NEW h \in Harts, Step(h)
  PROVE  IInv'
BY ClearBssIInv, UnlockHart0IInv, BootStartedIInv, EnterOSIInv, WaitHart0IInv,
   ReleaseHart0IInv, PublishStoppedIInv, ZeroTargetIInv, ParkIInv, StartBusyIInv,
   StartTrylockIInv, StartRefuseIInv, StartCheckIInv, StartAcceptIInv, StartParamsIInv,
   StartMsipIInv, StartReturnIInv, StopBusyIInv, StopTrylockIInv, StopCheckIInv,
   StopUnlockIInv, StopMretIInv, MsipTrapIInv, MsipLockIInv, MsipClearIInv,
   MsipCheckIInv, MsipUnlockIInv, MsipMretIInv DEF Step

(* Every step of every hart keeps the invariant. *)
LEMMA NextIInv == IInv /\ [Next]_vars => IInv'
<1> SUFFICES ASSUME IInv, [Next]_vars PROVE IInv'
  OBVIOUS
<1>1. ASSUME NEW h \in Harts, Call(h) PROVE IInv'
  BY <1>1, StartCallIInv, StopCallIInv DEF Call
<1>2. ASSUME NEW h \in Harts, Step(h) PROVE IInv'
  BY <1>2, StepIInv
<1>3. CASE UNCHANGED vars
  BY <1>3 DEF vars, shared, IInv, TypeOK, LockInv, Holds, BootInv, PlaceInv, StartInv,
              NoLostStart, FrameInv, StartsWithItsFrame
<1>4. QED
  BY <1>1, <1>2, <1>3 DEF Next

-----------------------------------------------------------------------------
(* The inductive invariant holds in every state the firmware reaches. *)
THEOREM Invariance == Spec => []IInv
<1>1. QED
  BY InitIInv, NextIInv, PTL DEF Spec

(* Type correctness: every word of the firmware's data, every register it  *)
(* writes and every hart's locals stay in their types.                     *)
THEOREM TypeCorrect == Spec => []TypeOK
<1>1. IInv => TypeOK
  BY DEF IInv
<1>2. QED
  BY <1>1, Invariance, PTL

(* At most one hart is between mutex_trylock or mutex_spinlock and         *)
(* mutex_unlock for the same sbi_hart_lock word, although clear_bss zeroes *)
(* the words after the harts have come up.                                 *)
MutualExclusion ==
  \A g, h, t \in Harts : Holds(g, t) /\ Holds(h, t) => g = h

(* The words sbi_hart_lock do exclude: at most one hart holds each of     *)
(* them.                                                                   *)
THEOREM LocksExclude == Spec => []MutualExclusion
<1>1. IInv => MutualExclusion
  BY DEF IInv, LockInv, MutualExclusion
<1>2. QED
  BY <1>1, Invariance, PTL

(* The status word is true of the hart: a hart that executes the system is *)
(* STARTED, a parked one is STOPPED or STARTING and hears its interrupt,   *)
(* and only a hart that is being started takes one.                        *)
THEOREM StatusTrue == Spec => []StatusIsTrue
<1>1. IInv => StatusIsTrue
  BY DEF IInv, PlaceInv, StatusIsTrue, InSystem, Parking, BeingStarted
<1>2. QED
  BY <1>1, Invariance, PTL

(* No accepted hart_start is lost, however many harts call at once: the    *)
(* interrupt is pending, about to be sent, or being handled.               *)
THEOREM NoStartLost == Spec => []NoLostStart
<1>1. IInv => NoLostStart
  BY DEF IInv
<1>2. QED
  BY <1>1, Invariance, PTL

(* A started hart runs with the frame and page table of the hart_start     *)
(* that was accepted for it: no second caller overwrites them in between.  *)
THEOREM FrameIsAsked == Spec => []StartsWithItsFrame
<1>1. IInv => StartsWithItsFrame
  BY DEF IInv, FrameInv
<1>2. QED
  BY <1>1, Invariance, PTL

(* How a status may change: INVALID once to STARTED (hart #0) or STOPPED   *)
(* (the others), then round STOPPED, STARTING, STARTED, STOPPED.  Somebody *)
(* else changes a hart's status only from STOPPED to STARTING; every other *)
(* change is a step of the hart itself.                                    *)
StatusStep(h) ==
  \/ status'[h] = status[h]
  \/ status[h] = "STOPPED" /\ status'[h] = "STARTING"
  \/ /\ pc'[h] # pc[h]
     /\ \/ status[h] \in {"INVALID", "STARTING"} /\ status'[h] = "STARTED"
        \/ status[h] \in {"INVALID", "STARTED"} /\ status'[h] = "STOPPED"

(* The writes of main, hart_start, hart_stop and hart_handle_msip to       *)
(* HartData.status follow that cycle.                                      *)
THEOREM StatusCycle == Spec => [][\A h \in Harts : StatusStep(h)]_vars
<1>1. IInv /\ [Next]_vars => [\A h \in Harts : StatusStep(h)]_vars
  <2> SUFFICES ASSUME IInv, [Next]_vars PROVE [\A h \in Harts : StatusStep(h)]_vars
    OBVIOUS
  <2>1. CASE UNCHANGED vars
    BY <2>1
  <2>2. ASSUME NEW g \in Harts, Call(g) PROVE UNCHANGED status
    BY <2>2 DEF Call, StartCall, StopCall, shared
  <2>3. ASSUME NEW g \in Harts, Step(g), NEW h \in Harts PROVE StatusStep(h)
    <3>1. CASE ClearBss(g)
      BY <3>1 DEF ClearBss, Goto, StatusStep, IInv, TypeOK, BootInv, PlaceInv, Booting
    <3>2. CASE BootStarted(g) \/ PublishStopped(g)
      BY <3>2 DEF BootStarted, PublishStopped, Goto, StatusStep, IInv, TypeOK, PlaceInv, Booting
    <3>3. CASE StartAccept(g)
      BY <3>3 DEF StartAccept, StatusStep, Goto, IInv, TypeOK, StartInv
    <3>4. CASE StopCheck(g)
      BY <3>4 DEF StopCheck, StatusStep, IInv, TypeOK
    <3>5. CASE MsipCheck(g)
      BY <3>5 DEF MsipCheck, StatusStep, Goto, IInv, TypeOK
    <3>6. CASE /\ ~ClearBss(g) /\ ~BootStarted(g) /\ ~PublishStopped(g)
               /\ ~StartAccept(g) /\ ~StopCheck(g) /\ ~MsipCheck(g)
      <4>1. UNCHANGED status
        BY <2>3, <3>6 DEF Step, UnlockHart0, EnterOS, WaitHart0, ReleaseHart0, ZeroTarget,
             Park, StartBusy, StartTrylock, StartRefuse, StartCheck, StartParams, StartMsip,
             StartReturn, StopBusy, StopTrylock, StopUnlock, StopMret, MsipTrap, MsipLock,
             MsipClear, MsipUnlock, MsipMret, shared
      <4>2. QED
        BY <4>1 DEF StatusStep
    <3>7. QED
      BY <3>1, <3>2, <3>3, <3>4, <3>5, <3>6
  <2>4. QED
    BY <2>1, <2>2, <2>3 DEF Next, StatusStep
<1>2. QED
  BY <1>1, Invariance, PTL DEF Spec
=============================================================================
