--------------------------- MODULE SchedulerProofs ---------------------------
(***************************************************************************)
(* Proofs about Scheduler for every number of processes, quantum and       *)
(* length of sleep.                                                        *)
(*                                                                         *)
(* What executes is what is marked as being on the hart in every state,    *)
(* not only in user mode: that is what makes the search for "the process   *)
(* on this hart" find the caller, and what the scheduler saves the         *)
(* registers into.  The other half of the argument is that the cursor of   *)
(* the walk, when exit has freed its element, has a next pointer that      *)
(* leads back into the list.                                               *)
(***************************************************************************)
EXTENDS Scheduler, SequenceLemmas

Known == ProcSet \cup {Idle}

TypeOK ==
  /\ g_processes \in Seq(ProcSet) /\ IsInjective(g_processes)
  /\ freed_next \in [ProcSet -> Elem]
  /\ curr_list_elem \in Elem \cup {Null}
  /\ state \in [Known -> {"RUNNING", "SLEEPING", "WAITING"}]
  /\ sleep_left \in [ProcSet -> Nat]
  /\ on_hart \in [Known -> BOOLEAN]
  /\ sepc \in [Known -> Known \cup {Null}]
  /\ cpu \in Known \cup {Null}
  /\ where \in {"user", "ack", "sched", "lost"}
  /\ mtimecmp \in 0 .. Infinite
  /\ stip \in BOOLEAN
  /\ exited \subseteq ProcSet

(* The marks are true wherever the hart is; outside the scheduler it has   *)
(* the registers of a process that is listed, or of idle.                  *)
BooksInv ==
  /\ \A p \in Listed \cup {Idle} : on_hart[p] <=> p = cpu
  /\ where \in {"user", "ack"} => cpu \in Listed \cup {Idle}

ExitedInv == exited \cap Listed = {}

(* The cursor is in the list, or its element was just freed and leads back *)
(* into the list.                                                          *)
CursorInv ==
  /\ where \in {"user", "ack"} => curr_list_elem \in Listed \cup {ListHead}
  /\ \/ curr_list_elem \in Listed \cup {ListHead, Null}
     \/ curr_list_elem \in ProcSet /\ freed_next[curr_list_elem] \in Listed \cup {ListHead}

IInv == TypeOK /\ BooksInv /\ ExitedInv /\ CursorInv /\ ResumesItself /\ TimerArmed

-----------------------------------------------------------------------------
(* The elements of the list are its processes. *)
LEMMA ListedIs ==
  ASSUME g_processes \in Seq(ProcSet)
  PROVE  /\ Len(g_processes) \in Nat /\ DOMAIN g_processes = 1 .. Len(g_processes)
         /\ Listed = {g_processes[k] : k \in 1 .. Len(g_processes)}
         /\ Listed \subseteq ProcSet
         /\ g_processes = <<>> <=> Len(g_processes) = 0
<1>1. Len(g_processes) \in Nat /\ DOMAIN g_processes = 1 .. Len(g_processes)
  OBVIOUS
<1>2. Listed = {g_processes[k] : k \in 1 .. Len(g_processes)}
  BY <1>1 DEF Listed, Range
<1>3. \A k \in 1 .. Len(g_processes) : g_processes[k] \in ProcSet
  BY ElementOfSeq
<1>4. g_processes = <<>> <=> Len(g_processes) = 0
  BY EmptySeq
<1>5. QED
  BY <1>1, <1>2, <1>3, <1>4

(* Every listed process has one position in the list. *)
LEMMA IndexOfListed ==
  ASSUME TypeOK, NEW p \in Listed
  PROVE  /\ IndexOf(p) \in 1 .. Len(g_processes)
         /\ g_processes[IndexOf(p)] = p
         /\ \A k \in 1 .. Len(g_processes) : g_processes[k] = p => k = IndexOf(p)
<1>1. /\ DOMAIN g_processes = 1 .. Len(g_processes) /\ IsInjective(g_processes)
      /\ Listed = {g_processes[k] : k \in 1 .. Len(g_processes)}
  BY ListedIs DEF TypeOK
<1>2. \E k \in DOMAIN g_processes : g_processes[k] = p
  BY <1>1
<1>3. IndexOf(p) \in DOMAIN g_processes /\ g_processes[IndexOf(p)] = p
  BY <1>2 DEF IndexOf
<1>4. QED
  BY <1>1, <1>3 DEF IsInjective

(* get_proc_on_hart finds the process whose registers the hart has. *)
LEMMA OnHartIsCpu ==
  ASSUME TypeOK, BooksInv
  PROVE  GetProcOnHart = IF cpu \in Listed THEN cpu ELSE Null
<1> DEFINE n == Len(g_processes)
           I == {k \in 1 .. n : on_hart[g_processes[k]]}
<1>1. /\ n \in Nat /\ Listed = {g_processes[k] : k \in 1 .. n} /\ Listed \subseteq ProcSet
  BY ListedIs DEF TypeOK
<1>2. \A k \in 1 .. n : k \in I <=> g_processes[k] = cpu
  BY <1>1 DEF BooksInv
<1>3. SelectLastInSeq(g_processes, LAMBDA p : on_hart[p]) = IF I # {} THEN Max(I) ELSE 0
  BY DEF SelectLastInSeq
<1>4. CASE cpu \in Listed
  <2>1. /\ IndexOf(cpu) \in 1 .. n /\ g_processes[IndexOf(cpu)] = cpu
        /\ \A k \in 1 .. n : g_processes[k] = cpu => k = IndexOf(cpu)
    BY <1>4, IndexOfListed
  <2>2. I = {IndexOf(cpu)}
    BY <1>2, <2>1
  <2>3. Max({IndexOf(cpu)}) = IndexOf(cpu) /\ IndexOf(cpu) # 0
    BY <2>1 DEF Max
  <2>4. QED
    BY <1>3, <1>4, <2>1, <2>2, <2>3 DEF GetProcOnHart
<1>5. CASE cpu \notin Listed
  <2>1. I = {}
    BY <1>1, <1>2, <1>5
  <2>2. QED
    BY <1>3, <1>5, <2>1 DEF GetProcOnHart
<1>6. QED
  BY <1>4, <1>5

(* So the registers are saved into the process they belong to, if it has   *)
(* not exited.                                                             *)
LEMMA SavedIsCpu ==
  ASSUME TypeOK, BooksInv
  PROVE  Saved = IF cpu \in Listed \cup {Idle} THEN cpu ELSE Null
<1>1. GetProcOnHart = IF cpu \in Listed THEN cpu ELSE Null
  BY OnHartIsCpu
<1>2. Listed \subseteq ProcSet /\ Idle \notin ProcSet /\ Null \notin ProcSet
  BY ListedIs, SchedAssumption DEF TypeOK, Elem
<1>3. on_hart[Idle] <=> Idle = cpu
  BY DEF BooksInv
<1>4. QED
  BY <1>1, <1>2, <1>3 DEF Saved

-----------------------------------------------------------------------------
(* The walk of round_robin. *)

InList == Listed \cup {ListHead}

(* Both ends of the list are in it, or are its head. *)
LEMMA StartsInList ==
  ASSUME TypeOK
  PROVE  StartDescending \in InList /\ StartAscending \in InList
<1>1. /\ Len(g_processes) \in Nat /\ Listed = {g_processes[k] : k \in 1 .. Len(g_processes)}
      /\ g_processes = <<>> <=> Len(g_processes) = 0
  BY ListedIs DEF TypeOK
<1>2. CASE g_processes = <<>>
  BY <1>2 DEF StartDescending, StartAscending, InList
<1>3. CASE g_processes # <<>>
  <2>1. 1 \in 1 .. Len(g_processes) /\ Len(g_processes) \in 1 .. Len(g_processes)
    BY <1>1, <1>3
  <2>2. QED
    BY <1>1, <1>3, <2>1 DEF StartDescending, StartAscending, InList, Last
<1>4. QED
  BY <1>2, <1>3

(* From an element in the list the walk stays in it. *)
LEMMA NextInList ==
  ASSUME TypeOK, NEW e \in InList
  PROVE  ListNext(e) \in InList
<1>1. CASE e = ListHead
  BY <1>1, StartsInList DEF ListNext
<1>2. CASE e # ListHead
  <2>1. e \in Listed
    BY <1>2 DEF InList
  <2>2. /\ Len(g_processes) \in Nat /\ Listed = {g_processes[k] : k \in 1 .. Len(g_processes)}
    BY ListedIs DEF TypeOK
  <2>3. IndexOf(e) \in 1 .. Len(g_processes)
    BY <2>1, IndexOfListed
  <2>4. CASE IndexOf(e) = Len(g_processes)
    BY <1>2, <2>1, <2>4 DEF ListNext, InList
  <2>5. CASE IndexOf(e) # Len(g_processes)
    <3>1. IndexOf(e) + 1 \in 1 .. Len(g_processes)
      BY <2>2, <2>3, <2>5
    <3>2. ListNext(e) = g_processes[IndexOf(e) + 1]
      BY <1>2, <2>1, <2>5 DEF ListNext
    <3>3. QED
      BY <2>2, <3>1, <3>2 DEF InList
  <2>6. QED
    BY <2>4, <2>5
<1>3. QED
  BY <1>1, <1>2

(* Its first step leads into the list, also from a freed element. *)
LEMMA FirstInList ==
  ASSUME TypeOK, CursorInv
  PROVE  ListNext(Start) \in InList
<1>1. CASE Start \in InList
  BY <1>1, NextInList
<1>2. CASE Start \notin InList
  <2>1. curr_list_elem # Null /\ Start = curr_list_elem
    BY <1>2, StartsInList DEF Start
  <2>2. freed_next[Start] \in InList
    BY <1>2, <2>1 DEF CursorInv, InList
  <2>3. ListNext(Start) = freed_next[Start]
    BY <1>2 DEF ListNext, InList
  <2>4. QED
    BY <2>2, <2>3
<1>3. QED
  BY <1>1, <1>2

(* The recursive function Visit is what it is defined as. *)
LEMMA VisitRecursion ==
  Visit = [k \in 0 .. MaxVisits |->
             IF k = 0 THEN ListNext(Start)
             ELSE IF Visit[k - 1] = ListHead THEN StartAscending
             ELSE ListNext(Visit[k - 1])]
<1> DEFINE Step(e) == IF e = ListHead THEN StartAscending ELSE ListNext(e)
           Def(f, n) == [k \in 0 .. n |-> IF k = 0 THEN ListNext(Start) ELSE Step(f[k - 1])]
           T == {n \in 0 .. MaxVisits : \E f : f = Def(f, n)}
<1>0. MaxVisits \in Nat
  BY SchedAssumption DEF MaxVisits
<1> HIDE DEF Step
<1>1. 0 \in T
  <2> DEFINE f == [k \in 0 .. 0 |-> ListNext(Start)]
  <2>1. f = Def(f, 0)
    OBVIOUS
  <2>2. 0 \in 0 .. MaxVisits
    BY <1>0
  <2> HIDE DEF f, Def
  <2>3. QED
    BY <2>1, <2>2
<1>2. ASSUME NEW n \in 1 .. MaxVisits, n - 1 \in T PROVE n \in T
  <2>1. PICK f : f = Def(f, n - 1)
    BY <1>2
  <2> DEFINE g == [k \in 0 .. n |-> IF k < n THEN f[k] ELSE Step(f[n - 1])]
  <2>2. ASSUME NEW k \in 0 .. n
        PROVE  g[k] = IF k = 0 THEN ListNext(Start) ELSE Step(g[k - 1])
    <3>1. n \in Nat /\ n >= 1 /\ k \in Nat /\ k <= n
      BY <1>0
    <3>2. CASE k = 0
      <4>1. 0 \in 0 .. (n - 1) /\ g[0] = f[0]
        BY <3>1
      <4>2. QED
        BY <2>1, <3>2, <4>1
    <3>3. CASE k # 0 /\ k < n
      <4>1. k \in 0 .. (n - 1) /\ k - 1 \in 0 .. n /\ k - 1 < n
        BY <3>1, <3>3
      <4>2. g[k] = f[k] /\ g[k - 1] = f[k - 1]
        BY <3>3, <4>1
      <4>3. f[k] = Step(f[k - 1])
        BY <2>1, <3>3, <4>1
      <4>4. QED
        BY <3>3, <4>2, <4>3
    <3>4. CASE k = n
      <4>1. n - 1 \in 0 .. n /\ n - 1 < n
        BY <3>1
      <4>2. g[n - 1] = f[n - 1] /\ g[n] = Step(f[n - 1])
        BY <3>1, <4>1
      <4>3. QED
        BY <3>1, <3>4, <4>2
    <3>5. QED
      BY <3>1, <3>2, <3>3, <3>4
  <2>3. g = Def(g, n)
    <3>1. Def(g, n) = [k \in 0 .. n |-> g[k]]
      BY <2>2
    <3>2. QED
      BY <3>1
  <2>4. n \in 0 .. MaxVisits
    BY <1>0
  <2> HIDE DEF g, Def
  <2>5. QED
    BY <2>3, <2>4
<1>3. MaxVisits \in T
  <2> HIDE DEF T
  <2>1. \A k \in 0 .. MaxVisits : k \in T
    BY <1>0, <1>1, <1>2, IntervalInduction
  <2>2. QED
    BY <1>0, <2>1
<1>4. \E f : f = Def(f, MaxVisits)
  BY <1>3
<1>5. Visit = CHOOSE f : f = Def(f, MaxVisits)
  BY DEF Visit, Step
<1>6. Visit = Def(Visit, MaxVisits)
  BY <1>4, <1>5
<1>7. QED
  BY <1>6 DEF Step

(* Wherever the walk ends, it ends in the list. *)
LEMMA VisitsInList ==
  ASSUME TypeOK, CursorInv
  PROVE  \A k \in 0 .. MaxVisits : Visit[k] \in InList
<1> DEFINE T == {k \in 0 .. MaxVisits : Visit[k] \in InList}
<1>0. MaxVisits \in Nat
  BY SchedAssumption DEF MaxVisits
<1>1. 0 \in T
  <2>1. 0 \in 0 .. MaxVisits
    BY <1>0
  <2>2. Visit[0] = ListNext(Start)
    BY <2>1, VisitRecursion
  <2>3. QED
    BY <2>1, <2>2, FirstInList
<1>2. ASSUME NEW k \in 1 .. MaxVisits, k - 1 \in T PROVE k \in T
  <2>1. k \in 0 .. MaxVisits /\ k # 0 /\ Visit[k - 1] \in InList
    BY <1>0, <1>2
  <2>2. Visit[k] = IF Visit[k - 1] = ListHead THEN StartAscending ELSE ListNext(Visit[k - 1])
    BY <2>1, VisitRecursion
  <2>3. QED
    BY <2>1, <2>2, StartsInList, NextInList
<1>3. QED
  <2> HIDE DEF T
  <2>1. \A k \in 0 .. MaxVisits : k \in T
    BY <1>0, <1>1, <1>2, IntervalInduction
  <2>2. QED
    BY <2>1 DEF T

(* What the scheduler chooses and where it leaves the cursor. *)
LEMMA ChoiceInList ==
  ASSUME TypeOK, BooksInv, CursorInv, ~Lost
  PROVE  Chosen \in Listed \cup {Idle} /\ Cursor \in InList
<1>1. CASE g_processes = <<>>
  <2>1. ~Found /\ Cursor = ListNext(Start)
    BY <1>1 DEF Found, Cursor
  <2>2. Chosen \in Listed \cup {Idle}
    BY <2>1, SavedIsCpu DEF Chosen
  <2>3. QED
    BY <2>1, <2>2, FirstInList
<1>2. CASE g_processes # <<>>
  <2>1. Ends # {} /\ Ends \in SUBSET Nat
    BY <1>2 DEF Lost, Ends
  <2>2. Min(Ends) \in 0 .. MaxVisits
    BY <2>1, LeastNat DEF Ends
  <2>3. Visit[Min(Ends)] \in InList
    BY <2>2, VisitsInList
  <2>4. Found => Visit[Min(Ends)] \in Listed
    BY <2>3 DEF Found, Runnable, InList
  <2>5. Chosen \in Listed \cup {Idle}
    BY <2>4, SavedIsCpu DEF Chosen
  <2>6. QED
    BY <1>2, <2>3, <2>5 DEF Cursor
<1>3. QED
  BY <1>1, <1>2

-----------------------------------------------------------------------------
(* sched_remove takes one process off the list. *)
LEMMA RemoveListed ==
  ASSUME TypeOK, NEW p \in Listed, NEW t, t = RemoveAt(g_processes, IndexOf(p))
  PROVE  /\ t \in Seq(ProcSet) /\ IsInjective(t)
         /\ Range(t) = Listed \ {p}
<1> DEFINE n == Len(g_processes)
           k == IndexOf(p)
           Old(j) == IF j < k THEN j ELSE j + 1
<1>1. /\ g_processes \in Seq(ProcSet) /\ n \in Nat /\ DOMAIN g_processes = 1 .. n
      /\ IsInjective(g_processes)
      /\ Listed = {g_processes[j] : j \in 1 .. n}
  BY ListedIs DEF TypeOK
<1>2. /\ k \in 1 .. n /\ g_processes[k] = p
      /\ \A j \in 1 .. n : g_processes[j] = p => j = k
  BY IndexOfListed
<1> HIDE DEF k
<1>3. t \in Seq(ProcSet) /\ Len(t) = n - 1
  BY <1>1, <1>2, RemoveAtProperties DEF k
<1>4. \A j \in 1 .. (n - 1) : t[j] = IF j < k THEN g_processes[j] ELSE g_processes[j + 1]
  BY <1>1, <1>2, RemoveAtProperties DEF k
<1>5. \A j \in 1 .. (n - 1) : Old(j) \in 1 .. n /\ Old(j) # k /\ t[j] = g_processes[Old(j)]
  BY <1>1, <1>2, <1>4
<1>6. DOMAIN t = 1 .. (n - 1)
  BY <1>3
<1>7. IsInjective(t)
  <2> SUFFICES ASSUME NEW i \in 1 .. (n - 1), NEW j \in 1 .. (n - 1), t[i] = t[j] PROVE i = j
    BY <1>6 DEF IsInjective
  <2>1. Old(i) = Old(j)
    <3> HIDE DEF Old
    <3>1. QED
      BY <1>1, <1>5 DEF IsInjective
  <2>2. QED
    BY <1>1, <1>2, <2>1
<1>8. Range(t) = Listed \ {p}
  <2>1. ASSUME NEW e \in Range(t) PROVE e \in Listed \ {p}
    <3>1. PICK j \in 1 .. (n - 1) : e = t[j]
      BY <1>6 DEF Range
    <3> HIDE DEF Old
    <3>2. QED
      BY <1>1, <1>2, <1>5, <3>1
  <2>2. ASSUME NEW e \in Listed, e # p PROVE e \in Range(t)
    <3>1. PICK i \in 1 .. n : e = g_processes[i] /\ i # k
      BY <1>1, <1>2, <2>2
    <3>2. CASE i < k
      <4>1. i \in 1 .. (n - 1) /\ t[i] = e
        BY <1>1, <1>2, <1>4, <3>1, <3>2
      <4>2. QED
        BY <1>6, <4>1 DEF Range
    <3>3. CASE i > k
      <4>1. i - 1 \in 1 .. (n - 1) /\ ~(i - 1 < k) /\ (i - 1) + 1 = i
        BY <1>1, <1>2, <3>1, <3>3
      <4>2. t[i - 1] = e
        BY <1>4, <3>1, <4>1
      <4>3. QED
        BY <1>6, <4>1, <4>2 DEF Range
    <3>4. QED
      BY <1>1, <1>2, <3>1, <3>2, <3>3
  <2>3. QED
    BY <2>1, <2>2
<1>9. QED
  BY <1>3, <1>7, <1>8

(* The element after a listed process is another one, or the head. *)
LEMMA NextIsAnother ==
  ASSUME TypeOK, NEW p \in Listed
  PROVE  ListNext(p) \in InList \ {p}
<1>1. ListNext(p) \in InList
  BY NextInList DEF InList
<1>2. p # ListHead
  BY ListedIs, SchedAssumption DEF TypeOK
<1>3. /\ IndexOf(p) \in 1 .. Len(g_processes) /\ g_processes[IndexOf(p)] = p
      /\ \A k \in 1 .. Len(g_processes) : g_processes[k] = p => k = IndexOf(p)
  BY IndexOfListed
<1>4. CASE IndexOf(p) = Len(g_processes)
  BY <1>1, <1>2, <1>4 DEF ListNext
<1>5. CASE IndexOf(p) # Len(g_processes)
  <2>1. IndexOf(p) + 1 \in 1 .. Len(g_processes) /\ IndexOf(p) + 1 # IndexOf(p)
    <3>1. Len(g_processes) \in Nat
      BY ListedIs DEF TypeOK
    <3>2. QED
      BY <1>3, <1>5, <3>1
  <2>2. ListNext(p) = g_processes[IndexOf(p) + 1]
    BY <1>2, <1>5 DEF ListNext
  <2>3. QED
    BY <1>1, <1>3, <2>1, <2>2
<1>6. QED
  BY <1>4, <1>5

-----------------------------------------------------------------------------
(* The first list is that of the processes main added. *)
LEMMA InitIInv ==
  ASSUME Init
  PROVE  IInv
<1>1. Procs \in Seq(ProcSet) /\ Len(Procs) \in Nat /\ DOMAIN Procs = 1 .. Len(Procs)
  BY SchedAssumption
<1>2. g_processes \in Seq(ProcSet) /\ Len(g_processes) = Len(Procs)
      /\ \A k \in 1 .. Len(Procs) : g_processes[k] = Procs[(Len(Procs) - k) + 1]
  <2>1. g_processes = [i \in 1 .. Len(Procs) |-> Procs[(Len(Procs) - i) + 1]]
    BY DEF Init, Reverse
  <2>2. \A i \in 1 .. Len(Procs) : (Len(Procs) - i) + 1 \in 1 .. Len(Procs)
    BY <1>1
  <2>3. \A i \in 1 .. Len(Procs) : Procs[(Len(Procs) - i) + 1] \in ProcSet
    BY <1>1, <2>2, ElementOfSeq
  <2>4. QED
    BY <1>1, <2>1, <2>3, IsASeq
<1>3. IsInjective(g_processes)
  <2> SUFFICES ASSUME NEW i \in 1 .. Len(Procs), NEW j \in 1 .. Len(Procs),
                      g_processes[i] = g_processes[j]
               PROVE  i = j
    BY <1>2 DEF IsInjective
  <2>1. (Len(Procs) - i) + 1 \in DOMAIN Procs /\ (Len(Procs) - j) + 1 \in DOMAIN Procs
    BY <1>1
  <2>2. (Len(Procs) - i) + 1 = (Len(Procs) - j) + 1
    BY <1>2, <2>1, SchedAssumption DEF IsInjective
  <2>3. QED
    BY <1>1, <2>2
<1>4. Listed \subseteq ProcSet
  BY <1>2, ListedIs
<1>5. TypeOK
  <2>1. mtimecmp \in 0 .. Infinite
    BY SchedAssumption DEF Init, Infinite
  <2>2. QED
    BY <1>2, <1>3, <2>1 DEF Init, TypeOK, Known, Elem
<1>6. BooksInv /\ ExitedInv /\ CursorInv /\ ResumesItself
  BY <1>4, SchedAssumption DEF Init, BooksInv, ExitedInv, CursorInv, ResumesItself, Elem
<1>7. TimerArmed
  BY DEF Init, TimerArmed
<1>8. QED
  BY <1>5, <1>6, <1>7 DEF IInv

(* round_robin saves the registers where they belong and runs what it      *)
(* marks.                                                                  *)
LEMMA RoundRobinIInv ==
  ASSUME IInv, RoundRobin
  PROVE  IInv'
<1>1. TypeOK /\ BooksInv /\ CursorInv /\ ResumesItself /\ ExitedInv
  BY DEF IInv
<1>2. Saved = IF cpu \in Listed \cup {Idle} THEN cpu ELSE Null
  BY <1>1, SavedIsCpu
<1>3. /\ Listed \subseteq ProcSet /\ Listed' = Listed /\ Null \notin Known /\ Idle \notin ProcSet
  BY <1>1, ListedIs, SchedAssumption DEF TypeOK, RoundRobin, Listed, Known, Elem
<1>4. state' \in [Known -> {"RUNNING", "SLEEPING", "WAITING"}]
  BY <1>1 DEF RoundRobin, Awaken, TypeOK
<1>5. /\ sepc' \in [Known -> Known \cup {Null}]
      /\ \A p \in Listed \cup {Idle} : sepc'[p] = p
  BY <1>1, <1>2, <1>3 DEF RoundRobin, TypeOK, ResumesItself, Known
<1>6. CASE Lost
  <2>1. /\ where' = "lost" /\ UNCHANGED <<curr_list_elem, on_hart, cpu, mtimecmp>>
        /\ UNCHANGED <<g_processes, freed_next, sleep_left, stip, exited>>
    BY <1>6 DEF RoundRobin
  <2>2. TypeOK'
    BY <1>1, <1>4, <1>5, <2>1 DEF TypeOK
  <2>3. BooksInv' /\ ExitedInv' /\ CursorInv'
    BY <1>1, <1>3, <2>1 DEF BooksInv, ExitedInv, CursorInv
  <2>4. ResumesItself' /\ TimerArmed'
    BY <1>3, <1>5, <2>1 DEF ResumesItself, TimerArmed
  <2>5. QED
    BY <2>2, <2>3, <2>4 DEF IInv
<1>7. CASE ~Lost
  <2>1. /\ curr_list_elem' = Cursor
        /\ on_hart' = [ClearHart(Saved) EXCEPT ![Chosen] = TRUE]
        /\ cpu' = sepc'[Chosen] /\ mtimecmp' = Quantum /\ where' = "user"
        /\ UNCHANGED <<g_processes, freed_next, sleep_left, stip, exited>>
    BY <1>7 DEF RoundRobin, Arm
  <2>2. Chosen \in Listed \cup {Idle} /\ Cursor \in Listed \cup {ListHead}
    BY <1>1, <1>7, ChoiceInList DEF InList
  <2>3. cpu' = Chosen
    BY <1>5, <2>1, <2>2
  <2>4. /\ ClearHart(Saved) \in [Known -> BOOLEAN]
        /\ \A p \in Listed \cup {Idle} : ~ClearHart(Saved)[p]
    <3>1. on_hart \in [Known -> BOOLEAN] /\ Listed \cup {Idle} \subseteq Known
      BY <1>1, <1>3 DEF TypeOK, Known
    <3>2. CASE cpu \in Listed \cup {Idle}
      <4>1. Saved = cpu /\ cpu # Null
        BY <1>2, <1>3, <3>1, <3>2
      <4>2. ClearHart(Saved) = [on_hart EXCEPT ![cpu] = FALSE]
        BY <4>1 DEF ClearHart
      <4>3. QED
        BY <1>1, <3>1, <3>2, <4>2 DEF BooksInv
    <3>3. CASE cpu \notin Listed \cup {Idle}
      <4>1. ClearHart(Saved) = on_hart
        BY <1>2, <3>3 DEF ClearHart
      <4>2. QED
        BY <1>1, <3>1, <3>3, <4>1 DEF BooksInv
    <3>4. QED
      BY <3>2, <3>3
  <2>5. Chosen \in Known
    BY <1>3, <2>2 DEF Known
  <2>6. /\ on_hart' \in [Known -> BOOLEAN]
        /\ \A p \in Listed \cup {Idle} : on_hart'[p] <=> p = Chosen
    <3>1. Listed \cup {Idle} \subseteq Known
      BY <1>3 DEF Known
    <3>2. QED
      BY <2>1, <2>4, <2>5, <3>1
  <2>7. mtimecmp' \in 0 .. Infinite /\ mtimecmp' # Infinite
    BY <2>1, SchedAssumption DEF Infinite
  <2>8. TypeOK'
    <3>1. curr_list_elem' \in Elem \cup {Null}
      BY <1>3, <2>1, <2>2 DEF Elem
    <3>2. QED
      BY <1>1, <1>4, <1>5, <2>1, <2>3, <2>5, <2>6, <2>7, <3>1 DEF TypeOK
  <2>9. BooksInv' /\ ExitedInv' /\ CursorInv'
    BY <1>1, <1>3, <2>1, <2>2, <2>3, <2>6 DEF BooksInv, ExitedInv, CursorInv
  <2>10. ResumesItself' /\ TimerArmed'
    <3>1. Infinite' = Infinite
      BY DEF Infinite
    <3>2. QED
      BY <1>3, <1>5, <2>1, <2>7, <3>1 DEF ResumesItself, TimerArmed
  <2>11. QED
    BY <2>8, <2>9, <2>10 DEF IInv
<1>8. QED
  BY <1>6, <1>7

(* sleep marks its caller, and nobody else. *)
LEMMA SleepIInv ==
  ASSUME IInv, NEW ticks \in Nat, Sleep(ticks)
  PROVE  IInv'
<1>1. TypeOK /\ BooksInv
  BY DEF IInv
<1>2. GetProcOnHart = IF cpu \in Listed THEN cpu ELSE Null
  BY <1>1, OnHartIsCpu
<1>3. Listed' = Listed /\ Listed \subseteq ProcSet /\ where' = "sched"
  BY <1>1, ListedIs DEF TypeOK, Sleep, Listed
<1>4. /\ state' \in [Known -> {"RUNNING", "SLEEPING", "WAITING"}]
      /\ sleep_left' \in [ProcSet -> Nat]
  BY <1>1, <1>2, <1>3 DEF Sleep, TypeOK
<1>5. UNCHANGED <<g_processes, freed_next, curr_list_elem, on_hart, sepc, cpu, mtimecmp, stip, exited>>
  BY DEF Sleep
<1>6. TypeOK'
  BY <1>1, <1>3, <1>4, <1>5 DEF TypeOK
<1>7. BooksInv' /\ ExitedInv' /\ CursorInv' /\ ResumesItself' /\ TimerArmed'
  BY <1>3, <1>5 DEF IInv, BooksInv, ExitedInv, CursorInv, ResumesItself, TimerArmed
<1>8. QED
  BY <1>6, <1>7 DEF IInv

(* exit takes its caller off the list; the cursor may be left behind on    *)
(* its freed element.                                                      *)
LEMMA ExitIInv ==
  ASSUME IInv, Exit
  PROVE  IInv'
<1>1. TypeOK /\ BooksInv /\ CursorInv /\ ExitedInv /\ ResumesItself
  BY DEF IInv
<1>2. where = "user" /\ cpu \in Listed
  BY <1>1 DEF Exit, BooksInv
<1>3. GetProcOnHart = cpu /\ cpu # Null /\ cpu \in ProcSet /\ Listed \subseteq ProcSet
  BY <1>1, <1>2, OnHartIsCpu, ListedIs, SchedAssumption DEF TypeOK, Elem
<1>4. /\ g_processes' = RemoveAt(g_processes, IndexOf(cpu))
      /\ freed_next' = [freed_next EXCEPT ![cpu] = ListNext(cpu)]
      /\ where' = "sched" /\ exited' = exited \cup {cpu}
      /\ UNCHANGED <<curr_list_elem, state, sleep_left, on_hart, sepc, cpu, mtimecmp, stip>>
  BY <1>3 DEF Exit
<1>5. g_processes' \in Seq(ProcSet) /\ IsInjective(g_processes') /\ Listed' = Listed \ {cpu}
  BY <1>1, <1>2, <1>4, RemoveListed DEF Listed
<1>6. ListNext(cpu) \in (Listed \ {cpu}) \cup {ListHead}
  BY <1>1, <1>2, NextIsAnother DEF InList
<1>7. freed_next' \in [ProcSet -> Elem] /\ freed_next'[cpu] \in Listed' \cup {ListHead}
  BY <1>1, <1>3, <1>4, <1>5, <1>6 DEF TypeOK, Elem
<1>8. TypeOK'
  BY <1>1, <1>3, <1>4, <1>5, <1>7 DEF TypeOK
<1>9. BooksInv' /\ ExitedInv' /\ ResumesItself' /\ TimerArmed'
  BY <1>1, <1>4, <1>5 DEF BooksInv, ExitedInv, ResumesItself, TimerArmed
<1>10. CursorInv'
  <2>1. curr_list_elem \in Listed \cup {ListHead}
    BY <1>1, <1>2 DEF CursorInv
  <2>2. CASE curr_list_elem = cpu
    BY <1>3, <1>4, <1>7, <2>2 DEF CursorInv
  <2>3. CASE curr_list_elem # cpu
    BY <1>4, <1>5, <2>1, <2>3 DEF CursorInv
  <2>4. QED
    BY <2>2, <2>3
<1>11. QED
  BY <1>8, <1>9, <1>10 DEF IInv

(* The steps that move the hart and the timer and touch no process. *)
LEMMA TimerIInv ==
  ASSUME IInv, UNCHANGED <<g_processes, freed_next, curr_list_elem, state, on_hart, sepc, cpu, exited>>,
         sleep_left' \in [ProcSet -> Nat], mtimecmp' \in 0 .. Infinite, stip' \in BOOLEAN,
         where' \in {"user", "ack", "sched", "lost"},
         where' \in {"user", "ack"} => where \in {"user", "ack"},
         TimerArmed'
  PROVE  IInv'
<1>1. Listed' = Listed
  BY DEF Listed
<1>2. TypeOK'
  BY DEF IInv, TypeOK
<1>3. BooksInv' /\ ExitedInv' /\ CursorInv' /\ ResumesItself'
  BY <1>1 DEF IInv, BooksInv, ExitedInv, CursorInv, ResumesItself
<1>4. QED
  BY <1>2, <1>3 DEF IInv

(* Every step of the kernel, of a process and of time keeps the invariant. *)
LEMMA NextIInv ==
  ASSUME IInv, [Next]_vars
  PROVE  IInv'
<1>1. /\ sleep_left \in [ProcSet -> Nat] /\ mtimecmp \in 0 .. Infinite /\ stip \in BOOLEAN
      /\ where \in {"user", "ack", "sched", "lost"} /\ TimerArmed /\ Infinite \in Nat
  BY SchedAssumption DEF IInv, TypeOK, Infinite
<1>2. CASE RoundRobin
  BY <1>2, RoundRobinIInv
<1>3. CASE AckTimer
  <2>1. /\ stip' = FALSE /\ where' = "sched" /\ UNCHANGED <<procs, cpu, mtimecmp, exited>>
    BY <1>3 DEF AckTimer
  <2>2. TimerArmed'
    BY <2>1 DEF TimerArmed
  <2>3. QED
    BY <1>1, <2>1, <2>2, TimerIInv DEF procs
<1>4. CASE Yield
  <2>1. where' = "sched" /\ UNCHANGED <<procs, cpu, mtimecmp, stip, exited>>
    BY <1>4 DEF Yield
  <2>2. TimerArmed'
    BY <2>1 DEF TimerArmed
  <2>3. QED
    BY <1>1, <2>1, <2>2, TimerIInv DEF procs
<1>5. CASE Exit
  BY <1>5, ExitIInv
<1>6. CASE \E ticks \in 0 .. MaxSleep : Sleep(ticks)
  BY <1>6, SleepIInv, SchedAssumption
<1>7. CASE MachineTimer
  <2>1. stip' = TRUE /\ mtimecmp' = Infinite /\ UNCHANGED <<procs, cpu, where, exited>>
    BY <1>7 DEF MachineTimer
  <2>2. TimerArmed'
    BY <2>1 DEF TimerArmed
  <2>3. QED
    BY <1>1, <2>1, <2>2, TimerIInv DEF procs
<1>8. CASE TimerTrap
  <2>1. where = "user" /\ where' = "ack" /\ UNCHANGED <<procs, cpu, mtimecmp, stip, exited>>
    BY <1>8 DEF TimerTrap
  <2>2. TimerArmed'
    BY <2>1 DEF TimerArmed
  <2>3. QED
    BY <1>1, <2>1, <2>2, TimerIInv DEF procs
<1>9. CASE Tick
  <2>1. UNCHANGED <<g_processes, freed_next, curr_list_elem, state, on_hart, sepc, cpu, where, stip, exited>>
    BY <1>9 DEF Tick
  <2>2. sleep_left' \in [ProcSet -> Nat]
    <3>1. \A x \in Int : Max({0, x - 1}) \in Nat
      BY DEF Max
    <3>2. QED
      BY <1>1, <1>9, <3>1 DEF Tick
  <2>3. mtimecmp' \in 0 .. Infinite /\ (mtimecmp # Infinite => mtimecmp' # Infinite)
    BY <1>1, <1>9 DEF Tick
  <2>4. TimerArmed'
    <3>1. Infinite' = Infinite
      BY DEF Infinite
    <3>2. QED
      BY <1>1, <2>1, <2>3, <3>1 DEF TimerArmed
  <2>5. QED
    BY <1>1, <2>1, <2>2, <2>3, <2>4, TimerIInv
<1>10. CASE UNCHANGED vars
  <2>1. TimerArmed'
    BY <1>1, <1>10 DEF vars, TimerArmed
  <2>2. QED
    BY <1>1, <1>10, <2>1, TimerIInv DEF vars, procs
<1>11. QED
  BY <1>2, <1>3, <1>4, <1>5, <1>6, <1>7, <1>8, <1>9, <1>10 DEF Next, Kernel, Syscall

-----------------------------------------------------------------------------
(* The inductive invariant holds in every reachable state. *)
THEOREM Invariance == Spec => []IInv
<1>1. Init => IInv
  BY InitIInv
<1>2. IInv /\ [Next]_vars => IInv'
  BY NextIInv
<1>3. QED
  BY <1>1, <1>2, PTL DEF Spec

(* The list, the marks, the saved program counters and the timer hold what *)
(* the kernel declares them to hold; no process is listed twice.           *)
THEOREM TypeCorrect == Spec => []TypeOK
<1>1. IInv => TypeOK
  BY DEF IInv
<1>2. QED
  BY <1>1, Invariance, PTL

(* In user mode exactly the process marked as being on the hart executes,  *)
(* and it has not called exit.                                             *)
THEOREM MarksTrue == Spec => []HartIsTrue
<1>1. IInv => HartIsTrue
  <2> SUFFICES ASSUME IInv, where = "user"
               PROVE  /\ cpu \in (Listed \cup {Idle}) \ exited
                      /\ \A p \in Listed \cup {Idle} : on_hart[p] <=> p = cpu
    BY DEF HartIsTrue
  <2>1. Idle \notin exited
    BY SchedAssumption DEF IInv, TypeOK
  <2>2. QED
    BY <2>1 DEF IInv, BooksInv, ExitedInv
<1>2. QED
  BY <1>1, Invariance, PTL

(* No process resumes at the program counter of another one. *)
THEOREM Resumes == Spec => []ResumesItself
<1>1. IInv => ResumesItself
  BY DEF IInv
<1>2. QED
  BY <1>1, Invariance, PTL

(* Whatever executes can be interrupted: the timer is armed or pending. *)
THEOREM Preemptible == Spec => []TimerArmed
<1>1. IInv => TimerArmed
  BY DEF IInv
<1>2. QED
  BY <1>1, Invariance, PTL

-----------------------------------------------------------------------------
(* With one process, as in main, the walk passes the head before it looks  *)
(* at a process, and ends where it began.                                  *)
OneProcess == Len(Procs) = 1

WalkInv ==
  /\ where # "lost"
  /\ g_processes # <<>> => /\ g_processes = Procs
                           /\ curr_list_elem \in {Null, Procs[1]}

(* The walk of round_robin over a list of one process. *)
LEMMA WalkOfOne ==
  ASSUME OneProcess, IInv, WalkInv, g_processes # <<>>
  PROVE  ~Lost /\ Cursor = Procs[1]
<1> DEFINE c == Procs[1]
<1>1. TypeOK /\ g_processes = Procs /\ Len(g_processes) = 1 /\ curr_list_elem \in {Null, c}
  BY DEF OneProcess, IInv, WalkInv
<1>2. c \in Listed /\ c # ListHead /\ Listed \subseteq ProcSet
  BY <1>1, ListedIs, SchedAssumption DEF TypeOK
<1>3. StartDescending = c /\ StartAscending = c /\ Start = c
  BY <1>1 DEF StartDescending, StartAscending, Start, Last
<1>4. ListNext(c) = ListHead
  <2>1. IndexOf(c) = 1
    BY <1>1, <1>2, IndexOfListed
  <2>2. QED
    BY <1>1, <1>2, <2>1 DEF ListNext
<1> HIDE DEF c
<1>5. MaxVisits = 4
  BY DEF MaxVisits, OneProcess
<1>6. Visit[0] = ListHead
  <2>1. 0 \in 0 .. MaxVisits
    BY <1>5
  <2>2. QED
    BY <1>3, <1>4, <2>1, VisitRecursion
<1>7. Visit[1] = c
  <2>1. 1 \in 0 .. MaxVisits
    BY <1>5
  <2>2. PICK k \in 0 .. MaxVisits : k = 1
    BY <2>1
  <2>3. Visit[k] = IF Visit[k - 1] = ListHead THEN StartAscending ELSE ListNext(Visit[k - 1])
    <3>1. k # 0
      BY <2>2
    <3>2. QED
      BY <3>1, VisitRecursion
  <2>4. Visit[k - 1] = Visit[0]
    BY <2>2
  <2>5. QED
    BY <1>3, <1>6, <2>2, <2>3, <2>4
<1>8. Ends \in SUBSET Nat /\ 1 \in Ends /\ 0 \notin Ends
  BY <1>2, <1>3, <1>5, <1>6, <1>7 DEF Ends
<1>9. Min(Ends) = 1
  <2>1. Min(Ends) \in Ends /\ Min(Ends) <= 1
    BY <1>8, LeastNat
  <2>2. Min(Ends) \in Nat /\ Min(Ends) # 0
    BY <1>8, <2>1
  <2>3. QED
    BY <2>1, <2>2
<1>10. QED
  <2>1. \A k \in 1 .. Min(Ends) : k = 1
    BY <1>9
  <2>2. ~Lost
    BY <1>2, <1>7, <1>8, <2>1 DEF Lost
  <2>3. QED
    BY <1>7, <1>9, <2>2 DEF Cursor, c

(* sched_init and the one sched_add of main. *)
LEMMA WalkInitInv ==
  ASSUME OneProcess, Init
  PROVE  WalkInv
<1>1. Len(Procs) = 1 /\ Procs \in Seq(ProcSet)
  BY SchedAssumption DEF OneProcess
<1>2. Reverse(Procs) = Procs
  BY <1>1 DEF Reverse
<1>3. QED
  BY <1>2 DEF Init, WalkInv

(* With one process no step loses the walk. *)
LEMMA WalkNextInv ==
  ASSUME OneProcess, IInv, WalkInv, [Next]_vars
  PROVE  WalkInv'
<1>1. CASE RoundRobin
  <2>1. ~Lost
    BY WalkOfOne DEF Lost
  <2>2. where' = "user" /\ g_processes' = g_processes /\ curr_list_elem' = Cursor
    BY <1>1, <2>1 DEF RoundRobin
  <2>3. QED
    BY <2>2, WalkOfOne DEF WalkInv
<1>2. CASE Exit
  <2>1. TypeOK /\ BooksInv /\ cpu \in Listed /\ g_processes \in Seq(ProcSet)
    BY <1>2 DEF IInv, Exit, BooksInv, TypeOK
  <2>2. GetProcOnHart = cpu /\ cpu # Null
    BY <2>1, OnHartIsCpu, ListedIs, SchedAssumption DEF Elem
  <2>3. g_processes # <<>> /\ Len(g_processes) = 1
    BY <2>1, ListedIs DEF WalkInv, OneProcess
  <2>4. IndexOf(cpu) \in 1 .. Len(g_processes) /\ g_processes' = RemoveAt(g_processes, IndexOf(cpu))
    BY <1>2, <2>1, <2>2, IndexOfListed DEF Exit
  <2>5. g_processes' \in Seq(ProcSet) /\ Len(g_processes') = 0
    BY <2>1, <2>3, <2>4, RemoveAtProperties
  <2>6. g_processes' = <<>> /\ where' = "sched"
    BY <1>2, <2>5, EmptySeq DEF Exit
  <2>7. QED
    BY <2>6 DEF WalkInv
<1>3. CASE \/ AckTimer \/ Yield \/ MachineTimer \/ TimerTrap \/ Tick \/ UNCHANGED vars
           \/ \E ticks \in 0 .. MaxSleep : Sleep(ticks)
  <2>1. UNCHANGED <<g_processes, curr_list_elem>> /\ where' \in {where, "sched", "ack"}
    BY <1>3 DEF AckTimer, Yield, MachineTimer, TimerTrap, Tick, Sleep, vars, procs
  <2>2. QED
    BY <2>1 DEF WalkInv
<1>4. QED
  BY <1>1, <1>2, <1>3 DEF Next, Kernel, Syscall

(* With the one process that main adds, the walk never takes the head of   *)
(* the list for a process, and the cursor ends in the list.                *)
THEOREM WalkNeverLost == OneProcess => (Spec => []NeverLost)
<1> SUFFICES ASSUME OneProcess PROVE Spec => []NeverLost
  OBVIOUS
<1>1. Init => WalkInv
  BY WalkInitInv
<1>2. IInv /\ WalkInv /\ [Next]_vars => WalkInv'
  BY WalkNextInv
<1>3. IInv /\ WalkInv => NeverLost
  BY DEF IInv, CursorInv, WalkInv, NeverLost
<1>4. QED
  BY <1>1, <1>2, <1>3, Invariance, PTL DEF Spec
=============================================================================
