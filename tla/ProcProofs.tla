----------------------------- MODULE ProcProofs -----------------------------
(***************************************************************************)
(* Proofs about Proc, for every number of slots and every set of signals,  *)
(* sleep words and faults.                                                 *)
(*                                                                         *)
(* The inductive invariant is the conjunction of Proc's invariants and of  *)
(* what holds before kmain's boot step.  They need each other: schedule    *)
(* cannot fall through to a wfi loop (NeverWedged) because kmain waits     *)
(* while user code runs (CurrentIsRunning); nobody else reaps my child     *)
(* (WaiterHasChild) because pids are unique (UniquePids).                  *)
(*                                                                         *)
(* Every handler builds a table pt and ends in schedule, proc_exit or a    *)
(* return to user mode; Settled(pt) is what all those endings establish.   *)
(***************************************************************************)
EXTENDS Proc, TLAPS

BeforeBoot ==
  cpu = "boot" =>
    /\ current_proc = NoProc
    /\ \A s \in Slot : proc_table[s].state # "RUNNING" /\ tf[s] = NoCall

IInv ==
  /\ TypeOK
  /\ CurrentIsRunning
  /\ NeverWedged
  /\ UniquePids
  /\ WaiterHasChild
  /\ KmainOnlyWhenIdle
  /\ BeforeBoot

(* What schedule and the returns rely on while a handler runs.             *)
InHandler ==
  /\ cpu = "user"
  /\ current_proc \in Slot
  /\ sched_current_idx = current_proc
  /\ kmain_saved_sp = TRUE

(* A table that a handler may hand to them.                                *)
Table(pt) ==
  /\ pt \in [Slot -> Pcb]
  /\ \A s \in Slot : s # current_proc => pt[s].state # "RUNNING"

(* b is a with, at most, other states and words: nobody is created, freed, *)
(* renamed or raised from the dead.                                        *)
Same(a, b) ==
  \A s \in Slot :
    /\ b[s].pid = a[s].pid
    /\ b[s].ppid = a[s].ppid
    /\ b[s].state = "UNUSED" <=> a[s].state = "UNUSED"
    /\ a[s].state = "ZOMBIE" => b[s].state = "ZOMBIE"

Settled(pt) ==
  /\ proc_table' \in [Slot -> Pcb]
  /\ current_proc' \in Slot \cup {NoProc}
  /\ sched_current_idx' \in Slot
  /\ kmain_saved_sp' \in BOOLEAN
  /\ cpu' \in Cpu \ {"boot", "wedged"}
  /\ CurrentIsRunning'
  /\ KmainOnlyWhenIdle'
  /\ Same(pt, proc_table')

-----------------------------------------------------------------------------
(* The endings of a handler.                                               *)

LEMMA SwitchSettles ==
  ASSUME InHandler, NEW pt, Table(pt), Switch(pt)
  PROVE  Settled(pt)
<1>1. PICK n \in Runnable(pt) :
        /\ proc_table' = [s \in Slot |->
             [pt[s] EXCEPT !.state =
                IF s = n THEN "RUNNING"
                ELSE IF s = current_proc /\ @ = "RUNNING" THEN "RUNNABLE" ELSE @]]
        /\ sched_current_idx' = n
        /\ current_proc' = n
        /\ cpu' = "user"
        /\ kmain_saved_sp' = kmain_saved_sp
  BY DEF Switch
<1>2. n \in Slot /\ pt[n].state = "RUNNABLE"
  BY DEF Runnable
<1>3. \A s \in Slot :
        /\ pt[s] \in Pcb
        /\ proc_table'[s] = [pt[s] EXCEPT !.state =
             IF s = n THEN "RUNNING"
             ELSE IF s = current_proc /\ pt[s].state = "RUNNING"
                    THEN "RUNNABLE" ELSE pt[s].state]
  BY <1>1 DEF Table
<1>4. ASSUME NEW s \in Slot
      PROVE  /\ proc_table'[s] \in Pcb
             /\ proc_table'[s].state = "RUNNING" <=> s = n
             /\ proc_table'[s].pid = pt[s].pid
             /\ proc_table'[s].ppid = pt[s].ppid
             /\ proc_table'[s].state = "UNUSED" <=> pt[s].state = "UNUSED"
             /\ pt[s].state = "ZOMBIE" => proc_table'[s].state = "ZOMBIE"
  <2> DEFINE st == IF s = n THEN "RUNNING"
                   ELSE IF s = current_proc /\ pt[s].state = "RUNNING"
                          THEN "RUNNABLE" ELSE pt[s].state
  <2>1. pt[s] \in Pcb /\ proc_table'[s] = [pt[s] EXCEPT !.state = st]
    BY <1>3
  <2>2. /\ st \in State
        /\ st = "RUNNING" <=> s = n
        /\ st = "UNUSED" <=> pt[s].state = "UNUSED"
        /\ pt[s].state = "ZOMBIE" => st = "ZOMBIE"
    BY <1>2, <2>1 DEF Table, Pcb, State
  <2> HIDE DEF st
  <2>3. /\ proc_table'[s] \in Pcb
        /\ proc_table'[s].state = st
        /\ proc_table'[s].pid = pt[s].pid
        /\ proc_table'[s].ppid = pt[s].ppid
    BY <2>1, <2>2 DEF Pcb
  <2> QED
    BY <2>2, <2>3
<1>5. proc_table' \in [Slot -> Pcb]
  BY <1>1, <1>4
<1>6. CurrentIsRunning'
  BY <1>1, <1>2, <1>4 DEF CurrentIsRunning, InHandler, NoProc, Slot
<1>7. KmainOnlyWhenIdle'
  BY <1>1 DEF KmainOnlyWhenIdle
<1> QED
  BY <1>1, <1>2, <1>4, <1>5, <1>6, <1>7 DEF Settled, Same, InHandler, Cpu

LEMMA ResumeKmainSettles ==
  ASSUME InHandler, NEW pt, Table(pt), ResumeKmain(pt)
  PROVE  Settled(pt)
<1>1. \A s \in Slot : pt[s].state \in {"UNUSED", "ZOMBIE", "SLEEPING"}
  BY DEF Table, ResumeKmain, Runnable, KeepsRunning, Pcb, State, InHandler,
         Slot, NoProc
<1> QED
  BY <1>1 DEF ResumeKmain, Settled, Same, Table, InHandler, Cpu, NoProc,
              CurrentIsRunning, KmainOnlyWhenIdle

LEMMA ScheduleAwaySettles ==
  ASSUME InHandler, NEW pt, Table(pt), ScheduleAway(pt)
  PROVE  Settled(pt)
BY SwitchSettles, ResumeKmainSettles DEF ScheduleAway

(* schedule only returns to a process that keeps running: kmain waits.     *)
LEMMA ScheduleReturnsToRunning ==
  ASSUME InHandler, NEW pt, ScheduleReturns(pt)
  PROVE  pt[current_proc].state = "RUNNING"
BY DEF InHandler, ScheduleReturns, KeepsRunning

LEMMA StaySettles ==
  ASSUME InHandler, NEW pt, Table(pt), pt[current_proc].state = "RUNNING",
         NEW c \in {"user", "halted", "stopped"}, Stay(pt, c)
  PROVE  Settled(pt)
BY DEF InHandler, Table, Stay, Settled, Same, CurrentIsRunning,
       KmainOnlyWhenIdle, Cpu, Slot, NoProc

LEMMA WithCurrentTable ==
  ASSUME InHandler, NEW pt, Table(pt), NEW pcb \in Pcb
  PROVE  /\ Table(WithCurrent(pt, pcb))
         /\ WithCurrent(pt, pcb)[current_proc] = pcb
         /\ \A s \in Slot : s # current_proc => WithCurrent(pt, pcb)[s] = pt[s]
BY DEF InHandler, Table, WithCurrent

(* The wfi loop of proc_exit is not reached, and the process is dead.      *)
LEMMA ExitSettles ==
  ASSUME InHandler, NEW pt, Table(pt), pt[current_proc].state # "UNUSED",
         NEW code \in Int, Exit(pt, code)
  PROVE  Settled(pt)
<1> DEFINE pcb == [pt[current_proc] EXCEPT !.state = "ZOMBIE", !.exitcode = code]
           dead == WithCurrent(pt, pcb)
<1>1. pt[current_proc] \in Pcb
  BY DEF InHandler, Table
<1>2. /\ pcb \in Pcb
      /\ pcb.state = "ZOMBIE"
      /\ pcb.pid = pt[current_proc].pid
      /\ pcb.ppid = pt[current_proc].ppid
  BY <1>1 DEF Pcb, State
<1> HIDE DEF pcb
<1>3. /\ Table(dead)
      /\ dead[current_proc] = pcb
      /\ \A s \in Slot : s # current_proc => dead[s] = pt[s]
  BY <1>2, WithCurrentTable
<1>4. Same(pt, dead)
  BY <1>2, <1>3 DEF Same
<1>5. ScheduleAway(dead) \/ ScheduleReturns(dead)
  BY DEF Exit, pcb
<1> HIDE DEF dead
<1>6. ScheduleAway(dead)
  BY <1>2, <1>3, <1>5, ScheduleReturnsToRunning
<1>7. Settled(dead)
  BY <1>3, <1>6, ScheduleAwaySettles
<1> QED
  BY <1>4, <1>7 DEF Settled, Same

LEMMA TrapReturnSettles ==
  ASSUME InHandler, NEW pt, Table(pt), pt[current_proc].state = "RUNNING",
         TrapReturn(pt)
  PROVE  Settled(pt)
<1>1. CASE Stay(pt, "user")
  BY <1>1, StaySettles
<1>2. CASE Exit(WithCurrent(pt, [pt[current_proc] EXCEPT !.word.sigs = {}]), -9)
  <2> DEFINE pcb == [pt[current_proc] EXCEPT !.word.sigs = {}]
             clear == WithCurrent(pt, pcb)
  <2>1. pt[current_proc] \in Pcb
    BY DEF InHandler, Table
  <2>2. /\ pcb \in Pcb
        /\ pcb.state = "RUNNING"
        /\ pcb.pid = pt[current_proc].pid
        /\ pcb.ppid = pt[current_proc].ppid
    BY <2>1 DEF Pcb, Word, State
  <2>3. Exit(clear, -9)
    BY <1>2
  <2> HIDE DEF pcb
  <2>4. /\ Table(clear)
        /\ clear[current_proc] = pcb
        /\ \A s \in Slot : s # current_proc => clear[s] = pt[s]
    BY <2>2, WithCurrentTable
  <2>5. Same(pt, clear)
    BY <2>2, <2>4 DEF Same
  <2> HIDE DEF clear
  <2>6. Settled(clear)
    BY <2>2, <2>3, <2>4, ExitSettles
  <2> QED
    BY <2>5, <2>6 DEF Settled, Same
<1> QED
  BY <1>1, <1>2 DEF TrapReturn

-----------------------------------------------------------------------------
(* From the table a handler built to the invariant.                        *)

(* A live process was live under the same pid, or has the newest pid; a    *)
(* zombie keeps its parent.                                                *)
Alive == {"RUNNABLE", "RUNNING", "SLEEPING"}

LineageStep(s) ==
  /\ proc_table'[s].state \in Alive =>
       \/ proc_table[s].state \in Alive /\ proc_table'[s].pid = proc_table[s].pid
       \/ proc_table'[s].pid = next_pid
  /\ proc_table[s].state = "ZOMBIE" /\ proc_table'[s].state = "ZOMBIE" =>
       proc_table'[s].ppid = proc_table[s].ppid

Preserved == IInv' /\ \A s \in Slot : ZombieStep(s) /\ LineageStep(s)

LEMMA UserModeFacts ==
  ASSUME IInv, UserMode
  PROVE  /\ InHandler
         /\ Table(proc_table)
         /\ proc_table[current_proc].state = "RUNNING"
         /\ proc_table[current_proc] \in Pcb
BY DEF IInv, TypeOK, CurrentIsRunning, UserMode, InHandler, Table, NoProc

LEMMA SettledInvariant ==
  ASSUME NEW pt, Settled(pt), next_pid' \in Nat, tf' \in [Slot -> Int],
         UniquePids', WaiterHasChild'
  PROVE  IInv'
BY DEF Settled, IInv, TypeOK, NeverWedged, BeforeBoot

(* A handler that neither creates nor frees a process.                     *)
LEMMA KeepInvariant ==
  ASSUME IInv, InHandler, NEW pt, Settled(pt), Same(proc_table, pt),
         next_pid' = next_pid, tf' \in [Slot -> Int],
         \A s \in Slot : tf'[s] \in {tf[s], NoCall}
  PROVE  Preserved
<1>1. Same(proc_table, proc_table')
  BY DEF Settled, Same
<1>2. UniquePids'
  BY <1>1 DEF IInv, UniquePids, Same
<1>3. ASSUME NEW s \in Slot,
             proc_table'[s].state \notin {"UNUSED", "ZOMBIE"}, tf'[s] # NoCall
      PROVE  \E c \in Slot : Awaits(s, c)'
  <2>1. proc_table[s].state \notin {"UNUSED", "ZOMBIE"} /\ tf'[s] = tf[s]
    BY <1>1, <1>3 DEF Same
  <2>2. PICK c \in Slot : Awaits(s, c)
    BY <1>3, <2>1 DEF IInv, WaiterHasChild
  <2>3. Awaits(s, c)'
    BY <1>1, <1>3, <2>1, <2>2 DEF Awaits, Same
  <2> QED
    BY <2>3
<1>4. WaiterHasChild'
  BY <1>3 DEF WaiterHasChild
<1>5. next_pid' \in Nat
  BY DEF IInv, TypeOK
<1> QED
  <2>1. IInv'
    BY <1>2, <1>4, <1>5, SettledInvariant
  <2>2. \A s \in Slot : ZombieStep(s)
    BY <1>1 DEF ZombieStep, Same
  <2>3. \A s \in Slot : LineageStep(s)
    BY <1>1, <2>1 DEF LineageStep, Same, Alive, IInv, TypeOK, Pcb, State
  <2> QED
    BY <2>1, <2>2, <2>3 DEF Preserved

LEMMA SameReflexive ==
  ASSUME NEW pt
  PROVE  Same(pt, pt)
BY DEF Same

-----------------------------------------------------------------------------
(* The steps.                                                              *)

LEMMA InitIInv == Init => IInv
<1> SUFFICES ASSUME Init
             PROVE  IInv
  OBVIOUS
<1>1. Slot # {} /\ 0 \in Slot /\ 1 \in Slot
  BY ConstantsAssumption DEF Slot
<1>2. Zero \in Word
  BY ConstantsAssumption DEF Zero, Word, SigBit
<1>3. ASSUME NEW s \in Slot
      PROVE  /\ proc_table[s] \in Pcb
             /\ proc_table[s].state # "RUNNING"
             /\ proc_table[s].ppid < next_pid /\ proc_table[s].pid < next_pid
             /\ proc_table[s].state # "UNUSED" => proc_table[s].pid = s + 1
  <2>1. s \in Nat
    BY DEF Slot
  <2>2. CASE s < 2
    <3>1. proc_table[s] = BootZombie(s) /\ next_pid = 3
      BY <2>2 DEF Init
    <3>2. (IF s = 0 THEN 120 ELSE 55) \in Int
      OBVIOUS
    <3> QED
      BY <1>2, <2>1, <2>2, <3>1, <3>2 DEF BootZombie, Pcb, State
  <2>3. CASE ~ (s < 2)
    BY <1>2, <2>1, <2>3 DEF Init, FreePcb, Pcb, State
  <2> QED
    BY <2>2, <2>3
<1>4. TypeOK
  <2>1. proc_table \in [Slot -> Pcb]
    BY <1>3 DEF Init
  <2>2. tf \in [Slot -> Int]
    BY DEF Init, NoCall
  <2>3. kmain_saved_sp \in BOOLEAN /\ cpu \in Cpu
    BY Zenon DEF Init, Cpu
  <2>4. /\ current_proc \in Slot \cup {NoProc}
        /\ sched_current_idx \in Slot
        /\ next_pid \in Nat
    BY <1>1 DEF Init
  <2> QED
    BY <2>1, <2>2, <2>3, <2>4 DEF TypeOK
<1>5. UniquePids
  BY <1>3 DEF UniquePids, Slot
<1>6. CurrentIsRunning /\ NeverWedged /\ KmainOnlyWhenIdle /\ WaiterHasChild
  BY DEF Init, CurrentIsRunning, NeverWedged, KmainOnlyWhenIdle, WaiterHasChild
<1>7. BeforeBoot
  BY <1>3 DEF Init, BeforeBoot
<1> QED
  BY <1>4, <1>5, <1>6, <1>7 DEF IInv

(* The PCB that proc_alloc hands out.                                      *)
LEMMA AllocFacts ==
  ASSUME IInv, NEW s \in Slot, FirstUnused(s), NEW ppid \in Nat
  PROVE  /\ Alloc(s, ppid) \in [Slot -> Pcb]
         /\ Alloc(s, ppid)[s].state = "RUNNABLE"
         /\ Alloc(s, ppid)[s].pid = next_pid
         /\ Alloc(s, ppid)[s].ppid = ppid
         /\ \A r \in Slot : r # s => Alloc(s, ppid)[r] = proc_table[r]
<1> DEFINE pcb == [proc_table[s] EXCEPT !.state = "RUNNABLE", !.pid = next_pid,
                                        !.ppid = ppid]
<1>1. proc_table \in [Slot -> Pcb] /\ next_pid \in Nat
  BY DEF IInv, TypeOK
<1>2. pcb \in Pcb /\ pcb.state = "RUNNABLE" /\ pcb.pid = next_pid /\ pcb.ppid = ppid
  BY <1>1 DEF Pcb, State
<1>3. Alloc(s, ppid) = [proc_table EXCEPT ![s] = pcb]
  BY <1>1 DEF Alloc, Pcb
<1> QED
  BY <1>1, <1>2, <1>3

LEMMA KmainBootStep ==
  ASSUME IInv, KmainBoot
  PROVE  Preserved
<1>1. PICK s \in Slot :
        /\ FirstUnused(s)
        /\ proc_table' = [Alloc(s, proc_table[s].ppid) EXCEPT ![s].state = "RUNNING"]
        /\ sched_current_idx' = s
        /\ current_proc' = s
  BY DEF KmainBoot
<1> DEFINE new == Alloc(s, proc_table[s].ppid)
<1>2. proc_table[s].ppid \in Nat /\ proc_table[s].ppid < next_pid /\ next_pid \in Nat
  BY DEF IInv, TypeOK, Pcb, UniquePids
<1>3. /\ new \in [Slot -> Pcb]
      /\ new[s].pid = next_pid
      /\ new[s].ppid = proc_table[s].ppid
      /\ \A r \in Slot : r # s => new[r] = proc_table[r]
  BY <1>1, <1>2, AllocFacts
<1> HIDE DEF new
<1>4. proc_table' = [new EXCEPT ![s] = [new[s] EXCEPT !.state = "RUNNING"]]
  BY <1>1, <1>3 DEF new
<1>5. /\ proc_table' \in [Slot -> Pcb]
      /\ proc_table'[s].state = "RUNNING"
      /\ proc_table'[s].pid = next_pid
      /\ proc_table'[s].ppid = proc_table[s].ppid
      /\ \A r \in Slot : r # s => proc_table'[r] = proc_table[r]
  <2>1. /\ [new[s] EXCEPT !.state = "RUNNING"] \in Pcb
        /\ [new[s] EXCEPT !.state = "RUNNING"].state = "RUNNING"
        /\ [new[s] EXCEPT !.state = "RUNNING"].pid = new[s].pid
        /\ [new[s] EXCEPT !.state = "RUNNING"].ppid = new[s].ppid
    BY <1>3 DEF Pcb, State
  <2> QED
    BY <1>3, <1>4, <2>1
<1>6. /\ cpu = "boot"
      /\ next_pid' = next_pid + 1
      /\ kmain_saved_sp' = TRUE
      /\ cpu' = "user"
      /\ tf' = tf
  BY DEF KmainBoot, NextPid
<1>7. \A r \in Slot : proc_table[r].state # "RUNNING" /\ tf[r] = NoCall
  BY <1>6 DEF IInv, BeforeBoot
<1>8. TypeOK'
  BY <1>1, <1>2, <1>5, <1>6 DEF IInv, TypeOK, Cpu
<1>9. CurrentIsRunning'
  BY <1>1, <1>5, <1>6, <1>7 DEF CurrentIsRunning, Slot, NoProc
<1>10. UniquePids'
  <2>1. \A r \in Slot : /\ proc_table[r].pid \in Nat /\ proc_table[r].ppid \in Nat
                        /\ proc_table[r].ppid < next_pid /\ proc_table[r].pid < next_pid
    BY DEF IInv, TypeOK, Pcb, UniquePids
  <2>2. \A r \in Slot : proc_table'[r].ppid < next_pid' /\ proc_table'[r].pid < next_pid'
    BY <1>2, <1>5, <1>6, <2>1
  <2>3. \A r, q \in Slot :
          /\ proc_table'[r].state # "UNUSED"
          /\ proc_table'[q].state # "UNUSED"
          /\ proc_table'[r].pid = proc_table'[q].pid
          => r = q
    BY <1>2, <1>5, <2>1 DEF IInv, UniquePids
  <2> QED
    BY <2>2, <2>3 DEF UniquePids
<1>11. WaiterHasChild' /\ NeverWedged' /\ KmainOnlyWhenIdle' /\ BeforeBoot'
  BY <1>6, <1>7 DEF WaiterHasChild, NeverWedged, KmainOnlyWhenIdle, BeforeBoot
<1>12. \A r \in Slot : ZombieStep(r) /\ LineageStep(r)
  BY <1>1, <1>5 DEF ZombieStep, LineageStep, FirstUnused
<1> QED
  BY <1>8, <1>9, <1>10, <1>11, <1>12 DEF IInv, Preserved

LEMMA SysExitStep ==
  ASSUME IInv, NEW code \in ExitCodes, SysExit(code)
  PROVE  Preserved
<1>1. InHandler /\ Table(proc_table) /\ proc_table[current_proc].state = "RUNNING"
  BY UserModeFacts DEF SysExit, FreeCall
<1>2. code \in Int
  BY ConstantsAssumption
<1>3. Settled(proc_table)
  BY <1>1, <1>2, ExitSettles DEF SysExit
<1> QED
  BY <1>1, <1>3, KeepInvariant, SameReflexive DEF SysExit, IInv, TypeOK

(* A child appears in a slot that was free: its pid is new, and nobody     *)
(* waited for that slot.                                                   *)
LEMMA SysForkStep ==
  ASSUME IInv, SysFork
  PROVE  Preserved
<1>1. /\ InHandler /\ Table(proc_table) /\ proc_table[current_proc].state = "RUNNING"
      /\ Self \in Pcb
  BY UserModeFacts DEF SysFork, FreeCall, Self
<1>2. ASSUME NEW s \in Slot, FirstUnused(s), TrapReturn(Alloc(s, Self.pid)),
             tf' = [tf EXCEPT ![s] = NoCall], next_pid' = next_pid + 1
      PROVE  Preserved
  <2> DEFINE new == Alloc(s, Self.pid)
  <2>1. Self.pid \in Nat /\ Self.pid < next_pid /\ next_pid \in Nat
    BY <1>1 DEF IInv, TypeOK, Pcb, UniquePids, InHandler, Self
  <2>2. /\ new \in [Slot -> Pcb]
        /\ new[s].state = "RUNNABLE"
        /\ new[s].pid = next_pid
        /\ new[s].ppid = Self.pid
        /\ \A r \in Slot : r # s => new[r] = proc_table[r]
    BY <1>2, <2>1, AllocFacts
  <2>3. s # current_proc /\ proc_table[s].state = "UNUSED"
    BY <1>1, <1>2 DEF FirstUnused
  <2> HIDE DEF new
  <2>4. Table(new) /\ new[current_proc].state = "RUNNING"
    BY <1>1, <2>2, <2>3 DEF Table, InHandler
  <2>5. Settled(new)
    BY <1>1, <1>2, <2>4, TrapReturnSettles DEF new
  <2>6. \A r \in Slot :
          /\ proc_table'[r].pid = IF r = s THEN next_pid ELSE proc_table[r].pid
          /\ proc_table'[r].ppid = IF r = s THEN Self.pid ELSE proc_table[r].ppid
          /\ r # s => (proc_table'[r].state = "UNUSED" <=> proc_table[r].state = "UNUSED")
          /\ r # s /\ proc_table[r].state = "ZOMBIE" => proc_table'[r].state = "ZOMBIE"
    BY <2>2, <2>5 DEF Settled, Same
  <2>7. UniquePids'
    <3>1. \A r \in Slot : /\ proc_table[r].pid \in Nat /\ proc_table[r].ppid \in Nat
                          /\ proc_table[r].ppid < next_pid /\ proc_table[r].pid < next_pid
      BY DEF IInv, TypeOK, Pcb, UniquePids
    <3>2. \A r \in Slot : proc_table'[r].ppid < next_pid' /\ proc_table'[r].pid < next_pid'
      BY <1>2, <2>1, <2>6, <3>1
    <3>3. \A r, q \in Slot :
            /\ proc_table'[r].state # "UNUSED"
            /\ proc_table'[q].state # "UNUSED"
            /\ proc_table'[r].pid = proc_table'[q].pid
            => r = q
      BY <2>1, <2>6, <3>1 DEF IInv, UniquePids
    <3> QED
      BY <3>2, <3>3 DEF UniquePids
  <2>8. tf' \in [Slot -> Int] /\ tf'[s] = NoCall
        /\ \A r \in Slot : r # s => tf'[r] = tf[r]
    BY <1>2 DEF IInv, TypeOK, NoCall
  <2>9. ASSUME NEW w \in Slot,
               proc_table'[w].state \notin {"UNUSED", "ZOMBIE"}, tf'[w] # NoCall
        PROVE  \E c \in Slot : Awaits(w, c)'
    <3>1. /\ w # s /\ tf'[w] = tf[w]
          /\ proc_table[w].state \notin {"UNUSED", "ZOMBIE"}
      BY <2>6, <2>8, <2>9
    <3>2. PICK c \in Slot : Awaits(w, c)
      BY <2>9, <3>1 DEF IInv, WaiterHasChild
    <3>3. c # s
      BY <2>3, <3>2 DEF Awaits
    <3>4. Awaits(w, c)'
      BY <2>6, <2>9, <3>1, <3>2, <3>3 DEF Awaits
    <3> QED
      BY <3>4
  <2>10. WaiterHasChild'
    BY <2>9 DEF WaiterHasChild
  <2>11. IInv'
    BY <1>2, <2>1, <2>5, <2>7, <2>8, <2>10, SettledInvariant
  <2>12. \A r \in Slot : ZombieStep(r)
    BY <2>3, <2>6 DEF ZombieStep
  <2>13. \A r \in Slot : LineageStep(r)
    BY <2>3, <2>6, <2>11 DEF LineageStep, Alive, IInv, TypeOK, Pcb, State
  <2> QED
    BY <2>11, <2>12, <2>13 DEF Preserved
<1>3. CASE /\ \A s \in Slot : proc_table[s].state # "UNUSED"
           /\ TrapReturn(proc_table)
           /\ UNCHANGED <<tf, next_pid>>
  <2>1. Settled(proc_table)
    BY <1>1, <1>3, TrapReturnSettles
  <2> QED
    BY <1>1, <1>3, <2>1, KeepInvariant, SameReflexive DEF IInv, TypeOK
<1> QED
  BY <1>2, <1>3 DEF SysFork, NextPid

LEMMA GiveUpStep ==
  ASSUME IInv, UserMode, UNCHANGED <<tf, next_pid>>,
         NEW pcb \in Pcb, GiveUp(pcb),
         pcb.pid = Self.pid, pcb.ppid = Self.ppid,
         pcb.state \in {"RUNNABLE", "SLEEPING"}
  PROVE  Preserved
<1> DEFINE pt == WithCurrent(proc_table, pcb)
<1>1. /\ InHandler /\ Table(proc_table) /\ proc_table[current_proc].state = "RUNNING"
  BY UserModeFacts
<1>2. /\ Table(pt)
      /\ pt[current_proc] = pcb
      /\ \A s \in Slot : s # current_proc => pt[s] = proc_table[s]
  BY <1>1, WithCurrentTable
<1>3. Same(proc_table, pt)
  BY <1>1, <1>2 DEF Same, Self
<1>4. ScheduleAway(pt) \/ (ScheduleReturns(pt) /\ TrapReturn(pt))
  BY DEF GiveUp
<1> HIDE DEF pt
<1>5. Settled(pt)
  BY <1>1, <1>2, <1>4, ScheduleAwaySettles, ScheduleReturnsToRunning
<1> QED
  BY <1>1, <1>3, <1>5, KeepInvariant DEF IInv, TypeOK

LEMMA SysYieldStep ==
  ASSUME IInv, SysYield
  PROVE  Preserved
<1> DEFINE pcb == [Self EXCEPT !.state = "RUNNABLE"]
<1>1. Self \in Pcb
  BY UserModeFacts DEF SysYield, FreeCall, Self
<1>2. /\ pcb \in Pcb /\ pcb.pid = Self.pid /\ pcb.ppid = Self.ppid
      /\ pcb.state = "RUNNABLE"
  BY <1>1 DEF Pcb, State
<1>3. GiveUp(pcb) /\ UserMode /\ UNCHANGED <<tf, next_pid>>
  BY DEF SysYield, FreeCall
<1> HIDE DEF pcb
<1> QED
  BY <1>2, <1>3, GiveUpStep

LEMMA SysSleepStep ==
  ASSUME IInv, NEW w \in SleepArgs, SysSleep(w)
  PROVE  Preserved
<1> DEFINE pcb == [Self EXCEPT !.state = "SLEEPING", !.word = w]
<1>1. Self \in Pcb /\ w \in Word
  BY UserModeFacts, ConstantsAssumption DEF SysSleep, FreeCall, Self
<1>2. /\ pcb \in Pcb /\ pcb.pid = Self.pid /\ pcb.ppid = Self.ppid
      /\ pcb.state = "SLEEPING"
  BY <1>1 DEF Pcb, State
<1>3. GiveUp(pcb) /\ UserMode /\ UNCHANGED <<tf, next_pid>>
  BY DEF SysSleep, FreeCall
<1> HIDE DEF pcb
<1> QED
  BY <1>2, <1>3, GiveUpStep

LEMMA SysOtherStep ==
  ASSUME IInv, SysOther
  PROVE  Preserved
<1>1. InHandler /\ Table(proc_table) /\ proc_table[current_proc].state = "RUNNING"
  BY UserModeFacts DEF SysOther, FreeCall
<1>2. Settled(proc_table)
  BY <1>1, TrapReturnSettles DEF SysOther
<1> QED
  BY <1>1, <1>2, KeepInvariant, SameReflexive DEF SysOther, IInv, TypeOK

-----------------------------------------------------------------------------
(* waitpid.                                                                *)

LEMMA WithState ==
  ASSUME NEW pt \in [Slot -> Pcb], NEW s \in Slot, NEW st \in State
  PROVE  /\ [pt EXCEPT ![s].state = st] \in [Slot -> Pcb]
         /\ [pt EXCEPT ![s].state = st][s].state = st
         /\ [pt EXCEPT ![s].state = st][s].pid = pt[s].pid
         /\ [pt EXCEPT ![s].state = st][s].ppid = pt[s].ppid
         /\ \A r \in Slot : r # s => [pt EXCEPT ![s].state = st][r] = pt[r]
<1> DEFINE pcb == [pt[s] EXCEPT !.state = st]
<1>1. pcb \in Pcb /\ pcb.state = st /\ pcb.pid = pt[s].pid /\ pcb.ppid = pt[s].ppid
  BY DEF Pcb
<1>2. [pt EXCEPT ![s].state = st] = [pt EXCEPT ![s] = pcb]
  OBVIOUS
<1> HIDE DEF pcb
<1> QED
  BY <1>1, <1>2

(* The caller is the only process that could be waiting for the child it   *)
(* frees, because pids are unique, and it waits no more.                   *)
LEMMA ReapStep ==
  ASSUME IInv, UserMode, NEW arg \in Int, Reap(arg), next_pid' = next_pid
  PROVE  Preserved
<1>1. /\ InHandler /\ Table(proc_table) /\ proc_table[current_proc].state = "RUNNING"
      /\ Self \in Pcb
  BY UserModeFacts DEF Self
<1>2. PICK c \in Zombies(proc_table, Self.pid, arg) :
        \/ /\ TrapReturn([proc_table EXCEPT ![c].state = "UNUSED"])
           /\ tf' = [tf EXCEPT ![current_proc] = NoCall]
        \/ /\ Exit(proc_table, -2)
           /\ UNCHANGED tf
  BY DEF Reap
<1>3. /\ c \in Slot
      /\ proc_table[c].state = "ZOMBIE"
      /\ proc_table[c].ppid = Self.pid
  BY DEF Zombies, Matches
<1>4. CASE Exit(proc_table, -2) /\ UNCHANGED tf
  <2>1. Settled(proc_table)
    BY <1>1, <1>4, ExitSettles
  <2> QED
    BY <1>1, <1>4, <2>1, KeepInvariant, SameReflexive DEF IInv, TypeOK
<1>5. CASE /\ TrapReturn([proc_table EXCEPT ![c].state = "UNUSED"])
           /\ tf' = [tf EXCEPT ![current_proc] = NoCall]
  <2> DEFINE pt == [proc_table EXCEPT ![c].state = "UNUSED"]
  <2>1. proc_table \in [Slot -> Pcb] /\ "UNUSED" \in State
    BY DEF IInv, TypeOK, State
  <2>2. /\ pt \in [Slot -> Pcb]
        /\ pt[c].state = "UNUSED"
        /\ pt[c].pid = proc_table[c].pid
        /\ pt[c].ppid = proc_table[c].ppid
        /\ \A r \in Slot : r # c => pt[r] = proc_table[r]
    BY <1>3, <2>1, WithState
  <2>3. TrapReturn(pt)
    BY <1>5
  <2> HIDE DEF pt
  <2>4. Table(pt) /\ pt[current_proc].state = "RUNNING"
    BY <1>1, <1>3, <2>2 DEF Table, InHandler
  <2>5. Settled(pt)
    BY <1>1, <2>3, <2>4, TrapReturnSettles
  <2>6. \A r \in Slot :
          /\ proc_table'[r].pid = proc_table[r].pid
          /\ proc_table'[r].ppid = proc_table[r].ppid
          /\ proc_table'[r].state = "UNUSED" <=> (r = c \/ proc_table[r].state = "UNUSED")
          /\ r # c /\ proc_table[r].state = "ZOMBIE" => proc_table'[r].state = "ZOMBIE"
    BY <2>2, <2>5 DEF Settled, Same
  <2>7. UniquePids'
    BY <2>6 DEF IInv, UniquePids
  <2>8. /\ tf' \in [Slot -> Int]
        /\ tf'[current_proc] = NoCall
        /\ \A r \in Slot : r # current_proc => tf'[r] = tf[r]
    BY <1>1, <1>5 DEF IInv, TypeOK, NoCall, InHandler
  <2>9. ASSUME NEW w \in Slot,
               proc_table'[w].state \notin {"UNUSED", "ZOMBIE"}, tf'[w] # NoCall
        PROVE  \E d \in Slot : Awaits(w, d)'
    <3>1. /\ w # current_proc /\ tf'[w] = tf[w]
          /\ proc_table[w].state \notin {"UNUSED", "ZOMBIE"}
      BY <2>6, <2>8, <2>9
    <3>2. PICK d \in Slot : Awaits(w, d)
      BY <2>9, <3>1 DEF IInv, WaiterHasChild
    <3>3. proc_table[w].pid # Self.pid
      BY <1>1, <3>1 DEF IInv, UniquePids, InHandler, Self
    <3>4. d # c
      BY <1>3, <3>2, <3>3 DEF Awaits
    <3>5. Awaits(w, d)'
      BY <2>6, <2>9, <3>1, <3>2, <3>4 DEF Awaits
    <3> QED
      BY <3>5
  <2>10. WaiterHasChild'
    BY <2>9 DEF WaiterHasChild
  <2>11. IInv'
    BY <2>5, <2>7, <2>8, <2>10, SettledInvariant DEF IInv, TypeOK
  <2>12. \A r \in Slot : ZombieStep(r)
    BY <1>3, <2>6 DEF ZombieStep
  <2>13. \A r \in Slot : LineageStep(r)
    BY <1>3, <2>6, <2>11 DEF LineageStep, Alive, IInv, TypeOK, Pcb, State
  <2> QED
    BY <2>11, <2>12, <2>13 DEF Preserved
<1> QED
  BY <1>2, <1>4, <1>5

LEMMA WaitFailsStep ==
  ASSUME IInv, UserMode, NEW arg \in Int, WaitFails(arg), next_pid' = next_pid
  PROVE  Preserved
<1>1. InHandler /\ Table(proc_table) /\ proc_table[current_proc].state = "RUNNING"
  BY UserModeFacts
<1>2. Settled(proc_table)
  BY <1>1, TrapReturnSettles DEF WaitFails
<1>3. tf' \in [Slot -> Int] /\ \A s \in Slot : tf'[s] \in {tf[s], NoCall}
  BY <1>1 DEF WaitFails, IInv, TypeOK, NoCall, InHandler
<1> QED
  BY <1>1, <1>2, <1>3, KeepInvariant, SameReflexive

(* The caller becomes RUNNABLE, so schedule finds somebody to run, and the *)
(* child that made it wait is there.                                       *)
LEMMA WaitAgainStep ==
  ASSUME IInv, UserMode, NEW arg \in Int, WaitAgain(arg), next_pid' = next_pid
  PROVE  Preserved
<1> DEFINE pt == [proc_table EXCEPT ![current_proc].state = "RUNNABLE"]
<1>1. /\ InHandler /\ Table(proc_table) /\ proc_table[current_proc].state = "RUNNING"
      /\ current_proc \in Slot
  BY UserModeFacts DEF InHandler
<1>2. proc_table \in [Slot -> Pcb] /\ "RUNNABLE" \in State
  BY DEF IInv, TypeOK, State
<1>3. /\ pt \in [Slot -> Pcb]
      /\ pt[current_proc].state = "RUNNABLE"
      /\ pt[current_proc].pid = proc_table[current_proc].pid
      /\ pt[current_proc].ppid = proc_table[current_proc].ppid
      /\ \A r \in Slot : r # current_proc => pt[r] = proc_table[r]
  BY <1>1, <1>2, WithState
<1>4. /\ Matches(proc_table, Self.pid, arg) # {}
      /\ tf' = [tf EXCEPT ![current_proc] = arg]
      /\ ScheduleAway(pt) \/ ScheduleReturns(pt)
  BY DEF WaitAgain
<1> HIDE DEF pt
<1>5. Table(pt) /\ Same(proc_table, pt)
  BY <1>1, <1>3 DEF Table, Same
<1>6. ~ ScheduleReturns(pt)
  BY <1>1, <1>3 DEF ScheduleReturns, Runnable
<1>7. Settled(pt)
  BY <1>1, <1>4, <1>5, <1>6, ScheduleAwaySettles
<1>8. Same(proc_table, proc_table')
  BY <1>5, <1>7 DEF Settled, Same
<1>9. UniquePids'
  BY <1>8 DEF IInv, UniquePids, Same
<1>10. /\ tf' \in [Slot -> Int]
       /\ tf'[current_proc] = arg
       /\ \A r \in Slot : r # current_proc => tf'[r] = tf[r]
  BY <1>1, <1>4 DEF IInv, TypeOK
<1>11. ASSUME NEW w \in Slot,
              proc_table'[w].state \notin {"UNUSED", "ZOMBIE"}, tf'[w] # NoCall
       PROVE  \E d \in Slot : Awaits(w, d)'
  <2>1. CASE w = current_proc
    <3>1. PICK d \in Slot : /\ proc_table[d].state # "UNUSED"
                            /\ proc_table[d].ppid = Self.pid
                            /\ arg \in {Any, proc_table[d].pid}
      BY <1>4 DEF Matches
    <3>2. Awaits(w, d)'
      BY <1>8, <1>10, <1>11, <2>1, <3>1 DEF Awaits, Same, Self
    <3> QED
      BY <3>2
  <2>2. CASE w # current_proc
    <3>1. tf'[w] = tf[w] /\ proc_table[w].state \notin {"UNUSED", "ZOMBIE"}
      BY <1>8, <1>10, <1>11, <2>2 DEF Same
    <3>2. PICK d \in Slot : Awaits(w, d)
      BY <1>11, <3>1 DEF IInv, WaiterHasChild
    <3>3. Awaits(w, d)'
      BY <1>8, <1>11, <3>1, <3>2 DEF Awaits, Same
    <3> QED
      BY <3>3
  <2> QED
    BY <2>1, <2>2
<1>12. WaiterHasChild'
  BY <1>11 DEF WaiterHasChild
<1>13. IInv'
  BY <1>7, <1>9, <1>10, <1>12, SettledInvariant DEF IInv, TypeOK
<1>14. \A s \in Slot : ZombieStep(s)
  BY <1>8 DEF ZombieStep, Same
<1>15. \A s \in Slot : LineageStep(s)
  BY <1>8, <1>13 DEF LineageStep, Same, Alive, IInv, TypeOK, Pcb, State
<1> QED
  BY <1>13, <1>14, <1>15 DEF Preserved

LEMMA SysWaitpidStep ==
  ASSUME IInv, NEW arg \in {Any} \cup 1 .. MaxPid, SysWaitpid(arg)
  PROVE  Preserved
<1>1. arg \in Int
  BY ConstantsAssumption DEF Any
<1>2. UserMode /\ next_pid' = next_pid /\ (Reap(arg) \/ WaitFails(arg) \/ WaitAgain(arg))
  BY DEF SysWaitpid
<1> QED
  BY <1>1, <1>2, ReapStep, WaitFailsStep, WaitAgainStep

-----------------------------------------------------------------------------
(* kill, faults, the timer.                                                *)

LEMMA SignalFatalStep ==
  ASSUME IInv, UserMode, UNCHANGED <<tf, next_pid>>, NEW t \in Slot,
         proc_table[t].state # "UNUSED", NEW sig \in Nat, SignalFatal(t, sig)
  PROVE  Preserved
<1>1. InHandler /\ Table(proc_table) /\ proc_table[current_proc].state = "RUNNING"
  BY UserModeFacts
<1>2. -sig \in Int
  OBVIOUS
<1>3. CASE t = current_proc /\ Exit(proc_table, -sig)
  <2>1. Settled(proc_table)
    BY <1>1, <1>2, <1>3, ExitSettles
  <2> QED
    BY <1>1, <2>1, KeepInvariant, SameReflexive DEF IInv, TypeOK
<1>4. CASE /\ t # current_proc
           /\ TrapReturn([proc_table EXCEPT ![t].state = "ZOMBIE",
                                            ![t].exitcode = -sig])
  <2> DEFINE pcb == [proc_table[t] EXCEPT !.state = "ZOMBIE", !.exitcode = -sig]
             pt == [proc_table EXCEPT ![t] = pcb]
  <2>1. proc_table \in [Slot -> Pcb]
    BY DEF IInv, TypeOK
  <2>2. [proc_table EXCEPT ![t].state = "ZOMBIE", ![t].exitcode = -sig] = pt
    BY <2>1
  <2>3. /\ pcb \in Pcb /\ pcb.state = "ZOMBIE"
        /\ pcb.pid = proc_table[t].pid /\ pcb.ppid = proc_table[t].ppid
    BY <1>2, <2>1 DEF Pcb, State
  <2>4. TrapReturn(pt)
    BY <1>4, <2>2
  <2> HIDE DEF pcb
  <2>5. /\ pt \in [Slot -> Pcb]
        /\ pt[t] = pcb
        /\ \A r \in Slot : r # t => pt[r] = proc_table[r]
    BY <2>1, <2>3
  <2> HIDE DEF pt
  <2>6. Table(pt) /\ pt[current_proc].state = "RUNNING" /\ Same(proc_table, pt)
    BY <1>1, <1>4, <2>3, <2>5 DEF Table, InHandler, Same
  <2>7. Settled(pt)
    BY <1>1, <2>4, <2>6, TrapReturnSettles
  <2> QED
    BY <1>1, <2>6, <2>7, KeepInvariant DEF IInv, TypeOK
<1> QED
  BY <1>3, <1>4 DEF SignalFatal

LEMMA SignalPendingStep ==
  ASSUME IInv, UserMode, UNCHANGED <<tf, next_pid>>, NEW t \in Slot,
         NEW sig \in Nat, SignalPending(t, sig)
  PROVE  Preserved
<1>1. InHandler /\ Table(proc_table) /\ proc_table[current_proc].state = "RUNNING"
  BY UserModeFacts
<1> DEFINE st == IF proc_table[t].state = "SLEEPING" THEN "RUNNABLE"
                                                     ELSE proc_table[t].state
           sigs == proc_table[t].word.sigs \cup ({sig} \cap SigBit)
           word == [proc_table[t].word EXCEPT !.sigs = sigs]
           pcb == [proc_table[t] EXCEPT !.word = word, !.state = st]
           pt == [proc_table EXCEPT ![t] = pcb]
<1>2. proc_table \in [Slot -> Pcb]
  BY DEF IInv, TypeOK
<1>3. /\ st \in State
      /\ st = "RUNNING" <=> proc_table[t].state = "RUNNING"
      /\ st = "UNUSED" <=> proc_table[t].state = "UNUSED"
      /\ st = "ZOMBIE" <=> proc_table[t].state = "ZOMBIE"
  BY <1>2 DEF Pcb, State
<1>4. word \in Word
  BY <1>2 DEF Pcb, Word
<1>5. [proc_table EXCEPT ![t].word.sigs = @ \cup ({sig} \cap SigBit),
                         ![t].state = IF @ = "SLEEPING" THEN "RUNNABLE" ELSE @] = pt
  BY <1>2 DEF Pcb
<1>6. TrapReturn(pt)
  BY <1>5 DEF SignalPending
<1> HIDE DEF st, word
<1>7. /\ pcb \in Pcb /\ pcb.state = st
      /\ pcb.pid = proc_table[t].pid /\ pcb.ppid = proc_table[t].ppid
  BY <1>2, <1>3, <1>4 DEF Pcb
<1> HIDE DEF pcb
<1>8. /\ pt \in [Slot -> Pcb]
      /\ pt[t] = pcb
      /\ \A r \in Slot : r # t => pt[r] = proc_table[r]
  BY <1>2, <1>7
<1> HIDE DEF pt
<1>9. Table(pt) /\ pt[current_proc].state = "RUNNING" /\ Same(proc_table, pt)
  BY <1>1, <1>3, <1>7, <1>8 DEF Table, InHandler, Same
<1>10. Settled(pt)
  BY <1>1, <1>6, <1>9, TrapReturnSettles
<1> QED
  BY <1>1, <1>9, <1>10, KeepInvariant DEF IInv, TypeOK

LEMMA SysKillStep ==
  ASSUME IInv, NEW pid, NEW sig \in Signals, SysKill(pid, sig)
  PROVE  Preserved
<1>1. sig \in Nat
  BY ConstantsAssumption
<1>2. UserMode /\ UNCHANGED <<tf, next_pid>>
  BY DEF SysKill, FreeCall
<1>3. CASE \E t \in Slot : Target(t, pid) /\ (SignalFatal(t, sig) \/ SignalPending(t, sig))
  BY <1>1, <1>2, <1>3, SignalFatalStep, SignalPendingStep DEF Target
<1>4. CASE TrapReturn(proc_table)
  <2>1. InHandler /\ Table(proc_table) /\ proc_table[current_proc].state = "RUNNING"
    BY <1>2, UserModeFacts
  <2>2. Settled(proc_table)
    BY <1>4, <2>1, TrapReturnSettles
  <2> QED
    BY <1>2, <2>1, <2>2, KeepInvariant, SameReflexive DEF IInv, TypeOK
<1> QED
  BY <1>3, <1>4 DEF SysKill

LEMMA SysHaltStep ==
  ASSUME IInv, SysHalt
  PROVE  Preserved
<1>1. InHandler /\ Table(proc_table) /\ proc_table[current_proc].state = "RUNNING"
  BY UserModeFacts DEF SysHalt, FreeCall
<1>2. Settled(proc_table)
  BY <1>1, StaySettles DEF SysHalt
<1> QED
  BY <1>1, <1>2, KeepInvariant, SameReflexive DEF SysHalt, IInv, TypeOK

LEMMA UserFaultStep ==
  ASSUME IInv, NEW f \in Faults, UserFault(f)
  PROVE  Preserved
<1>1. InHandler /\ Table(proc_table) /\ proc_table[current_proc].state = "RUNNING"
  BY UserModeFacts DEF UserFault, FreeCall
<1>2. Settled(proc_table)
  BY <1>1, StaySettles, ExitSettles DEF UserFault
<1> QED
  BY <1>1, <1>2, KeepInvariant, SameReflexive DEF UserFault, IInv, TypeOK

(* The countdown borrows across the two halves and stays a word.           *)
LEMMA DecrementWord ==
  ASSUME NEW w \in Word
  PROVE  Decrement(w) \in Word
<1>1. w.ticks \in 0 .. MaxTicks /\ w.sigs \in SUBSET SigBit /\ MaxTicks \in Nat
  BY ConstantsAssumption DEF Word
<1>2. CASE w.ticks > 0
  BY <1>1, <1>2 DEF Decrement, Word
<1>3. CASE ~ (w.ticks > 0)
  <2> DEFINE low == {b \in SigBit : IF b \in w.sigs THEN \E c \in w.sigs : c < b
                                                    ELSE \A c \in w.sigs : b < c}
  <2>1. low \in SUBSET SigBit
    OBVIOUS
  <2>2. Decrement(w) = [ticks |-> MaxTicks, sigs |-> low]
    BY <1>3 DEF Decrement
  <2> HIDE DEF low
  <2> QED
    BY <1>1, <2>1, <2>2 DEF Word
<1> QED
  BY <1>2, <1>3

LEMMA TockFacts ==
  ASSUME NEW pcb \in Pcb
  PROVE  /\ Tock(pcb) \in Pcb
         /\ Tock(pcb).pid = pcb.pid
         /\ Tock(pcb).ppid = pcb.ppid
         /\ Tock(pcb).state = "UNUSED" <=> pcb.state = "UNUSED"
         /\ Tock(pcb).state = "ZOMBIE" <=> pcb.state = "ZOMBIE"
         /\ Tock(pcb).state = "RUNNING" <=> pcb.state = "RUNNING"
<1>1. CASE pcb.state # "SLEEPING"
  BY <1>1 DEF Tock
<1>2. CASE pcb.state = "SLEEPING" /\ Expired(pcb.word)
  <2>1. Tock(pcb) = [pcb EXCEPT !.state = "RUNNABLE"]
    BY <1>2 DEF Tock
  <2> QED
    BY <1>2, <2>1 DEF Pcb, State
<1>3. CASE pcb.state = "SLEEPING" /\ ~ Expired(pcb.word)
  <2> DEFINE w == Decrement(pcb.word)
             st == IF Expired(Decrement(pcb.word)) THEN "RUNNABLE" ELSE "SLEEPING"
  <2>1. w \in Word
    BY DecrementWord DEF Pcb
  <2>2. st \in {"RUNNABLE", "SLEEPING"}
    OBVIOUS
  <2>3. Tock(pcb) = [pcb EXCEPT !.word = w, !.state = st]
    BY <1>3 DEF Tock
  <2> HIDE DEF w, st
  <2> QED
    BY <1>3, <2>1, <2>2, <2>3 DEF Pcb, State
<1> QED
  BY <1>1, <1>2, <1>3

LEMMA TickStep ==
  ASSUME IInv, Tick
  PROVE  Preserved
<1> DEFINE pt == [s \in Slot |-> Tock(proc_table[s])]
<1>1. InHandler /\ Table(proc_table) /\ proc_table[current_proc].state = "RUNNING"
  BY UserModeFacts DEF Tick
<1>2. UNCHANGED <<tf, next_pid>>
      /\ (ScheduleAway(pt) \/ (ScheduleReturns(pt) /\ TrapReturn(pt)))
  BY DEF Tick
<1>3. \A s \in Slot : proc_table[s] \in Pcb /\ pt[s] = Tock(proc_table[s])
  BY <1>1 DEF Table
<1>4. pt \in [Slot -> Pcb] /\ Same(proc_table, pt)
      /\ \A s \in Slot : pt[s].state = "RUNNING" <=> proc_table[s].state = "RUNNING"
  BY <1>3, TockFacts DEF Same
<1> HIDE DEF pt
<1>5. Table(pt) /\ pt[current_proc].state = "RUNNING"
  BY <1>1, <1>4 DEF Table, InHandler
<1>6. Settled(pt)
  BY <1>1, <1>2, <1>5, ScheduleAwaySettles, TrapReturnSettles
<1> QED
  BY <1>1, <1>2, <1>4, <1>6, KeepInvariant DEF IInv, TypeOK

-----------------------------------------------------------------------------
(* The theorems.                                                           *)

LEMMA NextPreserves ==
  ASSUME IInv, [Next]_vars
  PROVE  IInv' /\ \/ \A s \in Slot : ZombieStep(s) /\ LineageStep(s)
                  \/ UNCHANGED vars
<1>1. CASE Next
  <2> SUFFICES Preserved
    BY DEF Preserved
  <2>1. CASE KmainBoot
    BY <2>1, KmainBootStep
  <2>2. ASSUME NEW code \in ExitCodes, SysExit(code) PROVE Preserved
    BY <2>2, SysExitStep
  <2>3. CASE SysFork
    BY <2>3, SysForkStep
  <2>4. CASE SysYield
    BY <2>4, SysYieldStep
  <2>5. ASSUME NEW w \in SleepArgs, SysSleep(w) PROVE Preserved
    BY <2>5, SysSleepStep
  <2>6. CASE SysOther
    BY <2>6, SysOtherStep
  <2>7. ASSUME NEW arg \in {Any} \cup 1 .. MaxPid, SysWaitpid(arg) PROVE Preserved
    BY <2>7, SysWaitpidStep
  <2>8. ASSUME NEW pid \in 1 .. MaxPid, NEW sig \in Signals, SysKill(pid, sig)
        PROVE  Preserved
    BY <2>8, SysKillStep
  <2>9. CASE SysHalt
    BY <2>9, SysHaltStep
  <2>10. ASSUME NEW f \in Faults, UserFault(f) PROVE Preserved
    BY <2>10, UserFaultStep
  <2>11. CASE Tick
    BY <2>11, TickStep
  <2> QED
    BY <1>1, <2>1, <2>2, <2>3, <2>4, <2>5, <2>6, <2>7, <2>8, <2>9, <2>10, <2>11
       DEF Next
<1>2. CASE UNCHANGED vars
  BY <1>2 DEF vars, IInv, TypeOK, CurrentIsRunning, NeverWedged, UniquePids,
              WaiterHasChild, Awaits, KmainOnlyWhenIdle, BeforeBoot
<1> QED
  BY <1>1, <1>2

(* The conjunction of the invariants is inductive.                         *)
THEOREM Invariance == Spec => []IInv
<1>1. IInv /\ [Next]_vars => IInv'
  BY NextPreserves
<1> QED
  BY InitIInv, <1>1, PTL DEF Spec

(* Types, whatever the program passes to the system calls: in particular   *)
(* the sleep word stays a word when the countdown borrows from its high    *)
(* half.                                                                   *)
THEOREM TypeCorrect == Spec => []TypeOK
<1>1. IInv => TypeOK
  BY DEF IInv
<1> QED
  BY <1>1, Invariance, PTL

(* current_proc, the scan index, the RUNNING state and kmain's saved stack *)
(* agree whenever user code runs.                                          *)
THEOREM SchedulerConsistent == Spec => []CurrentIsRunning
<1>1. IInv => CurrentIsRunning
  BY DEF IInv
<1> QED
  BY <1>1, Invariance, PTL

(* schedule never falls through to the wfi loop of proc_exit, nor into the *)
(* reap path of waitpid.                                                   *)
THEOREM NoWedge == Spec => []NeverWedged
<1>1. IInv => NeverWedged
  BY DEF IInv
<1> QED
  BY <1>1, Invariance, PTL

(* kill and waitpid find the process they are given the pid of.            *)
THEOREM PidsUnique == Spec => []UniquePids
<1>1. IInv => UniquePids
  BY DEF IInv
<1> QED
  BY <1>1, Invariance, PTL

(* A waiting parent never loses the child it waits for to another process. *)
THEOREM WaitersKeepChildren == Spec => []WaiterHasChild
<1>1. IInv => WaiterHasChild
  BY DEF IInv
<1> QED
  BY <1>1, Invariance, PTL

(* kmain gets the processor back only when no process could run.           *)
THEOREM KmainWaitsForIdle == Spec => []KmainOnlyWhenIdle
<1>1. IInv => KmainOnlyWhenIdle
  BY DEF IInv
<1> QED
  BY <1>1, Invariance, PTL

(* A zombie stays one until its own parent reaps it.                       *)
THEOREM ZombiesAreReapedByParents == Spec => ZombieReapedByParent
<1>1. IInv /\ [Next]_vars => [\A s \in Slot : ZombieStep(s)]_vars
  BY NextPreserves
<1> QED
  BY <1>1, Invariance, PTL DEF Spec, ZombieReapedByParent

(* A dead process whose parent is gone fills its slot for ever: only a     *)
(* live process with its parent's pid could free it, and that pid is never *)
(* handed out again.                                                       *)
THEOREM OrphansStay == Spec => OrphanStaysForever
<1>1. ASSUME IInv, [Next]_vars
      PROVE  [\A s \in Slot : Orphan(s) => Orphan(s)']_vars
  <2>1. CASE UNCHANGED vars
    BY <2>1
  <2>2. ASSUME \A s \in Slot : ZombieStep(s) /\ LineageStep(s),
               NEW s \in Slot, Orphan(s)
        PROVE  Orphan(s)'
    <3>1. /\ proc_table[s].state = "ZOMBIE"
          /\ \A p \in Slot : proc_table[p].state \in Alive
                               => proc_table[p].pid # proc_table[s].ppid
      BY <2>2 DEF Orphan, Alive
    <3>2. proc_table'[s].state = "ZOMBIE"
      <4>1. UserMode => /\ current_proc \in Slot
                        /\ proc_table[current_proc].state \in Alive
        BY <1>1, UserModeFacts DEF InHandler, Alive
      <4> QED
        BY <2>2, <3>1, <4>1 DEF ZombieStep, Self
    <3>3. proc_table'[s].ppid = proc_table[s].ppid
      BY <2>2, <3>1, <3>2 DEF LineageStep
    <3>4. proc_table[s].ppid # next_pid
      BY <1>1 DEF IInv, UniquePids, TypeOK, Pcb
    <3>5. \A p \in Slot : proc_table'[p].state \in Alive
                            => proc_table'[p].pid # proc_table[s].ppid
      BY <2>2, <3>1, <3>4 DEF LineageStep
    <3> QED
      BY <3>2, <3>3, <3>5 DEF Orphan, Alive
  <2> QED
    BY <1>1, <2>1, <2>2, NextPreserves
<1> QED
  BY <1>1, Invariance, PTL DEF Spec, OrphanStaysForever
=============================================================================
