-------------------------------- MODULE Proc --------------------------------
(***************************************************************************)
(* The process table of the BrowOS kernel, its round-robin scheduler, its  *)
(* signals and waitpid (kernel/proc.s, sched.s, signal.s and the paths of  *)
(* trap.s and syscall.s that lead into them).                              *)
(*                                                                         *)
(* One hart; every trap handler runs with sstatus.SIE = 0 to its end, so   *)
(* one handler, with all the calls it makes, is one action.  The kernel    *)
(* keeps no kernel context: a handler that calls schedule and is switched  *)
(* away never comes back, and its process resumes from its trapframe.      *)
(***************************************************************************)
EXTENDS Integers, FiniteSets

CONSTANTS
  MaxProcs,     \* MAX_PROCS, the slots of proc_table (16 in the code)
  MaxPid,       \* bound on the pids handed out (the code's counter is free)
  MaxTicks,     \* largest value of the low half of the sleep word (65535)
  Signals,      \* signal numbers that user code passes to kill
  SleepArgs,    \* words that user code passes to sleep
  ExitCodes,    \* codes that user code passes to exit
  Faults,       \* faults that user code may raise, a subset of FaultKind
  TimerFires    \* does the platform ever raise the supervisor timer interrupt

Slot == 0 .. (MaxProcs - 1)
NoProc == -1                     \* a null PCB pointer
Any == -1                        \* waitpid's "any child"
NoCall == -2                     \* a trapframe that is past its ecall
SigBit == 0 .. 15                \* the bits of the high half of the sleep word
MaxSig == 32
Fatal == {2, 9, 15}              \* SIGINT, SIGKILL, SIGTERM
State == {"UNUSED", "RUNNABLE", "RUNNING", "SLEEPING", "ZOMBIE"}
FaultKind == {"page", "illegal", "undelegated"}
Cpu == {"boot", "user", "kmain", "halted", "stopped", "wedged"}

(***************************************************************************)
(* PCB_SLEEPTICKS is one 32-bit word with two readers: the scheduler       *)
(* counts it down, sig_send and sig_check_deliver keep pending signals in  *)
(* its high half.                                                          *)
(***************************************************************************)
Word == [ticks : 0 .. MaxTicks, sigs : SUBSET SigBit]
Zero == [ticks |-> 0, sigs |-> {}]

ASSUME ConstantsAssumption ==
  /\ MaxProcs \in Nat /\ MaxProcs >= 3
  /\ MaxPid \in Nat /\ MaxPid >= 3
  /\ MaxTicks \in Nat
  /\ Signals \subseteq Nat
  /\ SleepArgs \subseteq Word
  /\ ExitCodes \subseteq Int
  /\ Faults \subseteq FaultKind
  /\ TimerFires \in BOOLEAN

VARIABLES
  proc_table,         \* the PCBs
  tf,                 \* what a resumed trapframe does first: NoCall, or the
                      \* argument of the waitpid whose ecall it repeats
  current_proc,       \* slot of the current PCB, or NoProc
  sched_current_idx,  \* slot from which schedule starts its scan
  next_pid,
  kmain_saved_sp,     \* TRUE when kmain waits to be resumed by schedule
  cpu                 \* who has the processor

vars == <<proc_table, tf, current_proc, sched_current_idx, next_pid,
          kmain_saved_sp, cpu>>

Pcb == [state : State, pid : Nat, ppid : Nat, exitcode : Int, word : Word]

TypeOK ==
  /\ proc_table \in [Slot -> Pcb]
  /\ tf \in [Slot -> Int]
  /\ current_proc \in Slot \cup {NoProc}
  /\ sched_current_idx \in Slot
  /\ next_pid \in Nat
  /\ kmain_saved_sp \in BOOLEAN
  /\ cpu \in Cpu

-----------------------------------------------------------------------------
(* The scheduler.  pt is the process table the caller has built so far.    *)

(* Bug: the circular scan stops one slot short of where it started.        *)
RunnableElsewhere(pt) ==
  {s \in Slot \ {sched_current_idx} : pt[s].state = "RUNNABLE"}

Runnable(pt) == {s \in Slot : pt[s].state = "RUNNABLE"}

(* Bug: every scan starts at slot 0.                                       *)
ScanFromZero(s) == s

(* How many steps the circular scan takes from sched_current_idx to s.     *)
ScanSteps(s) ==
  IF s > sched_current_idx THEN s - sched_current_idx
                           ELSE s - sched_current_idx + MaxProcs

(* Bug: the preempted process is left RUNNING.                             *)
SwitchKeepsRunning(pt) ==
  \E n \in Runnable(pt) :
    /\ \A m \in Runnable(pt) : ScanSteps(n) <= ScanSteps(m)
    /\ proc_table' = [s \in Slot |->
         [pt[s] EXCEPT !.state = IF s = n THEN "RUNNING" ELSE @]]
    /\ sched_current_idx' = n
    /\ current_proc' = n
    /\ cpu' = "user"
    /\ UNCHANGED kmain_saved_sp

(* context_switch to the first runnable slot of the scan.                  *)
Switch(pt) ==
  \E n \in Runnable(pt) :
    /\ \A m \in Runnable(pt) : ScanSteps(n) <= ScanSteps(m)
    /\ proc_table' = [s \in Slot |->
         [pt[s] EXCEPT !.state =
            IF s = n THEN "RUNNING"
            ELSE IF s = current_proc /\ @ = "RUNNING" THEN "RUNNABLE" ELSE @]]
    /\ sched_current_idx' = n
    /\ current_proc' = n
    /\ cpu' = "user"
    /\ UNCHANGED kmain_saved_sp

KeepsRunning(pt) ==
  current_proc # NoProc /\ pt[current_proc].state = "RUNNING"

(* Nothing to run: schedule gives the processor back to kmain.             *)
ResumeKmain(pt) ==
  /\ Runnable(pt) = {}
  /\ ~ KeepsRunning(pt)
  /\ kmain_saved_sp
  /\ proc_table' = pt
  /\ current_proc' = NoProc
  /\ kmain_saved_sp' = FALSE
  /\ cpu' = "kmain"
  /\ UNCHANGED sched_current_idx

(* The paths of schedule that do not come back to the caller, and the      *)
(* condition under which it does.                                          *)
ScheduleAway(pt) == Switch(pt) \/ ResumeKmain(pt)
ScheduleReturns(pt) ==
  Runnable(pt) = {} /\ (KeepsRunning(pt) \/ ~ kmain_saved_sp)

(* The handler goes on in the kernel, for ever, with interrupts off.       *)
Stay(pt, c) ==
  /\ proc_table' = pt
  /\ cpu' = c
  /\ UNCHANGED <<current_proc, sched_current_idx, kmain_saved_sp>>

(* pt with the current PCB replaced.                                       *)
WithCurrent(pt, pcb) == [s \in Slot |-> IF s = current_proc THEN pcb ELSE pt[s]]

(* proc_exit of the current process, ending in its wfi loop if schedule    *)
(* returns.                                                                *)
Exit(pt, code) ==
  LET dead == WithCurrent(pt, [pt[current_proc] EXCEPT !.state = "ZOMBIE",
                                                       !.exitcode = code])
  IN  ScheduleAway(dead) \/ (ScheduleReturns(dead) /\ Stay(dead, "wedged"))

(* The tail of trap_entry after a handler that returns: sig_check_deliver, *)
(* then sret.                                                              *)
FatalPending(pcb) == \E sig \in Fatal : sig \in pcb.word.sigs

TrapReturn(pt) ==
  \/ /\ ~ FatalPending(pt[current_proc])
     /\ Stay(pt, "user")
  \/ /\ FatalPending(pt[current_proc])
     /\ Exit(WithCurrent(pt, [pt[current_proc] EXCEPT !.word.sigs = {}]), -9)

-----------------------------------------------------------------------------
(* Traps of the current process.                                           *)

UserMode == cpu = "user" /\ current_proc # NoProc
FreeCall == UserMode /\ tf[current_proc] = NoCall
Self == proc_table[current_proc]

SysExit(code) ==
  /\ FreeCall
  /\ Exit(proc_table, code)
  /\ UNCHANGED <<tf, next_pid>>

(* proc_alloc in slot s: state, pid; the exit code and the sleep word keep *)
(* the values of the slot's last owner, and so does ppid.                  *)
FirstUnused(s) ==
  /\ proc_table[s].state = "UNUSED"
  /\ \A r \in Slot : proc_table[r].state = "UNUSED" => s <= r

Alloc(s, ppid) ==
  [proc_table EXCEPT ![s].state = "RUNNABLE", ![s].pid = next_pid,
                     ![s].ppid = ppid]

(* Bug: the pid counter is too narrow and wraps.                           *)
NextPidWraps == IF next_pid < MaxPid THEN next_pid + 1 ELSE 1

NextPid == next_pid + 1

SysFork ==
  /\ FreeCall
  /\ \/ \E s \in Slot :
          /\ FirstUnused(s)
          /\ next_pid <= MaxPid
          /\ TrapReturn(Alloc(s, Self.pid))
          /\ tf' = [tf EXCEPT ![s] = NoCall]
          /\ next_pid' = NextPid
     \/ /\ \A s \in Slot : proc_table[s].state # "UNUSED"
        /\ TrapReturn(proc_table)
        /\ UNCHANGED <<tf, next_pid>>

(* yield and sleep leave the current PCB as pcb and call schedule.         *)
GiveUp(pcb) ==
  LET pt == WithCurrent(proc_table, pcb)
  IN  ScheduleAway(pt) \/ (ScheduleReturns(pt) /\ TrapReturn(pt))

SysYield ==
  /\ FreeCall
  /\ GiveUp([Self EXCEPT !.state = "RUNNABLE"])
  /\ UNCHANGED <<tf, next_pid>>

SysSleep(w) ==
  /\ FreeCall
  /\ GiveUp([Self EXCEPT !.state = "SLEEPING", !.word = w])
  /\ UNCHANGED <<tf, next_pid>>

(* A call that only returns: getpid, an unknown number, and what the other *)
(* system calls are to this module.                                        *)
SysOther ==
  /\ FreeCall
  /\ TrapReturn(proc_table)
  /\ UNCHANGED <<tf, next_pid>>

(* Bug: a process whose ppid was never set counts as anybody's child.      *)
MatchesParentless(pt, pid, arg) ==
  {s \in Slot : /\ pt[s].state # "UNUSED"
                /\ pt[s].ppid \in {0, pid}
                /\ arg \in {Any, pt[s].pid}}

(* The slots that waitpid(arg) of a process with this pid looks at.        *)
Matches(pt, pid, arg) ==
  {s \in Slot : /\ pt[s].state # "UNUSED"
                /\ pt[s].ppid = pid
                /\ arg \in {Any, pt[s].pid}}

(* Bug: the scan for zombies forgets to compare the parent.                *)
ZombiesOfAnyone(pt, pid, arg) ==
  {s \in Slot : pt[s].state = "ZOMBIE" /\ arg \in {Any, pt[s].pid}}

Zombies(pt, pid, arg) ==
  {s \in Matches(pt, pid, arg) : pt[s].state = "ZOMBIE"}

(* Reap the first zombie of the scan.  A status pointer that is not        *)
(* writable faults in the kernel before the child is freed, and the nested *)
(* trap ends the caller.                                                   *)
Reap(arg) ==
  \E c \in Zombies(proc_table, Self.pid, arg) :
    /\ \A d \in Zombies(proc_table, Self.pid, arg) : c <= d
    /\ \/ /\ TrapReturn([proc_table EXCEPT ![c].state = "UNUSED"])
          /\ tf' = [tf EXCEPT ![current_proc] = NoCall]
       \/ /\ "page" \in Faults
          /\ Exit(proc_table, -2)
          /\ UNCHANGED tf

(* No child at all: -1.                                                    *)
WaitFails(arg) ==
  /\ Matches(proc_table, Self.pid, arg) = {}
  /\ TrapReturn(proc_table)
  /\ tf' = [tf EXCEPT ![current_proc] = NoCall]

(* Bug: the caller is not made RUNNABLE before the call of schedule.       *)
WaitAgainRunning(arg) ==
  /\ Matches(proc_table, Self.pid, arg) # {}
  /\ Zombies(proc_table, Self.pid, arg) = {}
  /\ tf' = [tf EXCEPT ![current_proc] = arg]
  /\ \/ ScheduleAway(proc_table)
     \/ ScheduleReturns(proc_table) /\ Stay(proc_table, "wedged")

(* Children, none of them dead: back up to the ecall and let others run.   *)
WaitAgain(arg) ==
  LET pt == [proc_table EXCEPT ![current_proc].state = "RUNNABLE"]
  IN  /\ Matches(proc_table, Self.pid, arg) # {}
      /\ Zombies(proc_table, Self.pid, arg) = {}
      /\ tf' = [tf EXCEPT ![current_proc] = arg]
      /\ ScheduleAway(pt) \/ (ScheduleReturns(pt) /\ Stay(pt, "wedged"))

SysWaitpid(arg) ==
  /\ UserMode
  /\ tf[current_proc] \in {NoCall, arg}
  /\ Reap(arg) \/ WaitFails(arg) \/ WaitAgain(arg)
  /\ UNCHANGED next_pid

(* sig_send to the process in slot t.                                      *)
SignalFatal(t, sig) ==
  /\ sig \in Fatal
  /\ \/ t = current_proc /\ Exit(proc_table, -sig)
     \/ /\ t # current_proc
        /\ TrapReturn([proc_table EXCEPT ![t].state = "ZOMBIE",
                                         ![t].exitcode = -sig])

(* Bug: the pending bit is not cut to the 16 bits kept for it.             *)
SignalPendingWide(t, sig) ==
  /\ sig \notin Fatal
  /\ sig < MaxSig
  /\ TrapReturn([proc_table EXCEPT
       ![t].word.sigs = @ \cup {sig},
       ![t].state = IF @ = "SLEEPING" THEN "RUNNABLE" ELSE @])

(* Bug: any target is made RUNNABLE, not only a sleeping one.              *)
SignalPendingRevives(t, sig) ==
  /\ sig \notin Fatal
  /\ sig < MaxSig
  /\ TrapReturn([proc_table EXCEPT
       ![t].word.sigs = @ \cup ({sig} \cap SigBit),
       ![t].state = IF t = current_proc THEN @ ELSE "RUNNABLE"])

SignalPending(t, sig) ==
  /\ sig \notin Fatal
  /\ sig < MaxSig
  /\ TrapReturn([proc_table EXCEPT
       ![t].word.sigs = @ \cup ({sig} \cap SigBit),
       ![t].state = IF @ = "SLEEPING" THEN "RUNNABLE" ELSE @])

Target(t, pid) == proc_table[t].state # "UNUSED" /\ proc_table[t].pid = pid

SysKill(pid, sig) ==
  /\ FreeCall
  /\ \/ \E t \in Slot : /\ Target(t, pid)
                        /\ \A r \in Slot : Target(r, pid) => t <= r
                        /\ SignalFatal(t, sig) \/ SignalPending(t, sig)
     \/ /\ sig >= MaxSig \/ \A t \in Slot : ~ Target(t, pid)
        /\ TrapReturn(proc_table)
  /\ UNCHANGED <<tf, next_pid>>

SysHalt ==
  /\ FreeCall
  /\ Stay(proc_table, "halted")
  /\ UNCHANGED <<tf, next_pid>>

(* A fault of the user program.  Page faults and illegal instructions are  *)
(* delegated to the kernel; misaligned and access faults are not, and with *)
(* no machine-mode vector they stop the processor.                         *)
UserFault(f) ==
  /\ FreeCall
  /\ \/ f = "page" /\ Exit(proc_table, -2)
     \/ f = "illegal" /\ Exit(proc_table, -1)
     \/ f = "undelegated" /\ Stay(proc_table, "stopped")
  /\ UNCHANGED <<tf, next_pid>>

-----------------------------------------------------------------------------
(* The timer.                                                              *)

Negative(w) == 15 \in w.sigs

(* The word minus one, borrowing from the pending-signal half.             *)
Decrement(w) ==
  IF w.ticks > 0
    THEN [w EXCEPT !.ticks = @ - 1]
    ELSE [ticks |-> MaxTicks,
          sigs  |-> {b \in SigBit : IF b \in w.sigs
                                      THEN \E c \in w.sigs : c < b
                                      ELSE \A c \in w.sigs : b < c}]

Expired(w) == w = Zero \/ Negative(w)

Tock(pcb) ==
  IF pcb.state # "SLEEPING" THEN pcb
  ELSE IF Expired(pcb.word) THEN [pcb EXCEPT !.state = "RUNNABLE"]
  ELSE [pcb EXCEPT !.word = Decrement(@),
                   !.state = IF Expired(Decrement(pcb.word))
                               THEN "RUNNABLE" ELSE "SLEEPING"]

(* Bug: the scan for sleepers misses the last slot.                        *)
TickShortScan ==
  /\ TimerFires
  /\ UserMode
  /\ LET pt == [s \in Slot |-> IF s < MaxProcs - 1 THEN Tock(proc_table[s])
                                                  ELSE proc_table[s]]
     IN  ScheduleAway(pt) \/ (ScheduleReturns(pt) /\ TrapReturn(pt))
  /\ UNCHANGED <<tf, next_pid>>

(* Bug: the tick counts sleepers down and does not call schedule.          *)
TickNoSchedule ==
  /\ TimerFires
  /\ UserMode
  /\ TrapReturn([s \in Slot |-> Tock(proc_table[s])])
  /\ UNCHANGED <<tf, next_pid>>

(* scheduler_tick, on a timer interrupt taken in user mode.                *)
Tick ==
  /\ TimerFires
  /\ UserMode
  /\ LET pt == [s \in Slot |-> Tock(proc_table[s])]
     IN  ScheduleAway(pt) \/ (ScheduleReturns(pt) /\ TrapReturn(pt))
  /\ UNCHANGED <<tf, next_pid>>

-----------------------------------------------------------------------------
(* Boot.  The kernel's self-test has left its two processes as zombies in  *)
(* the first two slots; kmain then allocates the shell and calls schedule. *)

FreePcb ==
  [state |-> "UNUSED", pid |-> 0, ppid |-> 0, exitcode |-> 0, word |-> Zero]

BootZombie(s) ==
  [state |-> "ZOMBIE", pid |-> s + 1, ppid |-> 0,
   exitcode |-> (IF s = 0 THEN 120 ELSE 55), word |-> Zero]

Init ==
  /\ proc_table = [s \in Slot |-> IF s < 2 THEN BootZombie(s) ELSE FreePcb]
  /\ tf = [s \in Slot |-> NoCall]
  /\ current_proc = NoProc
  /\ sched_current_idx = 0
  /\ next_pid = 3
  /\ kmain_saved_sp = FALSE
  /\ cpu = "boot"

(* proc_alloc, the ELF load, and kmain's call of schedule with its own     *)
(* stack saved.                                                            *)
KmainBoot ==
  /\ cpu = "boot"
  /\ \E s \in Slot :
       /\ FirstUnused(s)
       /\ proc_table' = [Alloc(s, proc_table[s].ppid) EXCEPT
                           ![s].state = "RUNNING"]
       /\ sched_current_idx' = s
       /\ current_proc' = s
  /\ next_pid' = NextPid
  /\ kmain_saved_sp' = TRUE
  /\ cpu' = "user"
  /\ UNCHANGED tf

Next ==
  \/ KmainBoot
  \/ \E code \in ExitCodes : SysExit(code)
  \/ SysFork
  \/ SysYield
  \/ \E w \in SleepArgs : SysSleep(w)
  \/ SysOther
  \/ \E arg \in {Any} \cup 1 .. MaxPid : SysWaitpid(arg)
  \/ \E pid \in 1 .. MaxPid, sig \in Signals : SysKill(pid, sig)
  \/ SysHalt
  \/ \E f \in Faults : UserFault(f)
  \/ Tick

Spec == Init /\ [][Next]_vars

(***************************************************************************)
(* Fairness.  kmain runs, the timer keeps firing, and a process whose      *)
(* trapframe points at its ecall executes it in one of its time slices: a  *)
(* slice is many instructions long.  A user program promises nothing.      *)
(***************************************************************************)
Retry(s) ==
  current_proc = s /\ tf[s] # NoCall /\ SysWaitpid(tf[s])

Fairness ==
  /\ WF_vars(KmainBoot)
  /\ WF_vars(Tick)
  /\ \A s \in Slot : SF_vars(Retry(s))

FairSpec == Spec /\ Fairness

-----------------------------------------------------------------------------
(* Properties.                                                             *)

(***************************************************************************)
(* While user code runs, current_proc names the only RUNNING PCB, the scan *)
(* index is its slot, and kmain waits to be resumed (the bookkeeping that  *)
(* schedule, context_switch and the syscalls share).                       *)
(***************************************************************************)
CurrentIsRunning ==
  cpu = "user" =>
    /\ current_proc # NoProc
    /\ sched_current_idx = current_proc
    /\ kmain_saved_sp
    /\ \A s \in Slot : proc_table[s].state = "RUNNING" <=> s = current_proc

(***************************************************************************)
(* No handler falls out of a schedule that found nothing to run: the wfi   *)
(* loop of proc_exit and the code after waitpid's call of schedule (which  *)
(* is the reap path, with clobbered registers) are never reached.          *)
(***************************************************************************)
NeverWedged == cpu # "wedged"

(***************************************************************************)
(* The live slots have different pids, all below next_pid: kill and        *)
(* waitpid, which stop at the first match of their scan, find the process. *)
(***************************************************************************)
UniquePids ==
  /\ \A s \in Slot : proc_table[s].ppid < next_pid /\ proc_table[s].pid < next_pid
  /\ \A s, r \in Slot :
       /\ proc_table[s].state # "UNUSED"
       /\ proc_table[r].state # "UNUSED"
       /\ proc_table[s].pid = proc_table[r].pid
       => s = r

(***************************************************************************)
(* A process that backed up to its waitpid still has a child to wait for,  *)
(* so the repeated call cannot answer ECHILD: nobody else can reap it, and *)
(* a child that dies or is signalled keeps its slot and its parent.        *)
(***************************************************************************)
Awaits(s, c) ==
  /\ proc_table[s].state \notin {"UNUSED", "ZOMBIE"}
  /\ tf[s] # NoCall
  /\ proc_table[c].state # "UNUSED"
  /\ proc_table[c].ppid = proc_table[s].pid
  /\ tf[s] \in {Any, proc_table[c].pid}

WaiterHasChild ==
  \A s \in Slot :
    proc_table[s].state \notin {"UNUSED", "ZOMBIE"} /\ tf[s] # NoCall
      => \E c \in Slot : Awaits(s, c)

(***************************************************************************)
(* schedule gives up on user processes only when none could run: every     *)
(* slot it passed over is free, dead or asleep.                            *)
(***************************************************************************)
KmainOnlyWhenIdle ==
  cpu = "kmain" =>
    \A s \in Slot : proc_table[s].state \in {"UNUSED", "ZOMBIE", "SLEEPING"}

(***************************************************************************)
(* A dead process stays dead, and its slot is freed only by the waitpid of *)
(* the process that forked it (sys_wait_reap_free); no signal, tick or     *)
(* switch brings it back.                                                  *)
(***************************************************************************)
ZombieStep(s) ==
  proc_table[s].state = "ZOMBIE" =>
    \/ proc_table'[s].state = "ZOMBIE"
    \/ /\ proc_table'[s].state = "UNUSED"
       /\ UserMode
       /\ Self.pid = proc_table[s].ppid

ZombieReapedByParent == [][\A s \in Slot : ZombieStep(s)]_vars

(***************************************************************************)
(* A zombie whose parent is gone keeps its slot for ever: there is no      *)
(* re-parenting, and a pid is never handed out twice.                      *)
(***************************************************************************)
Orphan(s) ==
  /\ proc_table[s].state = "ZOMBIE"
  /\ \A p \in Slot : proc_table[p].state \in {"RUNNABLE", "RUNNING", "SLEEPING"}
                       => proc_table[p].pid # proc_table[s].ppid

OrphanStaysForever == [][\A s \in Slot : Orphan(s) => Orphan(s)']_vars

(***************************************************************************)
(* Round robin with a timer: a process that could run is run (or killed).  *)
(***************************************************************************)
NoStarvation ==
  \A s \in Slot :
    (cpu = "user" /\ proc_table[s].state = "RUNNABLE")
      ~> (proc_table[s].state # "RUNNABLE" \/ cpu # "user")

(* A sleeper is woken, by its ticks, by a signal, or killed.               *)
SleeperWakes ==
  \A s \in Slot :
    (cpu = "user" /\ proc_table[s].state = "SLEEPING")
      ~> (proc_table[s].state # "SLEEPING" \/ cpu # "user")

(* A parent waiting for a child that has died returns from waitpid, unless *)
(* it dies first.                                                          *)
WaiterReturns ==
  \A s \in Slot :
    (/\ cpu = "user"
     /\ \E c \in Slot : Awaits(s, c) /\ proc_table[c].state = "ZOMBIE")
      ~> (\/ tf[s] = NoCall
          \/ proc_table[s].state \in {"ZOMBIE", "UNUSED"}
          \/ cpu # "user")

-----------------------------------------------------------------------------
(* What comments and docs say, and the code does not do.                   *)

(* sched.s calls this path kmain "waiting for all processes to complete".  *)
KmainOnlyWhenComplete ==
  cpu = "kmain" =>
    \A s \in Slot : proc_table[s].state \in {"UNUSED", "ZOMBIE"}

(* sig_check_deliver "delivers pending signals": a process that nobody     *)
(* signalled is not killed by it.                                          *)
NoSpuriousKill ==
  [][\A s \in Slot :
       (proc_table[s].state # "ZOMBIE" /\ proc_table'[s].state = "ZOMBIE"
          /\ proc_table'[s].exitcode = -9)
         => \E pid \in 1 .. MaxPid : SysKill(pid, 9)]_vars
=============================================================================
